------------------------------- MODULE Tokens -------------------------------
(***************************************************************************)
(* Access and refresh tokens, and the blacklist in Redis that outlives a   *)
(* logout (iam/services.py, iam/security.py, iam/infra/blacklist.py).      *)
(*                                                                         *)
(* A token carries its expiry.  A revocation computes a time to live from  *)
(* the expiry and the current second, and Redis drops the entry when it is *)
(* over; the library reads the expiry in whole seconds.                    *)
(*                                                                         *)
(* Time is counted in ticks, TicksPerSecond of them to a second, so that   *)
(* what is rounded to seconds is seen.  A token is named by its request    *)
(* and kind; a token's signature and claims are left out.                  *)
(***************************************************************************)
EXTENDS Desk

CONSTANTS
    TicksPerSecond,
    Lifetimes,       \* the ticks an access and a refresh token live
    MaxNow           \* bound: the run ends here

Kinds == {"access", "refresh"}

ASSUME TokensAssumption ==
    /\ TicksPerSecond \in Nat \ {0}
    /\ Lifetimes \in [Kinds -> Nat]
    /\ MaxNow \in Nat

VARIABLES
    now,         \* the time, in ticks
    tokens,      \* the tokens issued: request, kind, user, expiry
    blacklist,   \* the entries in Redis: a token and when it lapses
    withdrawn,   \* the tokens whose revocation was reported as stored
    exchanged,   \* the tokens for which a refresh has issued a pair
    disabled     \* the users whose is_active was cleared

tokenVars == <<now, tokens, blacklist, withdrawn, exchanged, disabled>>

TokensInit ==
    /\ now = 0 /\ tokens = {} /\ blacklist = {}
    /\ withdrawn = {} /\ exchanged = {} /\ disabled = {}

WholeSeconds(t) == (t \div TicksPerSecond) * TicksPerSecond

\* validate_token: the expiry is cut to whole seconds.
Valid(token) == WholeSeconds(token.exp) > now

Blacklisted(token) == \E e \in blacklist : e.token = token

\* get_current_user, and get_current_user_from_ws, for the token a request or a
\* websocket brings along.  Nobody else asks the blacklist: refresh_tokens and logout
\* only validate.
Bears(token) == Valid(token) /\ ~Blacklisted(token)

\* create_tokens_for_user.
Pair(r, user) ==
    {[req |-> r, kind |-> k, user |-> user, exp |-> now + Lifetimes[k]] : k \in Kinds}

\* Mutant: the time to live is counted from now, not from its second.
TimeToLiveFromNow(token) == WholeSeconds(token.exp - now)

\* RedisTokenBlacklist.revoke: what setex makes of it is in whole seconds.
TimeToLive(token) == WholeSeconds(token.exp - WholeSeconds(now))

\* An entry for a token that is over is not written (the token is said to have
\* expired), and Redis refuses one of zero seconds, which fails the request.
Late(token) == token.exp <= WholeSeconds(now)
Revocable(token) == ~Late(token) /\ TimeToLive(token) > 0

Revoke(token) ==
    /\ blacklist' = {e \in blacklist : e.token # token} \cup
                    {[token |-> token, lapses |-> now + TimeToLive(token)]}
    /\ withdrawn' = withdrawn \cup {token}

\* authenticate.
Authenticate(r, user) ==
    /\ user \notin disabled
    /\ Start(r, "done", None)
    /\ tokens' = tokens \cup Pair(r, user)
    /\ UNCHANGED <<now, blacklist, withdrawn, exchanged, disabled>>

\* refresh_tokens, up to the read of the user; any valid token will do, of either
\* kind, and whether or not it is in the blacklist.
ValidateRefresh(r, token) ==
    /\ Valid(token)
    /\ Start(r, "rotating", token)
    /\ UNCHANGED tokenVars

\* refresh_tokens, the rest: the token is revoked in any case, and replaced when
\* the user is active.
Rotate(r) ==
    /\ pc[r] = "rotating"
    /\ IF Late(held[r]) THEN UNCHANGED <<blacklist, withdrawn>>
       ELSE Revocable(held[r]) /\ Revoke(held[r])
    /\ IF held[r].user \notin disabled
       THEN /\ End(r, "rotating", "done")
            /\ tokens' = tokens \cup Pair(r, held[r].user)
            /\ exchanged' = exchanged \cup {held[r]}
       ELSE /\ End(r, "rotating", "failed")
            /\ UNCHANGED <<tokens, exchanged>>
    /\ UNCHANGED <<now, disabled>>

\* logout: the access token, then the refresh token if one comes with it.
Logout(r, token) ==
    /\ token.kind = "access"
    /\ Start(r, "leaving", token)
    /\ IF Valid(token) THEN Revocable(token) /\ Revoke(token)
       ELSE UNCHANGED <<blacklist, withdrawn>>
    /\ UNCHANGED <<now, tokens, exchanged, disabled>>

LogoutRefresh(r, token) ==
    /\ token.kind = "refresh"
    /\ End(r, "leaving", "done")
    /\ IF Valid(token) THEN Revocable(token) /\ Revoke(token)
       ELSE UNCHANGED <<blacklist, withdrawn>>
    /\ UNCHANGED <<now, tokens, exchanged, disabled>>

LogoutEnds(r) == End(r, "leaving", "done") /\ UNCHANGED tokenVars

\* Time passes; Redis drops what has lapsed.
Tick ==
    /\ now < MaxNow
    /\ now' = now + 1
    /\ blacklist' = {e \in blacklist : e.lapses > now'}
    /\ UNCHANGED <<tokens, withdrawn, exchanged, disabled>>
    /\ UNCHANGED deskVars

\* No service clears is_active: it is done in the database.  (Bound: of users who
\* have tokens.)
Disable(user) ==
    /\ user \in {token.user : token \in tokens} \ disabled
    /\ disabled' = disabled \cup {user}
    /\ UNCHANGED <<now, tokens, blacklist, withdrawn, exchanged>>
    /\ UNCHANGED deskVars

TokensNext ==
    \/ Tick
    \/ \E user \in Users : Disable(user)
    \/ \E r \in Requests :
        \/ \E user \in Users : Authenticate(r, user)
        \/ \E token \in tokens :
              ValidateRefresh(r, token) \/ Logout(r, token) \/ LogoutRefresh(r, token)
        \/ Rotate(r)
        \/ LogoutEnds(r)
        \/ Abandon(r) /\ UNCHANGED tokenVars

TokensSpec == DeskInit /\ TokensInit /\ [][TokensNext]_<<deskVars, tokenVars>>

-----------------------------------------------------------------------------
\* No request is made in the name of a user with a token that was revoked, or that
\* a refresh has exchanged for a pair: what revoke has stored lives as long as the
\* library takes the token for valid, whatever part of a second the times fall on, and
\* where it stores nothing the token is over.  (RedisTokenBlacklist.revoke against
\* validate_token and get_current_user.  It says nothing of the refresh itself.)
RevokedBearsNothing == \A token \in withdrawn \cup exchanged : ~Bears(token)

\* A refresh token whose revocation is stored, by a refresh or by a logout, buys no
\* further pair, at least not in a refresh that begins afterwards.  (The rotation that
\* refresh_tokens announces and the withdrawal in logout; refresh_tokens does not
\* look.  Requests that do not overlap are enough.)
RevokedBuysNothing ==
    [][\A r \in Requests :
          pc[r] = "rotating" /\ pc'[r] = "done" /\ held[r].kind = "refresh" /\ ~overlapped
              => held[r] \notin withdrawn]_<<deskVars, tokenVars>>
=============================================================================
