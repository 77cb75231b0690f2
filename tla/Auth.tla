-------------------------------- MODULE Auth --------------------------------
(***************************************************************************)
(* One user, the tokens and the sessions.  A token is stored under its     *)
(* name and looked up by its hash; plaintexts are numbered, and the hash   *)
(* is taken to tell them apart.                                            *)
(***************************************************************************)
EXTENDS Naturals

CONSTANTS
    Logins,       \* login requests
    TokenNames,   \* names users give to API tokens, maybe that of a session
    TTLs,         \* lifetimes they ask for; what is not positive is 0
    SessionTTL,   \* lifetime of a session
    MaxNow,       \* bound on the clock
    MaxTokens,    \* bound on tokens ever made
    MaxPasswords  \* bound on runs of CreateUser

Names == TokenNames \cup (0 .. MaxNow) \* a session is named by its second
Plain == 1 .. MaxTokens

ASSUME AuthAssumption ==
    /\ TTLs \subseteq Nat /\ SessionTTL \in Nat \ {0}
    /\ MaxNow \in Nat /\ MaxTokens \in Nat /\ MaxPasswords \in Nat

VARIABLES
    user,      \* the password on record, 0 if there is no user
    passwords, \* passwords set so far
    tokens,    \* per name the plaintext and the end of the token, 0 for none
    minted,    \* tokens made so far
    now,       \* the clock, in seconds
    login,     \* requests: place and the password of the record they have read
    given,     \* history: per plaintext its name, end, and time; by login or not
    revoked    \* history: plaintexts whose record was deleted

authVars == <<user, passwords, tokens, minted, now, login, given, revoked>>

NoToken == [plain |-> 0, exp |-> 0]

AuthInit ==
    /\ user = 0 /\ passwords = 0 /\ tokens = [n \in Names |-> NoToken]
    /\ minted = 0 /\ now = 0 /\ given = <<>> /\ revoked = {}
    /\ login = [l \in Logins |-> [at |-> "idle", copy |-> 0]]

----------------------------------------------------------------------------
\* Both the wizard's admin and a repeated run of it.
CreateUser ==
    /\ passwords < MaxPasswords /\ passwords' = passwords + 1 /\ user' = passwords + 1
    /\ UNCHANGED <<tokens, minted, now, login, given, revoked>>

\* What is under the name is replaced.
CreateToken(n, ttl, session) ==
    LET exp == IF ttl > 0 THEN now + ttl ELSE 0 IN
    /\ minted < MaxTokens /\ minted' = minted + 1
    /\ tokens' = [tokens EXCEPT ![n] = [plain |-> minted + 1, exp |-> exp]]
    /\ given' = [p \in 1 .. (minted + 1) |->
          IF p <= minted THEN given[p]
                       ELSE [name |-> n, exp |-> exp, at |-> now, session |-> session]]

\* Login: the user by e-mail, the password against the copy ...
LoginVerifies(l) ==
    /\ login[l].at = "idle" /\ user # 0
    /\ login' = [login EXCEPT ![l] = [at |-> "verified", copy |-> user]]
    /\ UNCHANGED <<user, passwords, tokens, minted, now, given, revoked>>

\* Bug: all sessions have one name.
LoginTokenOneName(l) ==
    /\ login[l].at = "verified" /\ login' = [login EXCEPT ![l].at = "issued"]
    /\ CreateToken(0, SessionTTL, TRUE)
    /\ UNCHANGED <<user, passwords, now, revoked>>

\* ... a token named by the second; an error of the store ends the request ...
LoginToken(l) ==
    /\ login[l].at = "verified"
    /\ \/ CreateToken(now, SessionTTL, TRUE) /\ login' = [login EXCEPT ![l].at = "issued"]
       \/ login' = [login EXCEPT ![l].at = "idle"] /\ UNCHANGED <<tokens, minted, given>>
    /\ UNCHANGED <<user, passwords, now, revoked>>

\* ... and the copy back, with LastLoginAt; whether that works does not matter.
LoginPut(l) ==
    /\ login[l].at = "issued" /\ login' = [login EXCEPT ![l].at = "idle"]
    /\ user' \in {user, login[l].copy}
    /\ UNCHANGED <<passwords, tokens, minted, now, given, revoked>>

HandleCreateToken(n, ttl) ==
    /\ CreateToken(n, ttl, FALSE) /\ UNCHANGED <<user, passwords, now, login, revoked>>

\* Of API tokens and sessions alike.
HandleDeleteToken(n) ==
    /\ tokens[n] # NoToken
    /\ tokens' = [tokens EXCEPT ![n] = NoToken]
    /\ revoked' = revoked \cup {tokens[n].plain}
    /\ UNCHANGED <<user, passwords, minted, now, login, given>>

Tick ==
    /\ now < MaxNow /\ now' = now + 1
    /\ UNCHANGED <<user, passwords, tokens, minted, login, given, revoked>>

AuthNext ==
    \/ CreateUser \/ Tick
    \/ \E l \in Logins : LoginVerifies(l) \/ LoginToken(l) \/ LoginPut(l)
    \/ \E n \in TokenNames : \E ttl \in TTLs : HandleCreateToken(n, ttl)
    \/ \E n \in Names : HandleDeleteToken(n)

AuthSpec == AuthInit /\ [][AuthNext]_authVars

----------------------------------------------------------------------------
\* GetTokenByHash goes through all records.
ResolveToken(p) ==
    \E n \in Names : tokens[n].plain = p /\ (tokens[n].exp = 0 \/ now <= tokens[n].exp)

Replaces(q, p) ==
    /\ q > p /\ given[q].name = given[p].name
    /\ given[p].session /\ given[q].session => given[q].at = given[p].at

\* A token is accepted until it ends, is revoked, or another takes its name;
\* and a session's name is taken only by a login of the same second or by an
\* API token that was given this very name (auth.go:169-228): no other login,
\* token or revocation ends a session.
TokensLast ==
    \A p \in DOMAIN given :
       ResolveToken(p) <=>
          /\ given[p].exp = 0 \/ now <= given[p].exp
          /\ p \notin revoked
          /\ \A q \in DOMAIN given : ~Replaces(q, p)
=============================================================================
