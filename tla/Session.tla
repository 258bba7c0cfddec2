-------------------------------- MODULE Session --------------------------------
(***************************************************************************)
(* Sessions: what an account's tokens let it do while its roles change.    *)
(*                                                                         *)
(* Nothing of a session is kept in the database: an access token carries   *)
(* the roles its account had when it was read, and the guards look at the  *)
(* token only.  A refresh token is one without roles, and lasts longer.    *)
(***************************************************************************)
EXTENDS Integers, FiniteSets

CONSTANTS
    Holder,          \* the accounts
    SessionCall,     \* logins and refreshes that may be in flight together
    AccessLife,      \* accessTokenLifeSec, in ticks of the clock
    RefreshLife,     \* refreshTokenLifeSec
    LastTick,        \* the clock stops there
    MostSockets,     \* sockets connected at a time
    Needs,           \* what the routes ask of a caller (Routes)
    Passes(_, _)     \* whether the guards let a caller in (Routes)

ASSUME SessionAssumption ==
    AccessLife \in Nat \ {0} /\ RefreshLife \in Nat \ {0} /\ LastTick \in Nat

VARIABLES
    now,
    has,             \* the roles of each account in the database; {} before it registers
    disabled,        \* the accounts with isAccountDisabled
    tokens,          \* signed and not yet expired
    calls,           \* a login or refresh between its read and its signature
    sockets,         \* the tokens of the connected chat sockets
    admitted,        \* the last request let in: whose, with which roles, when
    left             \* when each role was last taken from each account

sessionVars == <<now, has, disabled, tokens, calls, sockets, admitted, left>>

Role == {"User", "Moderator", "Admin"}
Roleless == {"undefined"}
Nobody == [of |-> "nobody", roles |-> {}, on |-> 0, late |-> FALSE]
Idle == [at |-> "idle"]

SessionInit ==
    /\ now = 0
    /\ has = [a \in Holder |-> {}]
    /\ disabled = {}
    /\ tokens = {}
    /\ calls = [c \in SessionCall |-> Idle]
    /\ sockets = {}
    /\ admitted = Nobody
    /\ left = [a \in Holder |-> [r \in Role |-> 0]]

SessionTyped ==
    /\ \A a \in Holder : has[a] \subseteq Role
    /\ \A t \in tokens : /\ t.of \in Holder /\ (t.roles = Roleless \/ t.roles \subseteq Role)
                         /\ now < t.until /\ t.until <= now + (IF t.roles = Roleless THEN RefreshLife ELSE AccessLife)
    /\ \A c \in SessionCall : calls[c] # Idle => calls[c].roles \subseteq Role
    /\ admitted.roles \in (SUBSET Role) \cup {Roleless}

-----------------------------------------------------------------------------
\* An expired token is refused by the strategies of HTTP and of the sockets.
\* Mutant: expiry is not looked at.
InForceForGood(t) == t \in tokens \cup sockets
InForce(t) == t \in tokens

\* createAccount: the first of two roles, which come in no given order.
Register(a) ==
    /\ has[a] = {}
    /\ \E role \in {"User", "Moderator"} : has' = [has EXCEPT ![a] = {role}]
    /\ UNCHANGED <<now, disabled, tokens, calls, sockets, admitted, left>>

GrantAdmin(a) ==
    /\ has[a] # {} /\ "Admin" \notin has[a]
    /\ has' = [has EXCEPT ![a] = @ \cup {"Admin"}]
    /\ UNCHANGED <<now, disabled, tokens, calls, sockets, admitted, left>>

RevokeAdmin(a) ==
    /\ "Admin" \in has[a]
    /\ has' = [has EXCEPT ![a] = @ \ {"Admin"}]
    /\ left' = [left EXCEPT ![a]["Admin"] = now]
    /\ UNCHANGED <<now, disabled, tokens, calls, sockets, admitted>>

\* The flag an administrator or a verification sets (see Accounts).
SetDisabled(a, value) ==
    /\ has[a] # {} /\ (a \in disabled) # value
    /\ disabled' = IF value THEN disabled \cup {a} ELSE disabled \ {a}
    /\ UNCHANGED <<now, has, tokens, calls, sockets, admitted, left>>

-----------------------------------------------------------------------------
ReadAccount(c, a, roles) ==
    /\ calls[c] = Idle
    /\ calls' = [calls EXCEPT ![c] = [at |-> "read", of |-> a, roles |-> roles, had |-> has[a]]]
    /\ UNCHANGED <<now, has, disabled, tokens, sockets, admitted, left>>

(* LocalAuthGuard: the account is read with its roles, the password        *)
(* compared, a disabled one refused.                                       *)
ValidateAccount(c, a) ==
    /\ has[a] # {} /\ a \notin disabled
    /\ ReadAccount(c, a, has[a])

(* JwtRefreshGuard takes any token in force; refreshToken reads the account*)
(* again.                                                                  *)
RefreshToken(c, t) ==
    /\ InForce(t)
    /\ ReadAccount(c, t.of, has[t.of])

(* getAuthToken: two tokens for what was read.                             *)
GetAuthToken(c) ==
    LET call == calls[c]
        signed(roles, life, late) ==
            [of |-> call.of, roles |-> roles, until |-> now + life, late |-> late] IN
    /\ call # Idle
    /\ tokens' = tokens \cup {signed(call.roles, AccessLife, has[call.of] # call.had),
                              signed(Roleless, RefreshLife, FALSE)}
    /\ calls' = [calls EXCEPT ![c] = Idle]
    /\ UNCHANGED <<now, has, disabled, sockets, admitted, left>>

-----------------------------------------------------------------------------
Admit(t) ==
    /\ admitted' = [of |-> t.of, roles |-> t.roles, on |-> now, late |-> t.late]
    /\ UNCHANGED <<now, has, disabled, tokens, calls, sockets, left>>

(* A request for some route passes both guards; its context is made of the *)
(* token.                                                                  *)
Request(t) ==
    /\ {need \in Needs : Passes(need, [valid |-> InForce(t), roles |-> t.roles])} # {}
    /\ Admit(t)

(* ChatGateway: the token is verified when a socket connects, and by       *)
(* WsAuthGuard at every message; an expired one does not disconnect it.    *)
HandleConnection(t) ==
    /\ InForce(t) /\ t \notin sockets /\ Cardinality(sockets) < MostSockets
    /\ sockets' = sockets \cup {t}
    /\ UNCHANGED <<now, has, disabled, tokens, calls, admitted, left>>

HandleDisconnect(t) ==
    /\ t \in sockets
    /\ sockets' = sockets \ {t}
    /\ UNCHANGED <<now, has, disabled, tokens, calls, admitted, left>>

Message(t) == t \in sockets /\ InForce(t) /\ Admit(t)

Tick ==
    /\ now < LastTick
    /\ now' = now + 1
    /\ tokens' = {t \in tokens : t.until > now + 1}
    /\ UNCHANGED <<has, disabled, calls, sockets, admitted, left>>

SessionNext ==
    \/ \E a \in Holder : \/ Register(a) \/ GrantAdmin(a) \/ RevokeAdmin(a)
                          \/ \E value \in BOOLEAN : SetDisabled(a, value)
    \/ \E c \in SessionCall : \/ \E a \in Holder : ValidateAccount(c, a)
                              \/ \E t \in tokens : RefreshToken(c, t)
                              \/ GetAuthToken(c)
    \/ \E t \in tokens : Request(t) \/ HandleConnection(t)
    \/ \E t \in sockets : Message(t) \/ HandleDisconnect(t)
    \/ Tick

SessionSpec == SessionInit /\ [][SessionNext]_sessionVars

-----------------------------------------------------------------------------
(* A request is let in with a role its account no longer has only for      *)
(* less than the life of an access token after the role was taken, however *)
(* often the session has been refreshed and through HTTP or a socket; only *)
(* a call that read the account before a change of its roles and signed    *)
(* after it hands out a token that is late.                                *)
LetInOnRecentRoles ==
    admitted # Nobody /\ ~ admitted.late /\ admitted.roles # Roleless =>
        \A r \in admitted.roles : \/ r \in has[admitted.of]
                                  \/ admitted.on - left[admitted.of][r] < AccessLife
=============================================================================
