-------------------------- MODULE BackOfficeProofs --------------------------
(***************************************************************************)
(* Proofs about the back office, for every value of the constants: the     *)
(* roles requests are let in on (Session), the news, their readers and the *)
(* popularity task (NewsStand), what a reading request is answered with    *)
(* (Requests), and the parts together (MCBackOffice).                      *)
(***************************************************************************)
EXTENDS MCBackOffice, ManagementProofs, SeedingProofs, FiniteSetTheorems, SequenceTheorems, WellFoundedInduction

-----------------------------------------------------------------------------
(***************************************************************************)
(* Session and NewsStand.                                                  *)
(***************************************************************************)

(* Sessions.  What is kept of an account, a token, a call and a request.   *)
TokenType == [of : Holder, roles : (SUBSET Role) \cup {Roleless}, until : Nat, late : BOOLEAN]
CallType == [at : {"read"}, of : Holder, roles : SUBSET Role, had : SUBSET Role]
AdmittedType == [of : Holder, roles : (SUBSET Role) \cup {Roleless}, on : Nat, late : BOOLEAN]

Life(roles) == IF roles = Roleless THEN RefreshLife ELSE AccessLife

SessionShapes ==
    /\ now \in Nat
    /\ has \in [Holder -> SUBSET Role]
    /\ left \in [Holder -> [Role -> Nat]] /\ \A a \in Holder, r \in Role : left[a][r] <= now
    /\ tokens \subseteq TokenType /\ sockets \subseteq TokenType
    /\ \A t \in tokens : now < t.until /\ t.until <= now + Life(t.roles)
    /\ calls \in [SessionCall -> CallType \cup {Idle}]
    /\ \A c \in SessionCall : calls[c] # Idle => calls[c].roles = calls[c].had
    /\ admitted \in AdmittedType \cup {Nobody} /\ admitted.on <= now

(* A token that is not late has roles its account has, or lost in the time *)
(* the token is in force ...                                               *)
Recent(t) ==
    ~ t.late /\ t.roles # Roleless =>
        /\ t.until <= now + AccessLife
        /\ \A r \in t.roles : r \in has[t.of] \/ t.until <= left[t.of][r] + AccessLife

SessionInv ==
    /\ SessionShapes
    /\ \A t \in tokens \cup sockets : Recent(t)
    /\ LetInOnRecentRoles

LEMMA RolelessFact == ~ Roleless \subseteq Role /\ Roleless \notin SUBSET Role
BY DEF Roleless, Role

LEMMA SessionInitInv == SessionInit => SessionInv
<1> SUFFICES ASSUME SessionInit
             PROVE  SessionInv
    OBVIOUS
<1>1. SessionShapes
    BY DEF SessionInit, SessionShapes, Nobody, Idle
<1>2. LetInOnRecentRoles
    BY DEF SessionInit, LetInOnRecentRoles
<1>3. QED
    BY <1>1, <1>2 DEF SessionInit, SessionInv

(* Roles are given: what was recent stays so.                              *)
LEMMA GivenKeeps ==
    ASSUME SessionInv, NEW a \in Holder, NEW role \in Role,
           has' = [has EXCEPT ![a] = has[a] \cup {role}],
           UNCHANGED <<now, tokens, calls, sockets, admitted, left>>
    PROVE  SessionInv'
<1>1. has' \in [Holder -> SUBSET Role] /\ \A b \in Holder : has[b] \subseteq has'[b]
    BY DEF SessionInv, SessionShapes
<1>2. SessionShapes'
    BY <1>1 DEF SessionInv, SessionShapes
<1>3. \A t \in tokens \cup sockets : t.of \in Holder
    BY DEF SessionInv, SessionShapes, TokenType
<1>4. \A t \in tokens \cup sockets : Recent(t)'
    BY <1>1, <1>3 DEF SessionInv, Recent
<1>5. LetInOnRecentRoles'
  <2>1. admitted # Nobody => admitted.of \in Holder
      BY DEF SessionInv, SessionShapes, AdmittedType
  <2>2. QED
      BY <1>1, <2>1 DEF SessionInv, LetInOnRecentRoles
<1>6. QED
    BY <1>2, <1>4, <1>5 DEF SessionInv

(* A role is taken now, while the tokens that have it are in force no      *)
(* longer than an access token lives.                                      *)
LEMMA TakenKeeps ==
    ASSUME SessionInv, NEW a \in Holder, RevokeAdmin(a)
    PROVE  SessionInv'
<1> USE SessionAssumption
<1>1. /\ has' = [has EXCEPT ![a] = has[a] \ {"Admin"}]
      /\ left' = [left EXCEPT ![a] = [left[a] EXCEPT !["Admin"] = now]]
      /\ UNCHANGED <<now, tokens, calls, sockets, admitted>>
    BY DEF RevokeAdmin
<1>2. "Admin" \in Role /\ left[a] \in [Role -> Nat] /\ now \in Nat
    BY DEF SessionInv, SessionShapes, Role
<1>3. /\ [left[a] EXCEPT !["Admin"] = now] \in [Role -> Nat]
      /\ [left[a] EXCEPT !["Admin"] = now]["Admin"] = now
      /\ \A r \in Role \ {"Admin"} : [left[a] EXCEPT !["Admin"] = now][r] = left[a][r]
    BY <1>2
<1>4. /\ has' \in [Holder -> SUBSET Role] /\ has'[a] = has[a] \ {"Admin"}
      /\ \A b \in Holder \ {a} : has'[b] = has[b]
    BY <1>1 DEF SessionInv, SessionShapes
<1>5. /\ left' \in [Holder -> [Role -> Nat]]
      /\ left'[a]["Admin"] = now /\ \A r \in Role \ {"Admin"} : left'[a][r] = left[a][r]
      /\ \A b \in Holder \ {a} : left'[b] = left[b]
    BY <1>1, <1>3 DEF SessionInv, SessionShapes
<1>6. SessionShapes'
  <2>1. \A b \in Holder, r \in Role : left'[b][r] <= now
      BY <1>2, <1>5 DEF SessionInv, SessionShapes
  <2>2. QED
      BY <1>1, <1>4, <1>5, <2>1 DEF SessionInv, SessionShapes
<1>7. ASSUME NEW t \in tokens \cup sockets
      PROVE  Recent(t)'
  <2>1. /\ t.of \in Holder /\ t.until \in Nat /\ t.roles \in (SUBSET Role) \cup {Roleless}
      BY DEF SessionInv, SessionShapes, TokenType
  <2>2. SUFFICES ASSUME ~ t.late, t.roles # Roleless
                 PROVE  /\ t.until <= now + AccessLife
                        /\ \A r \in t.roles : r \in has'[t.of] \/ t.until <= left'[t.of][r] + AccessLife
      BY <1>1 DEF Recent
  <2>3. /\ t.roles \subseteq Role /\ t.until <= now + AccessLife
        /\ \A r \in t.roles : r \in has[t.of] \/ t.until <= left[t.of][r] + AccessLife
    <3>1. Recent(t)
        BY DEF SessionInv
    <3>2. t.roles \subseteq Role
        BY <2>1, <2>2
    <3>3. QED
        BY <2>2, <3>1, <3>2 DEF Recent
  <2>4. ASSUME NEW r \in t.roles
        PROVE  r \in has'[t.of] \/ t.until <= left'[t.of][r] + AccessLife
    <3>1. CASE t.of = a /\ r = "Admin"
        BY <1>5, <2>3, <3>1
    <3>2. CASE ~ (t.of = a /\ r = "Admin")
        BY <1>4, <1>5, <2>1, <2>3, <3>2
    <3>3. QED
        BY <3>1, <3>2
  <2>5. QED
      BY <2>3, <2>4
<1>8. LetInOnRecentRoles'
  <2>1. SUFFICES ASSUME admitted # Nobody, ~ admitted.late, admitted.roles # Roleless, NEW r \in admitted.roles
                 PROVE  r \in has'[admitted.of] \/ admitted.on - left'[admitted.of][r] < AccessLife
      BY <1>1 DEF LetInOnRecentRoles
  <2>2. admitted.of \in Holder /\ r \in Role /\ admitted.on \in Nat /\ admitted.on <= now
    <3>1. admitted \in AdmittedType /\ admitted.on <= now
        BY <2>1 DEF SessionInv, SessionShapes
    <3>2. admitted.roles \in SUBSET Role
        BY <2>1, <3>1 DEF AdmittedType
    <3>3. QED
        BY <2>1, <3>1, <3>2 DEF AdmittedType
  <2>3. r \in has[admitted.of] \/ admitted.on - left[admitted.of][r] < AccessLife
      BY <2>1 DEF SessionInv, LetInOnRecentRoles
  <2>4. CASE admitted.of = a /\ r = "Admin"
      BY <1>2, <1>5, <2>2, <2>4
  <2>5. CASE ~ (admitted.of = a /\ r = "Admin")
      BY <1>4, <1>5, <2>2, <2>3, <2>5
  <2>6. QED
      BY <2>4, <2>5
<1>9. QED
    BY <1>1, <1>6, <1>7, <1>8 DEF SessionInv

LEMMA SignKeeps ==
    ASSUME SessionInv, NEW c \in SessionCall, GetAuthToken(c)
    PROVE  SessionInv'
<1> USE SessionAssumption
<1> DEFINE signed(roles, life, late) ==
        [of |-> calls[c].of, roles |-> roles, until |-> now + life, late |-> late]
           access == signed(calls[c].roles, AccessLife, has[calls[c].of] # calls[c].had)
           refresh == signed(Roleless, RefreshLife, FALSE)
<1>1. /\ calls[c] \in CallType /\ calls[c].roles = calls[c].had
      /\ tokens' = tokens \cup {access, refresh}
      /\ calls' = [calls EXCEPT ![c] = Idle]
      /\ UNCHANGED <<now, has, sockets, admitted, left>>
    BY DEF GetAuthToken, SessionInv, SessionShapes
<1>2. now \in Nat /\ calls[c].of \in Holder /\ calls[c].roles \in SUBSET Role
    BY <1>1 DEF SessionInv, SessionShapes, CallType
<1>3. /\ access \in TokenType /\ now < access.until
      /\ refresh \in TokenType /\ now < refresh.until
  <2>1. now + AccessLife \in Nat /\ now + RefreshLife \in Nat
        /\ now < now + AccessLife /\ now < now + RefreshLife
      BY <1>2
  <2>2. PICK late \in BOOLEAN : late = (has[calls[c].of] # calls[c].had)
      OBVIOUS
  <2>3. access = signed(calls[c].roles, AccessLife, late)
      BY <2>2
  <2>4. QED
      BY <1>2, <2>1, <2>3 DEF TokenType
<1>3a. access.until <= now + Life(access.roles) /\ refresh.until <= now + Life(refresh.roles)
  <2>1. access.until = now + AccessLife /\ access.roles = calls[c].roles /\ access.roles # Roleless
      BY <1>2, RolelessFact
  <2>2. refresh.until = now + RefreshLife /\ refresh.roles = Roleless
      OBVIOUS
  <2>3. now + AccessLife <= now + AccessLife /\ now + RefreshLife <= now + RefreshLife
      BY <1>2
  <2> HIDE DEF access, refresh
  <2>4. QED
      BY <2>1, <2>2, <2>3 DEF Life
<1>4. SessionShapes'
  <2>1. calls' \in [SessionCall -> CallType \cup {Idle}]
        /\ \A d \in SessionCall : calls'[d] # Idle => calls'[d].roles = calls'[d].had
      BY <1>1 DEF SessionInv, SessionShapes
  <2>2. tokens' \subseteq TokenType /\ \A t \in tokens' : now < t.until /\ t.until <= now + Life(t.roles)
      BY <1>1, <1>3, <1>3a DEF SessionInv, SessionShapes
  <2>3. QED
      BY <1>1, <2>1, <2>2 DEF SessionInv, SessionShapes
<1>5. Recent(access)
  <2>1. access.late = (has[calls[c].of] # calls[c].had) /\ access.roles = calls[c].had
        /\ access.of = calls[c].of /\ access.until = now + AccessLife
      BY <1>1
  <2>2. ~ access.late => has[calls[c].of] = calls[c].had
      BY <2>1
  <2>3. ~ access.late => \A r \in access.roles : r \in has[access.of]
      BY <2>1, <2>2
  <2>4. access.until <= now + AccessLife
      BY <1>2, <2>1
  <2> HIDE DEF access
  <2>5. QED
      BY <2>3, <2>4 DEF Recent
<1>6. Recent(refresh)
    BY DEF Recent
<1> HIDE DEF access, refresh
<1>7. \A t \in tokens' \cup sockets' : Recent(t)
    BY <1>1, <1>5, <1>6 DEF SessionInv
<1>8. \A t \in tokens' \cup sockets' : Recent(t)'
    BY <1>1, <1>7 DEF Recent
<1>9. QED
    BY <1>1, <1>4, <1>8 DEF SessionInv, LetInOnRecentRoles

(* A token in force has been so for less than its life.                    *)
LEMMA AdmitKeeps ==
    ASSUME SessionInv, NEW t \in tokens, Admit(t)
    PROVE  SessionInv'
<1> USE SessionAssumption
<1>1. /\ admitted' = [of |-> t.of, roles |-> t.roles, on |-> now, late |-> t.late]
      /\ UNCHANGED <<now, has, tokens, calls, sockets, left>>
    BY DEF Admit
<1>2. /\ t.of \in Holder /\ t.roles \in (SUBSET Role) \cup {Roleless} /\ t.until \in Nat
      /\ t.late \in BOOLEAN /\ now < t.until /\ now \in Nat /\ Recent(t)
    BY DEF SessionInv, SessionShapes, TokenType
<1>3. SessionShapes'
  <2>1. admitted' \in AdmittedType /\ admitted'.on = now
      BY <1>1, <1>2 DEF AdmittedType
  <2>2. QED
      BY <1>1, <1>2, <2>1 DEF SessionInv, SessionShapes
<1>4. \A u \in tokens \cup sockets : Recent(u)'
    BY <1>1 DEF SessionInv, Recent
<1>5. LetInOnRecentRoles'
  <2>1. SUFFICES ASSUME ~ t.late, t.roles # Roleless, NEW r \in t.roles
                 PROVE  r \in has[t.of] \/ now - left[t.of][r] < AccessLife
      BY <1>1 DEF LetInOnRecentRoles
  <2>2. r \in has[t.of] \/ t.until <= left[t.of][r] + AccessLife
      BY <1>2, <2>1 DEF Recent
  <2>3. left[t.of][r] \in Nat
    <3>1. t.roles \in SUBSET Role
        BY <1>2, <2>1
    <3>2. r \in Role
        BY <2>1, <3>1
    <3>3. QED
        BY <1>2, <3>2 DEF SessionInv, SessionShapes
  <2>4. QED
      BY <1>2, <2>2, <2>3
<1>6. QED
    BY <1>1, <1>3, <1>4, <1>5 DEF SessionInv

LEMMA SessionStep == SessionInv /\ [SessionNext]_sessionVars => SessionInv'
<1> SUFFICES ASSUME SessionInv, [SessionNext]_sessionVars
             PROVE  SessionInv'
    OBVIOUS
<1> USE SessionAssumption
<1>1. ASSUME NEW a \in Holder, Register(a)
      PROVE  SessionInv'
  <2>1. PICK role \in Role : has' = [has EXCEPT ![a] = has[a] \cup {role}]
      BY <1>1 DEF Register, Role
  <2>2. QED
      BY <1>1, <2>1, GivenKeeps DEF Register
<1>2. ASSUME NEW a \in Holder, GrantAdmin(a)
      PROVE  SessionInv'
  <2>1. PICK role \in Role : has' = [has EXCEPT ![a] = has[a] \cup {role}]
      BY <1>2 DEF GrantAdmin, Role
  <2>2. QED
      BY <1>2, <2>1, GivenKeeps DEF GrantAdmin
<1>3. ASSUME NEW c \in SessionCall, NEW a \in Holder, ReadAccount(c, a, has[a])
      PROVE  SessionInv'
  <2>1. /\ calls' = [calls EXCEPT ![c] = [at |-> "read", of |-> a, roles |-> has[a], had |-> has[a]]]
        /\ UNCHANGED <<now, has, tokens, sockets, admitted, left>>
      BY <1>3 DEF ReadAccount
  <2>2. [at |-> "read", of |-> a, roles |-> has[a], had |-> has[a]] \in CallType
      BY DEF SessionInv, SessionShapes, CallType
  <2>3. SessionShapes'
    <3>1. calls' \in [SessionCall -> CallType \cup {Idle}]
        BY <2>1, <2>2 DEF SessionInv, SessionShapes
    <3>2. \A d \in SessionCall : calls'[d] # Idle => calls'[d].roles = calls'[d].had
        BY <2>1 DEF SessionInv, SessionShapes
    <3>3. QED
        BY <2>1, <3>1, <3>2 DEF SessionInv, SessionShapes
  <2>4. QED
      BY <2>1, <2>3 DEF SessionInv, Recent, LetInOnRecentRoles
<1>4. ASSUME NEW t \in tokens, HandleConnection(t)
      PROVE  SessionInv'
    BY <1>4 DEF HandleConnection, SessionInv, SessionShapes, Recent, LetInOnRecentRoles
<1>5. ASSUME NEW t \in sockets, HandleDisconnect(t)
      PROVE  SessionInv'
    BY <1>5 DEF HandleDisconnect, SessionInv, SessionShapes, Recent, LetInOnRecentRoles
<1>6. CASE Tick
  <2>1. /\ now' = now + 1 /\ tokens' = {t \in tokens : t.until > now + 1}
        /\ UNCHANGED <<has, calls, sockets, admitted, left>>
      BY <1>6 DEF Tick
  <2>2. SessionShapes'
    <3>1. now \in Nat /\ now' \in Nat
        BY <2>1 DEF SessionInv, SessionShapes
    <3>2. \A a \in Holder, r \in Role : left[a][r] <= now'
        BY <2>1, <3>1 DEF SessionInv, SessionShapes
    <3>3. admitted.on <= now'
        BY <2>1, <3>1 DEF SessionInv, SessionShapes, AdmittedType, Nobody
    <3>4. \A t \in tokens' : t \in TokenType /\ now' < t.until /\ t.until <= now' + Life(t.roles)
        BY <2>1, <3>1 DEF SessionInv, SessionShapes, TokenType, Life
    <3>5. QED
        BY <2>1, <3>1, <3>2, <3>3, <3>4 DEF SessionInv, SessionShapes
  <2>3. \A t \in tokens \cup sockets : t.until \in Nat
      BY DEF SessionInv, SessionShapes, TokenType
  <2>4. now \in Nat
      BY DEF SessionInv, SessionShapes
  <2>5. \A t \in tokens \cup sockets : Recent(t)'
      BY <2>1, <2>3, <2>4 DEF SessionInv, Recent
  <2>6. QED
      BY <2>1, <2>2, <2>5 DEF SessionInv, LetInOnRecentRoles
<1>7. CASE UNCHANGED sessionVars \/ \E a \in Holder, value \in BOOLEAN : SetDisabled(a, value)
    BY <1>7 DEF sessionVars, SetDisabled, SessionInv, SessionShapes, Recent, LetInOnRecentRoles
<1>8. \A t \in tokens : t.of \in Holder
    BY DEF SessionInv, SessionShapes, TokenType
<1>9. QED
    BY <1>1, <1>2, <1>3, <1>4, <1>5, <1>6, <1>7, <1>8, TakenKeeps, SignKeeps, AdmitKeeps
       DEF SessionNext, ValidateAccount, RefreshToken, Request, Message, InForce

LEMMA SessionTypes == SessionInv => SessionTyped
<1> SUFFICES ASSUME SessionInv
             PROVE  SessionTyped
    OBVIOUS
<1>1. \A a \in Holder : has[a] \subseteq Role
    BY DEF SessionInv, SessionShapes
<1>2. \A t \in tokens : /\ t.of \in Holder /\ (t.roles = Roleless \/ t.roles \subseteq Role)
                        /\ now < t.until /\ t.until <= now + Life(t.roles)
    BY DEF SessionInv, SessionShapes, TokenType
<1>3. \A c \in SessionCall : calls[c] # Idle => calls[c].roles \subseteq Role
    BY DEF SessionInv, SessionShapes, CallType
<1>4. admitted.roles \in (SUBSET Role) \cup {Roleless}
    BY DEF SessionInv, SessionShapes, AdmittedType, Nobody
<1>5. QED
    BY <1>1, <1>2, <1>3, <1>4 DEF SessionTyped, Life

(* Roles, tokens, calls and what was let in keep their types; a token in   *)
(* force is so for no longer than a token of its kind lives.               *)
THEOREM SessionTypeCorrect == SessionSpec => []SessionTyped
BY SessionTypes, SessionInitInv, SessionStep, PTL DEF SessionSpec

(* A request is let in on a role that its account lost only within the     *)
(* life of an access token, unless the token was signed with roles read    *)
(* before they changed: for any number of refreshes and any clock.         *)
THEOREM RolesAreRecent == SessionSpec => []LetInOnRecentRoles
<1>1. SessionInv => LetInOnRecentRoles
    BY DEF SessionInv
<1>2. QED
    BY <1>1, SessionInitInv, SessionStep, PTL DEF SessionSpec

-----------------------------------------------------------------------------
(***************************************************************************)
(* Sets of numbers, and the pages of the popularity task.                  *)
(***************************************************************************)

(* A set of natural numbers has a least one.                               *)
LEMMA LeastOfNaturals ==
    ASSUME NEW S, S \subseteq Nat, S # {}
    PROVE  \E x \in S : \A y \in S : x <= y
<1>1. \E x \in S : \A y \in S : ~ (<<y, x>> \in OpToRel(<, Nat))
  BY NatLessThanWellFounded, WFMin
<1>2. \A x, y \in Nat : <<y, x>> \in OpToRel(<, Nat) <=> y < x
  BY DEF OpToRel
<1>3. PICK x \in S : \A y \in S : ~ (<<y, x>> \in OpToRel(<, Nat)) BY <1>1
<1>4. ASSUME NEW y \in S PROVE x <= y
  <2>1. x \in Nat /\ y \in Nat OBVIOUS
  <2>2. ~ (y < x) BY <1>2, <1>3, <2>1
  <2> QED BY <2>1, <2>2
<1> QED BY <1>4

(* A set of numbers up to a bound has a greatest one, which is its Max.    *)
LEMMA GreatestIsMax ==
    ASSUME NEW N \in Nat, NEW S, S \subseteq 0 .. N, S # {}
    PROVE  Max(S) \in S /\ \A y \in S : y <= Max(S)
<1> DEFINE T == {d \in Nat : N - d \in S}
<1>1. T # {}
  <2>1. PICK x \in S : x \in 0 .. N OBVIOUS
  <2>2. N - x \in Nat /\ N - (N - x) = x BY <2>1
  <2> QED BY <2>1, <2>2
<1>2. PICK d \in T : \A e \in T : d <= e
  <2> HIDE DEF T
  <2>1. T \subseteq Nat BY DEF T
  <2> QED BY <1>1, <2>1, LeastOfNaturals
<1>3. \A y \in S : y <= N - d
  <2> TAKE y \in S
  <2>1. y \in 0 .. N OBVIOUS
  <2>2. N - y \in Nat /\ N - (N - y) = y BY <2>1
  <2>3. d <= N - y BY <1>2, <2>2
  <2> QED BY <1>2, <2>1, <2>3
<1>4. \E x \in S : \A y \in S : x >= y
  <2>1. N - d \in S BY <1>2
  <2>2. \A y \in S : N - d >= y BY <1>3, <1>2
  <2> QED BY <2>1, <2>2
<1>5. Max(S) \in S /\ \A y \in S : Max(S) >= y
  BY <1>4 DEF Max
<1> QED BY <1>5

LEMMA GreaterOfTwo ==
    ASSUME NEW a \in Int, NEW b \in Int
    PROVE  Max({a, b}) \in Int
<1>1. \E x \in {a, b} : \A y \in {a, b} : x >= y
  OBVIOUS
<1> QED BY <1>1 DEF Max

LEMMA PopularityType ==
    ASSUME NEW n \in News, NEW seen \in Nat
    PROVE  Popularity(n, seen) \in Int
<1> DEFINE days == DaysOld[n]
           value == IF days > 7 THEN seen - (days - 6) * (days - 6) * 10 ELSE seen
<1>1. days \in Int BY StandAssumption
<1>2. (days - 6) * (days - 6) \in Int BY <1>1
<1>3. value \in Int BY <1>1, <1>2
<1> HIDE DEF value
<1>4. Max({value, -2147483647}) \in Int BY <1>3, GreaterOfTwo
<1> QED BY <1>4 DEF Popularity, value

(* A page holds the news after its cursor without a gap, and is empty only *)
(* when there is none.                                                     *)
LEMMA PagesHaveNoGap ==
    ASSUME NEW from \in 0 .. LastNews, alive \subseteq News
    PROVE  /\ PageAfter(from) \subseteq alive
           /\ PageAfter(from) = {} => \A n \in alive : n <= from
           /\ PageAfter(from) # {} =>
                /\ Max(PageAfter(from)) \in alive
                /\ \A n \in alive : from < n /\ n <= Max(PageAfter(from)) => n \in PageAfter(from)
<1>0. /\ LastNews \in Nat /\ PageSize \in Nat /\ 1 <= PageSize /\ from \in Nat
      /\ \A k \in alive : k \in Nat /\ k \in 0 .. LastNews
  <2>1. LastNews \in Nat /\ PageSize \in Nat /\ PageSize # 0 BY StandAssumption
  <2>2. from \in Nat BY <2>1
  <2>3. ASSUME NEW k \in alive PROVE k \in Nat /\ k \in 0 .. LastNews
    <3>1. k \in 1 .. LastNews BY DEF News
    <3> QED BY <3>1, <2>1
  <2> QED BY <2>1, <2>2, <2>3
<1> DEFINE UpTo(n) == {k \in alive : from < k /\ k <= n}
<1>1. PageAfter(from) = {n \in alive : n > from /\ Cardinality(UpTo(n)) <= PageSize}
  BY DEF PageAfter
<1>2. ASSUME NEW n \in Nat
      PROVE  IsFiniteSet(UpTo(n)) /\ Cardinality(UpTo(n)) \in Nat
  <2>1. UpTo(n) \in SUBSET Nat /\ \A s \in UpTo(n) : s <= n BY <1>0
  <2> HIDE DEF UpTo
  <2> QED BY <2>1, FS_BoundedSetOfNaturals, FS_CardinalityType
<1>3. PageAfter(from) \subseteq alive
  BY DEF PageAfter
<1>4. ASSUME PageAfter(from) = {}, NEW m \in alive, m > from
      PROVE  FALSE
  <2> DEFINE Later == {k \in alive : k > from}
  <2>1. Later # {} /\ Later \subseteq Nat BY <1>0, <1>4
  <2>2. PICK least \in Later : \A y \in Later : least <= y
    <3> HIDE DEF Later
    <3> QED BY <2>1, LeastOfNaturals
  <2>3. UpTo(least) = {least}
    <3>1. ASSUME NEW k \in UpTo(least) PROVE k = least
      <4>1. k \in Later /\ k <= least OBVIOUS
      <4> QED BY <4>1, <2>2, <1>0
    <3>2. least \in UpTo(least) BY <2>2, <1>0
    <3> HIDE DEF UpTo
    <3> QED BY <3>1, <3>2
  <2>4. Cardinality(UpTo(least)) = 1
    <3> HIDE DEF UpTo
    <3> QED BY <2>3, FS_Singleton
  <2>5. 1 <= PageSize BY <1>0
  <2>6. Cardinality(UpTo(least)) <= PageSize BY <2>4, <2>5
  <2>7. least \in PageAfter(from)
    <3> HIDE DEF UpTo
    <3> QED BY <2>2, <2>6, <1>1
  <2> QED BY <2>7, <1>4
<1>5. ASSUME PageAfter(from) # {}
      PROVE  /\ Max(PageAfter(from)) \in alive
             /\ \A n \in alive : from < n /\ n <= Max(PageAfter(from)) => n \in PageAfter(from)
  <2> DEFINE page == PageAfter(from)
  <2>1. page \subseteq 0 .. LastNews BY <1>0, <1>3
  <2>2. Max(page) \in page
    <3> HIDE DEF page
    <3>1. page # {} BY <1>5 DEF page
    <3> QED BY <2>1, <3>1, <1>0, GreatestIsMax
  <2> DEFINE top == Max(page)
  <2>3. top \in alive /\ top > from /\ Cardinality(UpTo(top)) <= PageSize
    <3> HIDE DEF UpTo
    <3> QED BY <2>2, <1>1
  <2> HIDE DEF top
  <2>4. ASSUME NEW n \in alive, from < n, n <= top
        PROVE  n \in page
    <3>2. n \in Nat /\ top \in Nat BY <2>3, <1>0
    <3>1. UpTo(n) \in SUBSET UpTo(top)
      <4>1. ASSUME NEW k \in UpTo(n) PROVE k \in UpTo(top)
        <5>1. k \in Nat /\ k <= n /\ k \in alive /\ from < k BY <1>0
        <5>2. k <= top BY <5>1, <3>2, <2>4
        <5> QED BY <5>1, <5>2
      <4> HIDE DEF UpTo
      <4> QED BY <4>1
    <3> HIDE DEF UpTo
    <3>3. Cardinality(UpTo(n)) <= Cardinality(UpTo(top))
      BY <3>1, <3>2, <1>2, FS_Subset
    <3>4. Cardinality(UpTo(n)) <= PageSize
      BY <3>2, <3>3, <2>3, <1>2, <1>0
    <3> QED BY <2>4, <3>4, <1>1
  <2> QED BY <2>3, <2>4 DEF top
<1> QED
  <2>1. ASSUME PageAfter(from) = {} PROVE \A n \in alive : n <= from
    <3> SUFFICES ASSUME NEW n \in alive PROVE n <= from OBVIOUS
    <3>1. ~ (n > from) BY <1>4, <2>1
    <3> QED BY <3>1, <1>0
  <2> QED BY <1>3, <2>1, <1>5

-----------------------------------------------------------------------------
(***************************************************************************)
(* The views.                                                              *)
(***************************************************************************)

(* The viewers whose view is in the count.                                 *)
Counted(n) == {v \in Viewers(n) :
    /\ v \notin uncounted
    /\ ~ \E c \in ReadCall : npc[c] = "count" /\ njob[c] = v}

LEMMA ViewsOfCounted == ViewsCountViewers <=> \A n \in alive : views[n] = Cardinality(Counted(n))
BY DEF ViewsCountViewers, Counted

LEMMA ViewsStay ==
    ASSUME ViewsCountViewers,
           \A n \in alive' : n \in alive /\ views'[n] = views[n] /\ (Counted(n))' = Counted(n)
    PROVE  ViewsCountViewers'
<1>1. \A n \in alive : views[n] = Cardinality(Counted(n)) BY ViewsOfCounted
<1>2. \A n \in alive' : views'[n] = Cardinality((Counted(n))') BY <1>1
<1>3. ViewsCountViewers' <=> \A n \in alive' : views'[n] = Cardinality((Counted(n))')
  BY DEF ViewsCountViewers, Counted
<1> QED BY <1>2, <1>3

(* What a step leaves alone when it is none of the task's.                 *)
LEMMA TaskLeftAlone ==
    ASSUME StandInv, UNCHANGED taskVars, nextNews' >= nextNews, nextNews' \in Int,
           \A n \in alive' : n \in alive \/ n >= nextNews
    PROVE  /\ \A t \in Task : \A n \in since'[t] : n < nextNews'
           /\ PageInv' /\ EveryNewsFetched'
<1>1. \A t \in Task : \A n \in since[t] : n < nextNews /\ n \in Int
  <2>1. since \in [Task -> SUBSET News] BY DEF StandInv, StandTyped
  <2> QED BY <2>1, StandAssumption DEF StandInv, IdsInv, News
<1>2. nextNews \in Int BY StandAssumption DEF StandInv, StandTyped
<1>3. \A t \in Task : \A n \in since[t] : n \in alive' => n \in alive
  BY <1>1, <1>2
<1>4. \A t \in Task : \A n \in since'[t] : n < nextNews'
  BY <1>1, <1>2 DEF taskVars
<1>5. PageInv'
  BY <1>3 DEF StandInv, PageInv, taskVars
<1>6. EveryNewsFetched'
  BY <1>3 DEF StandInv, EveryNewsFetched, taskVars
<1> QED BY <1>4, <1>5, <1>6

-----------------------------------------------------------------------------
(***************************************************************************)
(* One step of each kind.                                                  *)
(***************************************************************************)

LEMMA FindKeeps ==
    ASSUME StandInv, NEW c \in ReadCall, NEW v \in Visits, ReadFind(c, v)
    PROVE  StandInv'
<1> USE DEF StandInv
<1>0. /\ npc \in [ReadCall -> {"idle", "create", "count", "done", "refused", "dead"}]
      /\ njob \in [ReadCall -> Visits]
  BY DEF StandTyped
<1>1. /\ npc'[c] \in {"done", "create"} /\ njob'[c] = v /\ npc[c] = "idle"
      /\ \A d \in ReadCall : d # c => npc'[d] = npc[d] /\ njob'[d] = njob[d]
      /\ npc' \in [ReadCall -> {"idle", "create", "count", "done", "refused", "dead"}]
      /\ njob' \in [ReadCall -> Visits]
      /\ UNCHANGED <<alive, viewer, views, popularity, nextNews, scores, uncounted, taskVars>>
  BY <1>0 DEF ReadFind
<1>2. \A d \in ReadCall : npc'[d] = "count" => d # c /\ npc[d] = "count" /\ njob'[d] = njob[d]
  BY <1>1
<1>3. \A d \in ReadCall : npc[d] = "count" => npc'[d] = "count" /\ njob'[d] = njob[d]
  BY <1>1
<1>4. StandTyped' BY <1>1 DEF StandTyped, taskVars
<1>5. /\ \A t \in Task : \A n \in since'[t] : n < nextNews'
      /\ PageInv' /\ EveryNewsFetched'
  <2>1. nextNews \in Int BY StandAssumption DEF StandTyped
  <2> QED BY <1>1, <2>1, TaskLeftAlone
<1>6. IdsInv' BY <1>1, <1>2, <1>5 DEF IdsInv
<1>7. CountInv' BY <1>1, <1>2 DEF CountInv
<1>8. ViewsCountViewers'
  <2>1. ASSUME NEW n \in alive' PROVE n \in alive /\ views'[n] = views[n] /\ (Counted(n))' = Counted(n)
    BY <1>1, <1>2, <1>3 DEF Counted, Viewers
  <2> QED BY <2>1, ViewsStay
<1> QED BY <1>4, <1>5, <1>6, <1>7, <1>8

LEMMA ViewerKeeps ==
    ASSUME StandInv, NEW c \in ReadCall, ReadCreate(c)
    PROVE  StandInv'
<1> USE DEF StandInv
<1>0. /\ npc \in [ReadCall -> {"idle", "create", "count", "done", "refused", "dead"}]
      /\ njob \in [ReadCall -> Visits]
  BY DEF StandTyped
<1>1. /\ npc[c] = "create"
      /\ \A d \in ReadCall : d # c => npc'[d] = npc[d]
      /\ npc' \in [ReadCall -> {"idle", "create", "count", "done", "refused", "dead"}]
      /\ UNCHANGED <<alive, views, popularity, nextNews, njob, scores, uncounted, taskVars>>
      /\ \/ npc'[c] = "refused" /\ viewer' = viewer
         \/ /\ npc'[c] = "count" /\ viewer' = viewer \cup {njob[c]}
            /\ njob[c] \notin viewer /\ njob[c][1] \in alive
  BY <1>0 DEF ReadCreate, ViewerFits
<1>4. StandTyped' BY <1>1, <1>0 DEF StandTyped, taskVars
<1>5. /\ \A t \in Task : \A n \in since'[t] : n < nextNews'
      /\ PageInv' /\ EveryNewsFetched'
  <2>1. nextNews \in Int BY StandAssumption DEF StandTyped
  <2> QED BY <1>1, <2>1, TaskLeftAlone
<1>6. IdsInv'
  <2>1. \A n \in alive : n < nextNews BY StandAssumption DEF StandTyped
  <2> QED BY <1>1, <1>5, <2>1 DEF IdsInv
<1>7. CountInv'
  <2>1. IsFiniteSet(viewer') BY <1>1, FS_AddElement DEF CountInv
  <2>2. \A v \in uncounted' : v[1] \in alive' => v \in viewer' BY <1>1 DEF CountInv
  <2>3. \A d \in ReadCall : npc[d] = "count" /\ njob[d][1] \in alive => njob[d] \in viewer
    BY DEF CountInv
  <2>4. ASSUME NEW d \in ReadCall, npc'[d] = "count", njob'[d][1] \in alive'
        PROVE  /\ njob'[d] \in viewer' \ uncounted'
               /\ \A e \in ReadCall : npc'[e] = "count" /\ njob'[e] = njob'[d] => e = d
    <3>1. CASE d = c
      <4>1. njob[c] \notin viewer /\ njob[c][1] \in alive /\ viewer' = viewer \cup {njob[c]}
        BY <1>1, <2>4, <3>1
      <4>2. njob[c] \notin uncounted BY <4>1 DEF CountInv
      <4>3. ASSUME NEW e \in ReadCall, npc'[e] = "count", njob'[e] = njob'[d] PROVE e = d
        <5>1. e # c => npc[e] = "count" /\ njob[e] = njob[c] BY <1>1, <3>1, <4>3
        <5> QED BY <5>1, <2>3, <4>1, <3>1
      <4> QED BY <1>1, <3>1, <4>1, <4>2, <4>3
    <3>2. CASE d # c
      <4>1. npc[d] = "count" /\ njob[d][1] \in alive BY <1>1, <2>4, <3>2
      <4>2. /\ njob[d] \in viewer \ uncounted
            /\ \A e \in ReadCall : npc[e] = "count" /\ njob[e] = njob[d] => e = d
        BY <4>1 DEF CountInv
      <4>3. ASSUME NEW e \in ReadCall, npc'[e] = "count", njob'[e] = njob'[d] PROVE e = d
        <5>1. CASE e = c
          BY <5>1, <4>2, <4>3, <1>1
        <5>2. CASE e # c
          BY <5>2, <4>2, <4>3, <1>1
        <5> QED BY <5>1, <5>2
      <4> QED BY <1>1, <4>2, <4>3
    <3> QED BY <3>1, <3>2
  <2> QED BY <2>1, <2>2, <2>4 DEF CountInv
<1>8. ViewsCountViewers'
  <2>1. ASSUME NEW n \in alive' PROVE n \in alive /\ views'[n] = views[n] /\ (Counted(n))' = Counted(n)
    <3>1. \A v : v # njob[c] => (v \in viewer' <=> v \in viewer) BY <1>1
    <3>2. CASE npc'[c] = "refused" /\ viewer' = viewer
      BY <3>2, <1>1 DEF Counted, Viewers
    <3>3. CASE /\ npc'[c] = "count" /\ viewer' = viewer \cup {njob[c]}
               /\ njob[c] \notin viewer
      <4>1. ASSUME NEW v PROVE v \in (Counted(n))' <=> v \in Counted(n)
        <5>1. CASE v = njob[c]
          BY <5>1, <3>3, <1>1 DEF Counted, Viewers
        <5>2. CASE v # njob[c]
          BY <5>2, <3>1, <3>3, <1>1 DEF Counted, Viewers
        <5> QED BY <5>1, <5>2
      <4>2. (Counted(n))' = Counted(n) BY <4>1 DEF Counted
      <4> QED BY <4>2, <1>1
    <3> QED BY <1>1, <3>2, <3>3
  <2> QED BY <2>1, ViewsStay
<1> QED BY <1>4, <1>5, <1>6, <1>7, <1>8
LEMMA CountKeeps ==
    ASSUME StandInv, NEW c \in ReadCall, ReadCount(c)
    PROVE  StandInv'
<1> USE DEF StandInv
<1>0. /\ npc \in [ReadCall -> {"idle", "create", "count", "done", "refused", "dead"}]
      /\ njob \in [ReadCall -> Visits] /\ views \in [News -> Nat]
      /\ nextNews \in Int /\ alive \subseteq News /\ \A n \in alive : n < nextNews
      /\ IsFiniteSet(viewer)
  BY StandAssumption DEF StandTyped, CountInv, News
<1> DEFINE n == njob[c][1]
<1>1. /\ npc[c] = "count" /\ npc'[c] # "count"
      /\ \A d \in ReadCall : d # c => npc'[d] = npc[d]
      /\ npc' \in [ReadCall -> {"idle", "create", "count", "done", "refused", "dead"}]
      /\ UNCHANGED <<alive, viewer, popularity, nextNews, njob, scores, uncounted, taskVars>>
      /\ \A m \in News : m # n => views'[m] = views[m]
      /\ n \in alive => views'[n] = views[n] + 1
      /\ n \notin alive => views' = views
      /\ views' \in [News -> Nat]
  BY <1>0 DEF ReadCount
<1>2. \A d \in ReadCall : npc'[d] = "count" <=> d # c /\ npc[d] = "count"
  BY <1>1
<1>4. StandTyped' BY <1>1, <1>0 DEF StandTyped, taskVars
<1>5. /\ \A t \in Task : \A k \in since'[t] : k < nextNews'
      /\ PageInv' /\ EveryNewsFetched'
  BY <1>0, <1>1, TaskLeftAlone
<1>6. IdsInv'
  <2>1. n < nextNews BY <1>1 DEF IdsInv
  <2>2. \A m \in News : m >= nextNews => m # n
    BY <2>1, <1>0 DEF News
  <2>3. \A m \in News : m >= nextNews' => views'[m] = 0
    BY <2>2, <1>1 DEF IdsInv
  <2> QED BY <2>3, <1>1, <1>2, <1>5 DEF IdsInv
<1>7. CountInv' BY <1>1, <1>2 DEF CountInv
<1>8. ViewsCountViewers'
  <2>1. \A m \in alive : views[m] = Cardinality(Counted(m)) BY ViewsOfCounted
  <2>2. ASSUME NEW m \in alive PROVE views'[m] = Cardinality((Counted(m))')
    <3>1. CASE m # n
      <4>1. ASSUME NEW v PROVE v \in (Counted(m))' <=> v \in Counted(m)
        <5>1. v \in Viewers(m) => v # njob[c] BY <3>1 DEF Viewers
        <5> QED BY <5>1, <1>1, <1>2 DEF Counted, Viewers
      <4>2. (Counted(m))' = Counted(m) BY <4>1 DEF Counted
      <4> QED BY <4>2, <3>1, <2>1, <1>1, <1>0
    <3>2. CASE m = n
      <4>1. /\ njob[c] \in viewer \ uncounted
            /\ \A d \in ReadCall : npc[d] = "count" /\ njob[d] = njob[c] => d = c
        BY <3>2, <1>1 DEF CountInv
      <4>2. ASSUME NEW v PROVE v \in (Counted(m))' <=> v \in Counted(m) \cup {njob[c]}
        <5>1. CASE v = njob[c]
          BY <5>1, <4>1, <3>2, <1>1, <1>2 DEF Counted, Viewers
        <5>2. CASE v # njob[c]
          BY <5>2, <1>1, <1>2 DEF Counted, Viewers
        <5> QED BY <5>1, <5>2
      <4>3. (Counted(m))' = Counted(m) \cup {njob[c]} BY <4>2 DEF Counted
      <4>4. njob[c] \notin Counted(m) BY <1>1 DEF Counted
      <4>5. IsFiniteSet(Counted(m))
        <5>1. Counted(m) \in SUBSET viewer BY DEF Counted, Viewers
        <5> QED BY <5>1, <1>0, FS_Subset
      <4>6. Cardinality((Counted(m))') = Cardinality(Counted(m)) + 1
        BY <4>3, <4>4, <4>5, FS_AddElement
      <4> QED BY <4>6, <3>2, <2>1, <1>1
    <3> QED BY <3>1, <3>2
  <2>3. ViewsCountViewers' <=> \A m \in alive' : views'[m] = Cardinality((Counted(m))')
    BY DEF ViewsCountViewers, Counted
  <2> QED BY <2>2, <2>3, <1>1
<1> QED BY <1>4, <1>5, <1>6, <1>7, <1>8

LEMMA FailureKeeps ==
    ASSUME StandInv, NEW c \in ReadCall, CountFails(c)
    PROVE  StandInv'
<1> USE DEF StandInv
<1>0. /\ npc \in [ReadCall -> {"idle", "create", "count", "done", "refused", "dead"}]
      /\ njob \in [ReadCall -> Visits]
      /\ nextNews \in Int /\ \A n \in alive : n < nextNews
  BY StandAssumption DEF StandTyped
<1>1. /\ npc[c] = "count" /\ npc'[c] # "count"
      /\ \A d \in ReadCall : d # c => npc'[d] = npc[d]
      /\ npc' \in [ReadCall -> {"idle", "create", "count", "done", "refused", "dead"}]
      /\ uncounted' = uncounted \cup {njob[c]}
      /\ UNCHANGED <<alive, viewer, views, popularity, nextNews, njob, scores, taskVars>>
  BY <1>0 DEF CountFails
<1>2. \A d \in ReadCall : npc'[d] = "count" <=> d # c /\ npc[d] = "count"
  BY <1>1
<1>4. StandTyped' BY <1>1, <1>0 DEF StandTyped, taskVars
<1>5. /\ \A t \in Task : \A k \in since'[t] : k < nextNews'
      /\ PageInv' /\ EveryNewsFetched'
  BY <1>0, <1>1, TaskLeftAlone
<1>6. IdsInv' BY <1>1, <1>2, <1>5 DEF IdsInv
<1>7. CountInv'
  <2>1. njob[c][1] \in alive => njob[c] \in viewer BY <1>1 DEF CountInv
  <2>2. \A v \in uncounted' : v[1] \in alive' => v \in viewer' BY <1>1, <2>1 DEF CountInv
  <2>3. ASSUME NEW d \in ReadCall, npc'[d] = "count", njob'[d][1] \in alive'
        PROVE  /\ njob'[d] \in viewer' \ uncounted'
               /\ \A e \in ReadCall : npc'[e] = "count" /\ njob'[e] = njob'[d] => e = d
    <3>1. npc[d] = "count" /\ njob[d][1] \in alive /\ d # c BY <2>3, <1>1, <1>2
    <3>2. /\ njob[d] \in viewer \ uncounted
          /\ \A e \in ReadCall : npc[e] = "count" /\ njob[e] = njob[d] => e = d
      BY <3>1 DEF CountInv
    <3>3. njob[d] # njob[c] BY <3>1, <3>2, <1>1
    <3> QED BY <3>2, <3>3, <1>1, <1>2
  <2>4. IsFiniteSet(viewer') BY <1>1 DEF CountInv
  <2> QED BY <2>2, <2>3, <2>4 DEF CountInv
<1>8. ViewsCountViewers'
  <2>1. ASSUME NEW n \in alive' PROVE n \in alive /\ views'[n] = views[n] /\ (Counted(n))' = Counted(n)
    <3>1. ASSUME NEW v PROVE v \in (Counted(n))' <=> v \in Counted(n)
      <4>1. CASE v = njob[c]
        BY <4>1, <1>1 DEF Counted, Viewers
      <4>2. CASE v # njob[c]
        BY <4>2, <1>1, <1>2 DEF Counted, Viewers
      <4> QED BY <4>1, <4>2
    <3>2. (Counted(n))' = Counted(n) BY <3>1 DEF Counted
    <3> QED BY <3>2, <1>1
  <2> QED BY <2>1, ViewsStay
<1> QED BY <1>4, <1>5, <1>6, <1>7, <1>8

LEMMA AddNewsKeeps ==
    ASSUME StandInv, AddNews
    PROVE  StandInv'
<1> USE DEF StandInv
<1>0. /\ nextNews \in Int /\ LastNews \in Nat /\ nextNews \in 1 .. LastNews + 1
      /\ alive \subseteq 1 .. nextNews - 1
      /\ views \in [News -> Nat] /\ \A v \in Visits : v[1] \in News
      /\ viewer \subseteq Visits /\ uncounted \subseteq Visits /\ njob \in [ReadCall -> Visits]
      /\ \A v \in viewer : v[1] \in alive
  BY StandAssumption DEF StandTyped
<1>1. /\ nextNews <= LastNews /\ alive' = alive \cup {nextNews} /\ nextNews' = nextNews + 1
      /\ UNCHANGED <<views, popularity, scores, viewer, npc, njob, uncounted, taskVars>>
  BY DEF AddNews, readVars
<1>2. nextNews \in News /\ nextNews \notin alive
  BY <1>0, <1>1 DEF News
<1>4. StandTyped'
  <2>1. alive' \subseteq 1 .. nextNews' - 1 /\ nextNews' \in 1 .. LastNews + 1
    BY <1>0, <1>1
  <2> QED BY <1>1, <2>1 DEF StandTyped, taskVars
<1>5. /\ \A t \in Task : \A k \in since'[t] : k < nextNews'
      /\ PageInv' /\ EveryNewsFetched'
  <2>1. \A n \in alive' : n \in alive \/ n >= nextNews BY <1>0, <1>1
  <2>2. nextNews' >= nextNews /\ nextNews' \in Int BY <1>0, <1>1
  <2> QED BY <2>1, <2>2, <1>1, TaskLeftAlone
<1>6. IdsInv'
  <2>1. \A k \in Int : k < nextNews => k < nextNews' BY <1>0, <1>1
  <2>2. \A k \in Int : k >= nextNews' => k >= nextNews BY <1>0, <1>1
  <2>3. \A n \in News : n \in Int BY <1>0 DEF News
  <2>4. \A n \in News : n >= nextNews' => views'[n] = 0 BY <1>1, <2>2, <2>3 DEF IdsInv
  <2>5. \A c \in ReadCall : npc'[c] = "count" => njob'[c][1] < nextNews'
    <3>1. \A c \in ReadCall : njob[c][1] \in Int BY <1>0, <2>3
    <3> QED BY <1>1, <2>1, <3>1 DEF IdsInv
  <2>6. \A v \in uncounted' : v[1] < nextNews'
    <3>1. \A v \in uncounted : v[1] \in Int BY <1>0, <2>3
    <3> QED BY <1>1, <2>1, <3>1 DEF IdsInv
  <2> QED BY <2>4, <2>5, <2>6, <1>5 DEF IdsInv
<1>7. CountInv'
  <2>1. \A c \in ReadCall : npc[c] = "count" => njob[c][1] # nextNews
    BY <1>0 DEF IdsInv
  <2>2. \A v \in uncounted : v[1] # nextNews
    BY <1>0 DEF IdsInv
  <2> QED BY <1>1, <2>1, <2>2 DEF CountInv
<1>8. ViewsCountViewers'
  <2>1. \A n : (Counted(n))' = Counted(n) BY <1>1 DEF Counted, Viewers
  <2>2. Counted(nextNews) = {} BY <1>0, <1>2 DEF Counted, Viewers
  <2>3. views[nextNews] = 0 BY <1>0, <1>2 DEF IdsInv
  <2>4. views[nextNews] = Cardinality(Counted(nextNews)) BY <2>2, <2>3, FS_EmptySet
  <2>5. \A n \in alive : views[n] = Cardinality(Counted(n)) BY ViewsOfCounted
  <2>6. \A n \in alive' : views'[n] = Cardinality((Counted(n))')
    BY <1>1, <2>1, <2>4, <2>5
  <2>7. ViewsCountViewers' <=> \A n \in alive' : views'[n] = Cardinality((Counted(n))')
    BY DEF ViewsCountViewers, Counted
  <2> QED BY <2>6, <2>7
<1> QED BY <1>4, <1>5, <1>6, <1>7, <1>8

LEMMA DropNewsKeeps ==
    ASSUME StandInv, NEW m \in News, DropNews(m)
    PROVE  StandInv'
<1> USE DEF StandInv
<1>0. /\ nextNews \in Int /\ alive \subseteq 1 .. nextNews - 1
      /\ \A v \in viewer : v[1] \in alive
  BY StandAssumption DEF StandTyped
<1>1. /\ alive' = alive \ {m} /\ viewer' = viewer \ Viewers(m)
      /\ UNCHANGED <<views, popularity, nextNews, npc, njob, scores, uncounted, taskVars>>
  BY DEF DropNews
<1>2. \A v : v[1] # m => (v \in viewer' <=> v \in viewer)
  BY <1>1 DEF Viewers
<1>3. viewer' \subseteq viewer /\ \A v \in viewer' : v[1] \in alive'
  BY <1>0, <1>1 DEF Viewers
<1>4. StandTyped' BY <1>1, <1>3 DEF StandTyped, taskVars
<1>5. /\ \A t \in Task : \A k \in since'[t] : k < nextNews'
      /\ PageInv' /\ EveryNewsFetched'
  BY <1>0, <1>1, TaskLeftAlone
<1>6. IdsInv' BY <1>1, <1>5 DEF IdsInv
<1>7. CountInv'
  <2>1. IsFiniteSet(viewer')
    <3>1. viewer' \in SUBSET viewer BY <1>3
    <3> QED BY <3>1, FS_Subset DEF CountInv
  <2> QED BY <1>1, <1>2, <2>1 DEF CountInv
<1>8. ViewsCountViewers'
  <2>1. ASSUME NEW n \in alive' PROVE n \in alive /\ views'[n] = views[n] /\ (Counted(n))' = Counted(n)
    <3>1. n # m /\ n \in alive BY <1>1
    <3>2. (Viewers(n))' = Viewers(n) BY <3>1, <1>1 DEF Viewers
    <3>3. (Counted(n))' = Counted(n) BY <3>2, <1>1 DEF Counted
    <3> QED BY <3>1, <3>3, <1>1
  <2> QED BY <2>1, ViewsStay
<1> QED BY <1>4, <1>5, <1>6, <1>7, <1>8
(* A page takes a run on without leaving a news out.                       *)
LEMMA FetchKeeps ==
    ASSUME StandInv, NEW t \in Task, FetchPage(t)
    PROVE  StandInv'
<1> USE DEF StandInv
<1> DEFINE lost == cursor[t] # 0 /\ cursor[t] \notin alive
           page == IF lost THEN {} ELSE PageAfter(cursor[t])
<1>0. /\ nextNews \in Int /\ LastNews \in Nat /\ nextNews <= LastNews + 1
      /\ alive \subseteq 1 .. nextNews - 1 /\ alive \subseteq News
      /\ News \subseteq 0 .. LastNews
      /\ views \in [News -> Nat] /\ cursor \in [Task -> 0 .. LastNews]
      /\ tpc \in [Task -> {"idle", "page", "done", "dead"}]
      /\ since \in [Task -> SUBSET News] /\ fetched \in [Task -> SUBSET News] /\ cut \subseteq Task
  <2>1. LastNews \in Nat BY StandAssumption
  <2>2. alive \subseteq 1 .. nextNews - 1 /\ nextNews \in 1 .. LastNews + 1 BY DEF StandTyped
  <2>3. News \subseteq 0 .. LastNews BY <2>1 DEF News
  <2>4. alive \subseteq News BY <2>1, <2>2 DEF News
  <2> QED BY <2>1, <2>2, <2>3, <2>4 DEF StandTyped
<1>a. /\ tpc[t] \in {"idle", "page"}
      /\ since' = [since EXCEPT ![t] = IF tpc[t] = "idle" THEN alive ELSE @]
      /\ fetched' = [fetched EXCEPT ![t] = @ \cup page]
      /\ cut' = cut \cup {x \in {t} : lost}
      /\ scores' = scores \cup {<<n, Popularity(n, views[n])>> : n \in page}
      /\ cursor' = [cursor EXCEPT ![t] = IF page = {} THEN @ ELSE Max(page)]
      /\ tpc' = [tpc EXCEPT ![t] = IF page = {} THEN "done" ELSE "page"]
      /\ UNCHANGED <<alive, views, popularity, nextNews, viewer, npc, njob, uncounted>>
  BY DEF FetchPage, readVars
<1>b. /\ page \subseteq alive
      /\ page # {} => Max(page) \in alive
      /\ ~ lost => /\ page = {} => \A n \in alive : n <= cursor[t]
                   /\ page # {} => \A n \in alive : cursor[t] < n /\ n <= Max(page) => n \in page
  <2>1. cursor[t] \in 0 .. LastNews BY <1>0
  <2>2. /\ PageAfter(cursor[t]) \subseteq alive
        /\ PageAfter(cursor[t]) = {} => \A n \in alive : n <= cursor[t]
        /\ PageAfter(cursor[t]) # {} =>
             /\ Max(PageAfter(cursor[t])) \in alive
             /\ \A n \in alive : cursor[t] < n /\ n <= Max(PageAfter(cursor[t]))
                                 => n \in PageAfter(cursor[t])
    <3>1. \A from \in 0 .. LastNews :
            /\ PageAfter(from) \subseteq alive
            /\ PageAfter(from) = {} => \A n \in alive : n <= from
            /\ PageAfter(from) # {} =>
                 /\ Max(PageAfter(from)) \in alive
                 /\ \A n \in alive : from < n /\ n <= Max(PageAfter(from)) => n \in PageAfter(from)
      BY <1>0, PagesHaveNoGap
    <3> QED BY <2>1, <3>1
  <2>3. CASE lost BY <2>3
  <2>4. CASE ~ lost BY <2>4, <2>2
  <2> QED BY <2>3, <2>4
<1> HIDE DEF page
<1>1. \A x \in Task : x # t =>
        /\ since'[x] = since[x] /\ fetched'[x] = fetched[x]
        /\ cursor'[x] = cursor[x] /\ tpc'[x] = tpc[x] /\ (x \in cut' <=> x \in cut)
  BY <1>0, <1>a
<1>2. /\ tpc[t] = "idle" => since'[t] = alive
      /\ tpc[t] = "page" => since'[t] = since[t]
      /\ fetched'[t] = fetched[t] \cup page
      /\ lost => t \in cut'
      /\ page = {} => tpc'[t] = "done"
      /\ page # {} => tpc'[t] = "page" /\ cursor'[t] = Max(page)
  BY <1>0, <1>a
<1>3. \A n \in since'[t] \cap alive : n <= cursor[t] => n \in fetched[t]
  <2>1. CASE tpc[t] = "idle"
    <3>1. cursor[t] = 0 BY <2>1 DEF PageInv
    <3>2. \A n \in alive : ~ (n <= 0) BY <1>0
    <3> QED BY <3>1, <3>2
  <2>2. CASE tpc[t] = "page"
    BY <2>2, <1>2 DEF PageInv
  <2> QED BY <2>1, <2>2, <1>a
<1>4. StandTyped'
  <2>1. page \subseteq News /\ (page # {} => Max(page) \in 0 .. LastNews) BY <1>0, <1>b
  <2>2. cursor' \in [Task -> 0 .. LastNews] BY <2>1, <1>0, <1>a
  <2>3. since' \in [Task -> SUBSET News] BY <1>0, <1>a
  <2>4. fetched' \in [Task -> SUBSET News] BY <2>1, <1>0, <1>a
  <2>5. \A u \in scores' : u[1] \in News /\ u[2] \in Int
    <3> SUFFICES ASSUME NEW u \in scores' PROVE u[1] \in News /\ u[2] \in Int OBVIOUS
    <3>1. CASE u \in scores BY <3>1 DEF StandTyped
    <3>2. CASE u \in {<<n, Popularity(n, views[n])>> : n \in page}
      <4>1. PICK n \in page : u = <<n, Popularity(n, views[n])>> BY <3>2
      <4>2. n \in News /\ views[n] \in Nat BY <2>1, <1>0
      <4>3. Popularity(n, views[n]) \in Int
        <5>1. \A s \in Nat : Popularity(n, s) \in Int BY <4>2, PopularityType
        <5> QED BY <4>2, <5>1
      <4> QED BY <4>1, <4>2, <4>3
    <3> QED BY <3>1, <3>2, <1>a
  <2>6. tpc' \in [Task -> {"idle", "page", "done", "dead"}] /\ cut' \subseteq Task BY <1>0, <1>a
  <2> QED BY <2>2, <2>3, <2>4, <2>5, <2>6, <1>a DEF StandTyped
<1>5. IdsInv'
  <2>1. \A n \in alive : n < nextNews BY <1>0
  <2>2. \A x \in Task : \A n \in since[x] : n < nextNews BY DEF IdsInv
  <2>3. \A x \in Task : \A n \in since'[x] : n < nextNews
    <3> TAKE x \in Task
    <3>1. CASE x = t BY <3>1, <2>1, <2>2, <1>2, <1>a
    <3>2. CASE x # t BY <3>2, <2>2, <1>1
    <3> QED BY <3>1, <3>2
  <2> QED BY <2>3, <1>a DEF IdsInv
<1>6. CountInv' BY <1>a DEF CountInv
<1>7. PageInv'
  <2> SUFFICES ASSUME NEW x \in Task
               PROVE  /\ tpc'[x] = "idle" => cursor'[x] = 0
                      /\ tpc'[x] = "page" => \A n \in since'[x] \cap alive :
                                                n <= cursor'[x] => n \in fetched'[x]
    BY <1>a DEF PageInv
  <2>1. CASE x # t BY <2>1, <1>1 DEF PageInv
  <2>2. CASE x = t
    <3>1. ASSUME tpc'[t] = "page", NEW n \in since'[t] \cap alive, n <= cursor'[t]
          PROVE  n \in fetched'[t]
      <4>1. page # {} /\ ~ lost /\ n <= Max(page) BY <3>1, <1>2 DEF page
      <4>2. CASE n <= cursor[t] BY <4>2, <3>1, <1>3, <1>2
      <4>3. CASE cursor[t] < n BY <4>1, <4>3, <3>1, <1>b, <1>2
      <4>4. n \in Int /\ cursor[t] \in Int
        <5>1. n \in 0 .. LastNews /\ cursor[t] \in 0 .. LastNews BY <3>1, <1>0
        <5> QED BY <5>1, <1>0
      <4> QED BY <4>2, <4>3, <4>4
    <3>2. tpc'[t] # "idle" BY <1>2
    <3> QED BY <2>2, <3>1, <3>2
  <2> QED BY <2>1, <2>2
<1>8. EveryNewsFetched'
  <2> SUFFICES ASSUME NEW x \in Task \ cut', tpc'[x] = "done"
               PROVE  since'[x] \cap alive \subseteq fetched'[x]
    BY <1>a DEF EveryNewsFetched
  <2>1. CASE x # t BY <2>1, <1>1 DEF EveryNewsFetched
  <2>2. CASE x = t
    <3>1. ~ lost /\ page = {} BY <2>2, <1>2
    <3>2. \A n \in alive : n <= cursor[t] BY <3>1, <1>b
    <3> QED BY <2>2, <3>2, <1>3, <1>2
  <2> QED BY <2>1, <2>2
<1>9. ViewsCountViewers'
  <2>1. ASSUME NEW n \in alive' PROVE n \in alive /\ views'[n] = views[n] /\ (Counted(n))' = Counted(n)
    BY <1>a DEF Counted, Viewers
  <2> QED BY <2>1, ViewsStay
<1> QED BY <1>4, <1>5, <1>6, <1>7, <1>8, <1>9

LEMMA ScoreKeeps ==
    ASSUME StandInv, NEW u, u \in scores, ScoreLands(u) \/ ScoreFails(u)
    PROVE  StandInv'
<1> USE DEF StandInv
<1>0. nextNews \in Int /\ popularity \in [News -> Int] /\ u[1] \in News /\ u[2] \in Int
  BY StandAssumption DEF StandTyped
<1>1. /\ UNCHANGED <<alive, views, nextNews, viewer, npc, njob, uncounted, taskVars>>
      /\ scores' = scores \ {u}
      /\ popularity' \in [News -> Int]
  BY <1>0 DEF ScoreLands, ScoreFails, readVars
<1>4. StandTyped' BY <1>1 DEF StandTyped, taskVars
<1>5. /\ \A t \in Task : \A k \in since'[t] : k < nextNews'
      /\ PageInv' /\ EveryNewsFetched'
  BY <1>0, <1>1, TaskLeftAlone
<1>6. IdsInv' BY <1>1, <1>5 DEF IdsInv
<1>7. CountInv' BY <1>1 DEF CountInv
<1>8. ViewsCountViewers'
  <2>1. ASSUME NEW n \in alive' PROVE n \in alive /\ views'[n] = views[n] /\ (Counted(n))' = Counted(n)
    BY <1>1 DEF Counted, Viewers
  <2> QED BY <2>1, ViewsStay
<1> QED BY <1>4, <1>5, <1>6, <1>7, <1>8

LEMMA StandCrashKeeps ==
    ASSUME StandInv, StandCrash
    PROVE  StandInv'
<1> USE DEF StandInv
<1>0. /\ npc \in [ReadCall -> {"idle", "create", "count", "done", "refused", "dead"}]
      /\ njob \in [ReadCall -> Visits]
      /\ tpc \in [Task -> {"idle", "page", "done", "dead"}]
  BY DEF StandTyped
<1> DEFINE stopped == {njob[c] : c \in {d \in ReadCall : npc[d] = "count"}}
<1>1. /\ npc' \in [ReadCall -> {"idle", "create", "count", "done", "refused", "dead"}]
      /\ \A c \in ReadCall : npc'[c] # "count"
      /\ tpc' \in [Task -> {"idle", "page", "done", "dead"}]
      /\ \A t \in Task : tpc'[t] # "page" /\ (tpc'[t] = "idle" => tpc[t] = "idle")
                         /\ (tpc'[t] = "done" => tpc[t] = "done")
      /\ scores' = {} /\ uncounted' = uncounted \cup stopped
      /\ UNCHANGED <<alive, viewer, views, popularity, nextNews, njob, cursor, since, fetched, cut>>
  BY <1>0 DEF StandCrash, Reading
<1>2. \A v : v \in stopped <=> \E c \in ReadCall : npc[c] = "count" /\ njob[c] = v
  OBVIOUS
<1> HIDE DEF stopped
<1>3. stopped \subseteq Visits BY <1>0, <1>2
<1>4. StandTyped' BY <1>1, <1>3 DEF StandTyped
<1>5. PageInv' /\ EveryNewsFetched'
  BY <1>1 DEF PageInv, EveryNewsFetched
<1>6. IdsInv'
  <2>1. \A v \in uncounted' : v[1] < nextNews BY <1>1, <1>2 DEF IdsInv
  <2> QED BY <2>1, <1>1 DEF IdsInv
<1>7. CountInv'
  <2>1. \A v \in uncounted' : v[1] \in alive => v \in viewer BY <1>1, <1>2 DEF CountInv
  <2> QED BY <2>1, <1>1 DEF CountInv
<1>8. ViewsCountViewers'
  <2>1. ASSUME NEW n \in alive' PROVE n \in alive /\ views'[n] = views[n] /\ (Counted(n))' = Counted(n)
    <3>1. (Counted(n))' = Counted(n)
      <4>1. ASSUME NEW v PROVE v \in (Counted(n))' <=> v \in Counted(n)
        <5>1. v \in (Counted(n))' <=> v \in Viewers(n) /\ v \notin uncounted /\ v \notin stopped
          BY <1>1 DEF Counted, Viewers
        <5>2. v \in Counted(n) <=> v \in Viewers(n) /\ v \notin uncounted /\ v \notin stopped
          BY <1>2 DEF Counted
        <5> QED BY <5>1, <5>2
      <4> QED BY <4>1 DEF Counted
    <3> QED BY <1>1, <3>1
  <2> QED BY <2>1, ViewsStay
<1> QED BY <1>4, <1>5, <1>6, <1>7, <1>8

LEMMA StandUntouched ==
    ASSUME StandInv, UNCHANGED standVars
    PROVE  StandInv'
<1> USE DEF StandInv
<1>1. UNCHANGED <<alive, viewer, views, popularity, nextNews, npc, njob, tpc, cursor, scores,
                  uncounted, since, fetched, cut>>
  BY DEF standVars
<1>4. StandTyped' BY <1>1 DEF StandTyped
<1>6. IdsInv' BY <1>1 DEF IdsInv
<1>7. CountInv' BY <1>1 DEF CountInv
<1>8. PageInv' /\ EveryNewsFetched' BY <1>1 DEF PageInv, EveryNewsFetched
<1>9. ViewsCountViewers'
  <2>1. ASSUME NEW n \in alive' PROVE n \in alive /\ views'[n] = views[n] /\ (Counted(n))' = Counted(n)
    BY <1>1 DEF Counted, Viewers
  <2> QED BY <2>1, ViewsStay
<1> QED BY <1>4, <1>6, <1>7, <1>8, <1>9

-----------------------------------------------------------------------------
LEMMA StandStart == StandInit => StandInv
<1> SUFFICES ASSUME StandInit PROVE StandInv OBVIOUS
<1>0. LastNews \in Nat /\ LastNews # 0 /\ Visits # {} /\ \A v \in Visits : v[1] \in News
  BY StandAssumption
<1>1. /\ nextNews = LastNews /\ alive = 1 .. LastNews - 1 /\ viewer = {}
      /\ views = [n \in News |-> 0] /\ popularity = [n \in News |-> 0]
      /\ npc = [c \in ReadCall |-> "idle"]
      /\ njob \in [ReadCall -> Visits]
      /\ tpc = [t \in Task |-> "idle"] /\ cursor = [t \in Task |-> 0] /\ scores = {}
      /\ uncounted = {} /\ cut = {}
      /\ since = [t \in Task |-> {}] /\ fetched = [t \in Task |-> {}]
  BY <1>0 DEF StandInit
<1>2. StandTyped BY <1>0, <1>1 DEF StandTyped
<1>3. IdsInv BY <1>0, <1>1 DEF IdsInv
<1>4. CountInv BY <1>1, FS_EmptySet DEF CountInv
<1>5. PageInv /\ EveryNewsFetched BY <1>1 DEF PageInv, EveryNewsFetched
<1>6. ViewsCountViewers
  <2>1. ASSUME NEW n \in alive PROVE views[n] = Cardinality(Counted(n))
    <3>1. Counted(n) = {} BY <1>1 DEF Counted, Viewers
    <3>2. n \in News BY <1>0, <1>1 DEF News
    <3> QED BY <3>1, <3>2, <1>1, FS_EmptySet
  <2> QED BY <2>1, ViewsOfCounted
<1> QED BY <1>2, <1>3, <1>4, <1>5, <1>6 DEF StandInv

LEMMA StandStep == StandInv /\ [StandNext]_standVars => StandInv'
<1> SUFFICES ASSUME StandInv, [StandNext]_standVars PROVE StandInv' OBVIOUS
<1>1. ASSUME NEW c \in ReadCall, NEW v \in Visits, ReadFind(c, v) PROVE StandInv'
  BY <1>1, FindKeeps
<1>2. ASSUME NEW c \in ReadCall, ReadCreate(c) \/ ReadCount(c) \/ CountFails(c) PROVE StandInv'
  BY <1>2, ViewerKeeps, CountKeeps, FailureKeeps
<1>3. CASE AddNews BY <1>3, AddNewsKeeps
<1>4. ASSUME NEW n \in News, DropNews(n) PROVE StandInv' BY <1>4, DropNewsKeeps
<1>5. ASSUME NEW t \in Task, FetchPage(t) PROVE StandInv' BY <1>5, FetchKeeps
<1>6. ASSUME NEW u, u \in scores, ScoreLands(u) \/ ScoreFails(u) PROVE StandInv'
  BY <1>6, ScoreKeeps
<1>7. CASE StandCrash BY <1>7, StandCrashKeeps
<1>8. CASE UNCHANGED standVars BY <1>8, StandUntouched
<1> QED BY <1>1, <1>2, <1>3, <1>4, <1>5, <1>6, <1>7, <1>8 DEF StandNext

LEMMA StandAlways == StandSpec => []StandInv
BY StandStart, StandStep, PTL DEF StandSpec

(* The tables of the news and their readers, the calls and the runs of the *)
(* popularity task keep their types.                                       *)
THEOREM StandTypeCorrect == StandSpec => []StandTyped
<1>1. StandInv => StandTyped BY DEF StandInv
<1> QED BY <1>1, StandAlways, PTL

(* The views of a news are those of its viewers whose count is neither     *)
(* under way nor lost between the two statements of readNews.              *)
THEOREM ViewsAreOfViewers == StandSpec => []ViewsCountViewers
<1>1. StandInv => ViewsCountViewers BY DEF StandInv
<1> QED BY <1>1, StandAlways, PTL

(* Page by page, a run of the task that is not cut short fetches every     *)
(* news that is there from its beginning to its end.                       *)
THEOREM PagesReachEveryNews == StandSpec => []EveryNewsFetched
<1>1. StandInv => EveryNewsFetched BY DEF StandInv
<1> QED BY <1>1, StandAlways, PTL

-----------------------------------------------------------------------------
(***************************************************************************)
(* Requests.                                                               *)
(***************************************************************************)

(* A list of statements, and the fields it sets.                           *)
Items(s) == {s[k] : k \in DOMAIN s}
IsList(s) == s \in Seq(Items(s))
Fields(s) == {x.field : x \in Items(s)}
Apart(s, t) == \A x \in Items(s), y \in Items(t) : x.field # y.field

LEMMA ConcatConditions == ASSUME NEW s, NEW t, IsList(s), IsList(t), Apart(s, t)
  PROVE IsList(s \o t) /\ Items(s \o t) = Items(s) \cup Items(t) /\ Conditions(s \o t) = Conditions(s) \cup Conditions(t)
<1>1. /\ s \o t \in Seq(Items(s) \cup Items(t)) /\ DOMAIN s = 1 .. Len(s) /\ DOMAIN t = 1 .. Len(t) /\ Len(s) \in Nat /\ Len(t) \in Nat
      /\ Len(s \o t) = Len(s) + Len(t) /\ DOMAIN (s \o t) = 1 .. Len(s) + Len(t)
  BY DEF IsList
<1>2. \A i \in 1 .. Len(s) : (s \o t)[i] = s[i]
  BY DEF IsList
<1>3. \A i \in 1 .. Len(t) : (s \o t)[Len(s) + i] = t[i]
  BY DEF IsList
<1> DEFINE st == s \o t
<1>4. ASSUME NEW i \in 1 .. Len(s)
      PROVE  (\A j \in i + 1 .. Len(s) + Len(t) : st[j].runs => st[j].field # st[i].field)
             <=> \A j \in i + 1 .. Len(s) : s[j].runs => s[j].field # s[i].field
  <2>1. ASSUME NEW k \in 1 .. Len(t) PROVE t[k].field # s[i].field
    BY <1>1 DEF Apart, Items
  <2>2. ASSUME NEW j \in Len(s) + 1 .. Len(s) + Len(t) PROVE st[j].field # s[i].field
    <3>1. j - Len(s) \in 1 .. Len(t) /\ Len(s) + (j - Len(s)) = j
      OBVIOUS
    <3>2. st[j] = t[j - Len(s)]
      BY <1>3, <3>1
    <3>3. QED
      BY <2>1, <3>1, <3>2
  <2>3. QED
    BY <1>2, <2>2
<1>5. ASSUME NEW i \in 1 .. Len(t)
      PROVE  (\A j \in Len(s) + i + 1 .. Len(s) + Len(t) : st[j].runs => st[j].field # st[Len(s) + i].field)
             <=> \A j \in i + 1 .. Len(t) : t[j].runs => t[j].field # t[i].field
  <2>1. ASSUME NEW j \in Len(s) + i + 1 .. Len(s) + Len(t)
        PROVE  j - Len(s) \in i + 1 .. Len(t) /\ st[j] = t[j - Len(s)]
    <3>1. j - Len(s) \in 1 .. Len(t) /\ Len(s) + (j - Len(s)) = j /\ j - Len(s) \in i + 1 .. Len(t)
      OBVIOUS
    <3>2. QED
      BY <1>3, <3>1
  <2>2. ASSUME NEW j \in i + 1 .. Len(t)
        PROVE  Len(s) + j \in Len(s) + i + 1 .. Len(s) + Len(t) /\ st[Len(s) + j] = t[j]
    BY <1>3
  <2>3. st[Len(s) + i] = t[i]
    BY <1>3
  <2>4. ASSUME \A j \in i + 1 .. Len(t) : t[j].runs => t[j].field # t[i].field,
               NEW j \in Len(s) + i + 1 .. Len(s) + Len(t), st[j].runs
        PROVE  st[j].field # st[Len(s) + i].field
    BY <2>1, <2>3, <2>4
  <2>5. ASSUME \A j \in Len(s) + i + 1 .. Len(s) + Len(t) : st[j].runs => st[j].field # st[Len(s) + i].field,
               NEW j \in i + 1 .. Len(t), t[j].runs
        PROVE  t[j].field # t[i].field
    BY <2>2, <2>3, <2>5
  <2>6. QED
    BY <2>4, <2>5
<1> HIDE DEF st
<1>6. ASSUME NEW c PROVE c \in Conditions(st) <=> c \in Conditions(s) \/ c \in Conditions(t)
  <2>1. c \in Conditions(s) <=> \E i \in 1 .. Len(s) : /\ s[i].condition = c /\ s[i].runs
             /\ \A j \in i + 1 .. Len(s) : s[j].runs => s[j].field # s[i].field
    BY <1>1 DEF Conditions
  <2>2. c \in Conditions(t) <=> \E i \in 1 .. Len(t) : /\ t[i].condition = c /\ t[i].runs
             /\ \A j \in i + 1 .. Len(t) : t[j].runs => t[j].field # t[i].field
    BY <1>1 DEF Conditions
  <2>3. c \in Conditions(st) <=> \E i \in 1 .. Len(s) + Len(t) : /\ st[i].condition = c /\ st[i].runs
             /\ \A j \in i + 1 .. Len(s) + Len(t) : st[j].runs => st[j].field # st[i].field
    BY <1>1 DEF Conditions, st
  <2>4. \A i \in 1 .. Len(s) + Len(t) : i \in 1 .. Len(s) \/ \E k \in 1 .. Len(t) : i = Len(s) + k
    <3>1. ASSUME NEW i \in 1 .. Len(s) + Len(t), i \notin 1 .. Len(s) PROVE i - Len(s) \in 1 .. Len(t) /\ i = Len(s) + (i - Len(s))
      BY <3>1
    <3>2. QED
      BY <3>1
  <2>5. \A i \in 1 .. Len(s) : i \in 1 .. Len(s) + Len(t) /\ st[i] = s[i]
    BY <1>2 DEF st
  <2>6. \A i \in 1 .. Len(t) : Len(s) + i \in 1 .. Len(s) + Len(t) /\ st[Len(s) + i] = t[i]
    BY <1>3 DEF st
  <2>7. ASSUME c \in Conditions(st) PROVE c \in Conditions(s) \/ c \in Conditions(t)
    <3>1. PICK i \in 1 .. Len(s) + Len(t) : /\ st[i].condition = c /\ st[i].runs
             /\ \A j \in i + 1 .. Len(s) + Len(t) : st[j].runs => st[j].field # st[i].field
      BY <2>3, <2>7
    <3>2. CASE i \in 1 .. Len(s)
      BY <2>1, <2>5, <3>1, <3>2, <1>4
    <3>3. CASE i \notin 1 .. Len(s)
      <4>1. PICK k \in 1 .. Len(t) : i = Len(s) + k
        BY <2>4, <3>3
      <4>2. t[k].condition = c /\ t[k].runs
        BY <2>6, <3>1, <4>1
      <4>3. \A j \in k + 1 .. Len(t) : t[j].runs => t[j].field # t[k].field
        BY <3>1, <4>1, <1>5
      <4>4. QED
        BY <2>2, <4>2, <4>3
    <3>4. QED
      BY <3>2, <3>3
  <2>8. ASSUME c \in Conditions(s) PROVE c \in Conditions(st)
    BY <2>1, <2>3, <2>5, <2>8, <1>4
  <2>9. ASSUME c \in Conditions(t) PROVE c \in Conditions(st)
    BY <2>2, <2>3, <2>6, <2>9, <1>5
  <2>10. QED
    BY <2>7, <2>8, <2>9
<1>7. IsList(st)
  <2>1. st \in Seq(Items(s) \cup Items(t))
    BY <1>1 DEF st
  <2>2. \A k \in 1 .. Len(st) : st[k] \in Items(st)
    BY <2>1 DEF Items
  <2>3. QED
    BY <2>1, <2>2, SeqDef DEF IsList
<1>8. Items(st) = Items(s) \cup Items(t)
  <2>1. ASSUME NEW x \in Items(st) PROVE x \in Items(s) \cup Items(t)
    <3>1. PICK i \in 1 .. Len(s) + Len(t) : x = st[i]
      BY <1>1 DEF Items, st
    <3>2. st \in Seq(Items(s) \cup Items(t)) /\ i \in 1 .. Len(st)
      BY <1>1, <3>1 DEF st
    <3>3. QED
      BY <3>1, <3>2
  <2>2. ASSUME NEW x \in Items(s) PROVE x \in Items(st)
    BY <1>1, <1>2 DEF Items, st
  <2>3. ASSUME NEW x \in Items(t) PROVE x \in Items(st)
    <3>1. PICK i \in 1 .. Len(t) : x = t[i]
      BY <1>1 DEF Items
    <3>2. Len(s) + i \in 1 .. Len(s) + Len(t) /\ st[Len(s) + i] = x
      BY <1>1, <1>3, <3>1 DEF st
    <3>3. QED
      BY <1>1, <3>2 DEF Items, st
  <2>4. QED
    BY <2>1, <2>2, <2>3
<1>9. QED
  BY <1>6, <1>7, <1>8 DEF st

LEMMA Of1 ==
    ASSUME NEW a
    PROVE  /\ IsList(<<a>>) /\ Items(<<a>>) = {a}
           /\ \A z : z \in Conditions(<<a>>) <=>
               \/ z = a.condition /\ a.runs
<1>1. IsList(<<a>>)
    BY DEF IsList, Items
<1>2. Items(<<a>>) = {a}
    BY DEF Items
<1>3. ASSUME NEW z
      PROVE  z \in Conditions(<<a>>) <=>
               \/ z = a.condition /\ a.runs
    BY DEF Conditions
<1>4. QED
    BY <1>1, <1>2, <1>3

LEMMA Of2 ==
    ASSUME NEW a, NEW b
    PROVE  /\ IsList(<<a, b>>) /\ Items(<<a, b>>) = {a, b}
           /\ \A z : z \in Conditions(<<a, b>>) <=>
               \/ z = a.condition /\ a.runs /\ (b.runs => b.field # a.field)
               \/ z = b.condition /\ b.runs
<1>1. IsList(<<a, b>>)
    BY DEF IsList, Items
<1>2. Items(<<a, b>>) = {a, b}
    BY DEF Items
<1>3. ASSUME NEW z
      PROVE  z \in Conditions(<<a, b>>) <=>
               \/ z = a.condition /\ a.runs /\ (b.runs => b.field # a.field)
               \/ z = b.condition /\ b.runs
    BY DEF Conditions
<1>4. QED
    BY <1>1, <1>2, <1>3

LEMMA Of3 ==
    ASSUME NEW a, NEW b, NEW c
    PROVE  /\ IsList(<<a, b, c>>) /\ Items(<<a, b, c>>) = {a, b, c}
           /\ \A z : z \in Conditions(<<a, b, c>>) <=>
               \/ z = a.condition /\ a.runs /\ (b.runs => b.field # a.field) /\ (c.runs => c.field # a.field)
               \/ z = b.condition /\ b.runs /\ (c.runs => c.field # b.field)
               \/ z = c.condition /\ c.runs
<1>1. IsList(<<a, b, c>>)
    BY DEF IsList, Items
<1>2. Items(<<a, b, c>>) = {a, b, c}
    BY DEF Items
<1>3. ASSUME NEW z
      PROVE  z \in Conditions(<<a, b, c>>) <=>
               \/ z = a.condition /\ a.runs /\ (b.runs => b.field # a.field) /\ (c.runs => c.field # a.field)
               \/ z = b.condition /\ b.runs /\ (c.runs => c.field # b.field)
               \/ z = c.condition /\ c.runs
    BY DEF Conditions
<1>4. QED
    BY <1>1, <1>2, <1>3

LEMMA Of4 ==
    ASSUME NEW a, NEW b, NEW c, NEW d
    PROVE  /\ IsList(<<a, b, c, d>>) /\ Items(<<a, b, c, d>>) = {a, b, c, d}
           /\ \A z : z \in Conditions(<<a, b, c, d>>) <=>
               \/ z = a.condition /\ a.runs /\ (b.runs => b.field # a.field) /\ (c.runs => c.field # a.field) /\ (d.runs => d.field # a.field)
               \/ z = b.condition /\ b.runs /\ (c.runs => c.field # b.field) /\ (d.runs => d.field # b.field)
               \/ z = c.condition /\ c.runs /\ (d.runs => d.field # c.field)
               \/ z = d.condition /\ d.runs
<1>1. IsList(<<a, b, c, d>>)
    BY DEF IsList, Items
<1>2. Items(<<a, b, c, d>>) = {a, b, c, d}
    BY DEF Items
<1>3. ASSUME NEW z
      PROVE  z \in Conditions(<<a, b, c, d>>) <=>
               \/ z = a.condition /\ a.runs /\ (b.runs => b.field # a.field) /\ (c.runs => c.field # a.field) /\ (d.runs => d.field # a.field)
               \/ z = b.condition /\ b.runs /\ (c.runs => c.field # b.field) /\ (d.runs => d.field # b.field)
               \/ z = c.condition /\ c.runs /\ (d.runs => d.field # c.field)
               \/ z = d.condition /\ d.runs
    BY DEF Conditions
<1>4. QED
    BY <1>1, <1>2, <1>3

LEMMA Of5 ==
    ASSUME NEW a, NEW b, NEW c, NEW d, NEW e
    PROVE  /\ IsList(<<a, b, c, d, e>>) /\ Items(<<a, b, c, d, e>>) = {a, b, c, d, e}
           /\ \A z : z \in Conditions(<<a, b, c, d, e>>) <=>
               \/ z = a.condition /\ a.runs /\ (b.runs => b.field # a.field) /\ (c.runs => c.field # a.field) /\ (d.runs => d.field # a.field) /\ (e.runs => e.field # a.field)
               \/ z = b.condition /\ b.runs /\ (c.runs => c.field # b.field) /\ (d.runs => d.field # b.field) /\ (e.runs => e.field # b.field)
               \/ z = c.condition /\ c.runs /\ (d.runs => d.field # c.field) /\ (e.runs => e.field # c.field)
               \/ z = d.condition /\ d.runs /\ (e.runs => e.field # d.field)
               \/ z = e.condition /\ e.runs
<1>1. IsList(<<a, b, c, d, e>>)
    BY DEF IsList, Items
<1>2. Items(<<a, b, c, d, e>>) = {a, b, c, d, e}
    BY DEF Items
<1>3. ASSUME NEW z
      PROVE  z \in Conditions(<<a, b, c, d, e>>) <=>
               \/ z = a.condition /\ a.runs /\ (b.runs => b.field # a.field) /\ (c.runs => c.field # a.field) /\ (d.runs => d.field # a.field) /\ (e.runs => e.field # a.field)
               \/ z = b.condition /\ b.runs /\ (c.runs => c.field # b.field) /\ (d.runs => d.field # b.field) /\ (e.runs => e.field # b.field)
               \/ z = c.condition /\ c.runs /\ (d.runs => d.field # c.field) /\ (e.runs => e.field # c.field)
               \/ z = d.condition /\ d.runs /\ (e.runs => e.field # d.field)
               \/ z = e.condition /\ e.runs
    BY DEF Conditions
<1>4. QED
    BY <1>1, <1>2, <1>3

LEMMA Of6 ==
    ASSUME NEW a, NEW b, NEW c, NEW d, NEW e, NEW f
    PROVE  /\ IsList(<<a, b, c, d, e, f>>) /\ Items(<<a, b, c, d, e, f>>) = {a, b, c, d, e, f}
           /\ \A z : z \in Conditions(<<a, b, c, d, e, f>>) <=>
               \/ z = a.condition /\ a.runs /\ (b.runs => b.field # a.field) /\ (c.runs => c.field # a.field) /\ (d.runs => d.field # a.field) /\ (e.runs => e.field # a.field) /\ (f.runs => f.field # a.field)
               \/ z = b.condition /\ b.runs /\ (c.runs => c.field # b.field) /\ (d.runs => d.field # b.field) /\ (e.runs => e.field # b.field) /\ (f.runs => f.field # b.field)
               \/ z = c.condition /\ c.runs /\ (d.runs => d.field # c.field) /\ (e.runs => e.field # c.field) /\ (f.runs => f.field # c.field)
               \/ z = d.condition /\ d.runs /\ (e.runs => e.field # d.field) /\ (f.runs => f.field # d.field)
               \/ z = e.condition /\ e.runs /\ (f.runs => f.field # e.field)
               \/ z = f.condition /\ f.runs
<1>1. IsList(<<a, b, c, d, e, f>>)
    BY DEF IsList, Items
<1>2. Items(<<a, b, c, d, e, f>>) = {a, b, c, d, e, f}
    BY DEF Items
<1>3. ASSUME NEW z
      PROVE  z \in Conditions(<<a, b, c, d, e, f>>) <=>
               \/ z = a.condition /\ a.runs /\ (b.runs => b.field # a.field) /\ (c.runs => c.field # a.field) /\ (d.runs => d.field # a.field) /\ (e.runs => e.field # a.field) /\ (f.runs => f.field # a.field)
               \/ z = b.condition /\ b.runs /\ (c.runs => c.field # b.field) /\ (d.runs => d.field # b.field) /\ (e.runs => e.field # b.field) /\ (f.runs => f.field # b.field)
               \/ z = c.condition /\ c.runs /\ (d.runs => d.field # c.field) /\ (e.runs => e.field # c.field) /\ (f.runs => f.field # c.field)
               \/ z = d.condition /\ d.runs /\ (e.runs => e.field # d.field) /\ (f.runs => f.field # d.field)
               \/ z = e.condition /\ e.runs /\ (f.runs => f.field # e.field)
               \/ z = f.condition /\ f.runs
    BY DEF Conditions
<1>4. QED
    BY <1>1, <1>2, <1>3

LEMMA Of8 ==
    ASSUME NEW a, NEW b, NEW c, NEW d, NEW e, NEW f, NEW g, NEW h
    PROVE  /\ IsList(<<a, b, c, d, e, f, g, h>>) /\ Items(<<a, b, c, d, e, f, g, h>>) = {a, b, c, d, e, f, g, h}
           /\ \A z : z \in Conditions(<<a, b, c, d, e, f, g, h>>) <=>
               \/ z = a.condition /\ a.runs /\ (b.runs => b.field # a.field) /\ (c.runs => c.field # a.field) /\ (d.runs => d.field # a.field) /\ (e.runs => e.field # a.field) /\ (f.runs => f.field # a.field) /\ (g.runs => g.field # a.field) /\ (h.runs => h.field # a.field)
               \/ z = b.condition /\ b.runs /\ (c.runs => c.field # b.field) /\ (d.runs => d.field # b.field) /\ (e.runs => e.field # b.field) /\ (f.runs => f.field # b.field) /\ (g.runs => g.field # b.field) /\ (h.runs => h.field # b.field)
               \/ z = c.condition /\ c.runs /\ (d.runs => d.field # c.field) /\ (e.runs => e.field # c.field) /\ (f.runs => f.field # c.field) /\ (g.runs => g.field # c.field) /\ (h.runs => h.field # c.field)
               \/ z = d.condition /\ d.runs /\ (e.runs => e.field # d.field) /\ (f.runs => f.field # d.field) /\ (g.runs => g.field # d.field) /\ (h.runs => h.field # d.field)
               \/ z = e.condition /\ e.runs /\ (f.runs => f.field # e.field) /\ (g.runs => g.field # e.field) /\ (h.runs => h.field # e.field)
               \/ z = f.condition /\ f.runs /\ (g.runs => g.field # f.field) /\ (h.runs => h.field # f.field)
               \/ z = g.condition /\ g.runs /\ (h.runs => h.field # g.field)
               \/ z = h.condition /\ h.runs
<1>1. IsList(<<a, b, c, d, e, f, g, h>>)
    BY DEF IsList, Items
<1>2. Items(<<a, b, c, d, e, f, g, h>>) = {a, b, c, d, e, f, g, h}
    BY DEF Items
<1>3. ASSUME NEW z
      PROVE  z \in Conditions(<<a, b, c, d, e, f, g, h>>) <=>
               \/ z = a.condition /\ a.runs /\ (b.runs => b.field # a.field) /\ (c.runs => c.field # a.field) /\ (d.runs => d.field # a.field) /\ (e.runs => e.field # a.field) /\ (f.runs => f.field # a.field) /\ (g.runs => g.field # a.field) /\ (h.runs => h.field # a.field)
               \/ z = b.condition /\ b.runs /\ (c.runs => c.field # b.field) /\ (d.runs => d.field # b.field) /\ (e.runs => e.field # b.field) /\ (f.runs => f.field # b.field) /\ (g.runs => g.field # b.field) /\ (h.runs => h.field # b.field)
               \/ z = c.condition /\ c.runs /\ (d.runs => d.field # c.field) /\ (e.runs => e.field # c.field) /\ (f.runs => f.field # c.field) /\ (g.runs => g.field # c.field) /\ (h.runs => h.field # c.field)
               \/ z = d.condition /\ d.runs /\ (e.runs => e.field # d.field) /\ (f.runs => f.field # d.field) /\ (g.runs => g.field # d.field) /\ (h.runs => h.field # d.field)
               \/ z = e.condition /\ e.runs /\ (f.runs => f.field # e.field) /\ (g.runs => g.field # e.field) /\ (h.runs => h.field # e.field)
               \/ z = f.condition /\ f.runs /\ (g.runs => g.field # f.field) /\ (h.runs => h.field # f.field)
               \/ z = g.condition /\ g.runs /\ (h.runs => h.field # g.field)
               \/ z = h.condition /\ h.runs
    BY DEF Conditions
<1>4. QED
    BY <1>1, <1>2, <1>3

LEMMA Of9 ==
    ASSUME NEW a, NEW b, NEW c, NEW d, NEW e, NEW f, NEW g, NEW h, NEW i
    PROVE  /\ IsList(<<a, b, c, d, e, f, g, h, i>>) /\ Items(<<a, b, c, d, e, f, g, h, i>>) = {a, b, c, d, e, f, g, h, i}
           /\ \A z : z \in Conditions(<<a, b, c, d, e, f, g, h, i>>) <=>
               \/ z = a.condition /\ a.runs /\ (b.runs => b.field # a.field) /\ (c.runs => c.field # a.field) /\ (d.runs => d.field # a.field) /\ (e.runs => e.field # a.field) /\ (f.runs => f.field # a.field) /\ (g.runs => g.field # a.field) /\ (h.runs => h.field # a.field) /\ (i.runs => i.field # a.field)
               \/ z = b.condition /\ b.runs /\ (c.runs => c.field # b.field) /\ (d.runs => d.field # b.field) /\ (e.runs => e.field # b.field) /\ (f.runs => f.field # b.field) /\ (g.runs => g.field # b.field) /\ (h.runs => h.field # b.field) /\ (i.runs => i.field # b.field)
               \/ z = c.condition /\ c.runs /\ (d.runs => d.field # c.field) /\ (e.runs => e.field # c.field) /\ (f.runs => f.field # c.field) /\ (g.runs => g.field # c.field) /\ (h.runs => h.field # c.field) /\ (i.runs => i.field # c.field)
               \/ z = d.condition /\ d.runs /\ (e.runs => e.field # d.field) /\ (f.runs => f.field # d.field) /\ (g.runs => g.field # d.field) /\ (h.runs => h.field # d.field) /\ (i.runs => i.field # d.field)
               \/ z = e.condition /\ e.runs /\ (f.runs => f.field # e.field) /\ (g.runs => g.field # e.field) /\ (h.runs => h.field # e.field) /\ (i.runs => i.field # e.field)
               \/ z = f.condition /\ f.runs /\ (g.runs => g.field # f.field) /\ (h.runs => h.field # f.field) /\ (i.runs => i.field # f.field)
               \/ z = g.condition /\ g.runs /\ (h.runs => h.field # g.field) /\ (i.runs => i.field # g.field)
               \/ z = h.condition /\ h.runs /\ (i.runs => i.field # h.field)
               \/ z = i.condition /\ i.runs
<1>1. IsList(<<a, b, c, d, e, f, g, h, i>>)
    BY DEF IsList, Items
<1>2. Items(<<a, b, c, d, e, f, g, h, i>>) = {a, b, c, d, e, f, g, h, i}
    BY DEF Items
<1>3. ASSUME NEW z
      PROVE  z \in Conditions(<<a, b, c, d, e, f, g, h, i>>) <=>
               \/ z = a.condition /\ a.runs /\ (b.runs => b.field # a.field) /\ (c.runs => c.field # a.field) /\ (d.runs => d.field # a.field) /\ (e.runs => e.field # a.field) /\ (f.runs => f.field # a.field) /\ (g.runs => g.field # a.field) /\ (h.runs => h.field # a.field) /\ (i.runs => i.field # a.field)
               \/ z = b.condition /\ b.runs /\ (c.runs => c.field # b.field) /\ (d.runs => d.field # b.field) /\ (e.runs => e.field # b.field) /\ (f.runs => f.field # b.field) /\ (g.runs => g.field # b.field) /\ (h.runs => h.field # b.field) /\ (i.runs => i.field # b.field)
               \/ z = c.condition /\ c.runs /\ (d.runs => d.field # c.field) /\ (e.runs => e.field # c.field) /\ (f.runs => f.field # c.field) /\ (g.runs => g.field # c.field) /\ (h.runs => h.field # c.field) /\ (i.runs => i.field # c.field)
               \/ z = d.condition /\ d.runs /\ (e.runs => e.field # d.field) /\ (f.runs => f.field # d.field) /\ (g.runs => g.field # d.field) /\ (h.runs => h.field # d.field) /\ (i.runs => i.field # d.field)
               \/ z = e.condition /\ e.runs /\ (f.runs => f.field # e.field) /\ (g.runs => g.field # e.field) /\ (h.runs => h.field # e.field) /\ (i.runs => i.field # e.field)
               \/ z = f.condition /\ f.runs /\ (g.runs => g.field # f.field) /\ (h.runs => h.field # f.field) /\ (i.runs => i.field # f.field)
               \/ z = g.condition /\ g.runs /\ (h.runs => h.field # g.field) /\ (i.runs => i.field # g.field)
               \/ z = h.condition /\ h.runs /\ (i.runs => i.field # h.field)
               \/ z = i.condition /\ i.runs
    BY DEF Conditions
<1>4. QED
    BY <1>1, <1>2, <1>3

(* What a list of statements sets and asks.                                *)
Says(steps, fields, conditions) ==
    IsList(steps) /\ Fields(steps) = fields /\ Conditions(steps) = conditions

LEMMA SaysBoth ==
    ASSUME NEW s, NEW t, NEW f, NEW g, NEW c, NEW d,
           Says(s, f, c), Says(t, g, d), f \cap g = {}
    PROVE  Says(s \o t, f \cup g, c \cup d)
<1>1. Apart(s, t)
    BY DEF Says, Apart, Fields
<1>2. QED
    BY <1>1, ConcatConditions DEF Says, Fields

LEMMA IfIs ==
    ASSUME NEW q, NEW f, NEW n
    PROVE  /\ IfTruthy(q, f, n).field = f /\ IfTruthy(q, f, n).condition = n
           /\ IfTruthy(q, f, n).runs <=> Truthy(q, n)
           /\ IfGiven(q, f, n).field = f /\ IfGiven(q, f, n).condition = n
           /\ IfGiven(q, f, n).runs <=> n \in DOMAIN q
BY DEF IfTruthy, IfGiven, Set, Given

LEMMA OwnIs == Own.field = "owner" /\ Own.condition = "own" /\ Own.runs
BY DEF Own, Set

TruthyOf(q, names) == {n \in names : Truthy(q, n)}

(* What the services' parts ask.                                           *)
LEMMA PagedSays ==
    ASSUME NEW q
    PROVE  Says(Paged(q),
                {"take", "skip"},
                ({"limit", "offset"} \cap DOMAIN q))
BY Of2, IfIs DEF Says, Paged, Fields, TruthyOf

LEMMA GetAccountWhereSays ==
    ASSUME NEW q
    PROVE  Says(GetAccountWhere(q),
                {"id", "isAccountVerified", "isAccountDisabled", "email", "OR", "accountRoles", "createdAt"},
                ({"isVerified", "isBanned"} \cap DOMAIN q) \cup TruthyOf(q, {"excludeIds", "email", "search", "excludeRole", "createdAt"})
                \cup {n \in {"ids"} : Truthy(q, n) /\ ~ Truthy(q, "excludeIds")}
                \cup {n \in {"role"} : Truthy(q, n) /\ ~ Truthy(q, "excludeRole")})
BY Of9, IfIs DEF Says, GetAccountWhere, Fields, TruthyOf

LEMMA CountAccountsSays ==
    ASSUME NEW q
    PROVE  Says(CountAccounts(q),
                {"isAccountDisabled", "isAccountVerified", "isEmailVerified", "from", "to"},
                ({"isBanned", "isAccountVerified", "isEmailVerified", "startTime", "endTime"} \cap DOMAIN q))
BY Of5, IfIs DEF Says, CountAccounts, Fields, TruthyOf

LEMMA GetFilterSays ==
    ASSUME NEW q
    PROVE  Says(GetFilter(q),
                {"id", "accountId", "isVerified", "status"},
                ({"accountId", "isVerified"} \cap DOMAIN q) \cup TruthyOf(q, {"id", "status"}))
BY Of4, IfIs DEF Says, GetFilter, Fields, TruthyOf

LEMMA CountVerificationRequestsSays ==
    ASSUME NEW q
    PROVE  Says(CountVerificationRequests(q),
                {"isVerified", "status", "from", "to"},
                ({"isVerified", "status", "startTime", "endTime"} \cap DOMAIN q))
BY Of4, IfIs DEF Says, CountVerificationRequests, Fields, TruthyOf

LEMMA GetChatWhereSays ==
    ASSUME NEW q
    PROVE  Says(GetChatWhere(q),
                {"owner", "AND", "isBlocked", "isGroup", "ChatMessage"},
                TruthyOf(q, {"name", "isBlocked", "isGroup", "hasMessage"}) \cup {"own"})
BY Of5, IfIs, OwnIs DEF Says, GetChatWhere, Fields, TruthyOf

LEMMA GetChatOrderBySays ==
    ASSUME NEW q
    PROVE  Says(GetChatOrderBy(q),
                {"orderBy"},
                TruthyOf(q, {"sort"}))
BY Of1, IfIs DEF Says, GetChatOrderBy, Fields, TruthyOf

LEMMA GetReportSortInputSays ==
    ASSUME NEW q
    PROVE  Says(GetReportSortInput(q),
                {"orderBy"},
                TruthyOf(q, {"sort"}))
BY Of1, IfIs DEF Says, GetReportSortInput, Fields, TruthyOf

LEMMA GetReportsStatisticsSays ==
    ASSUME NEW q
    PROVE  Says(GetReportsStatistics(q),
                {"type", "status", "from", "to"},
                ({"type", "status", "startTime", "endTime"} \cap DOMAIN q))
BY Of4, IfIs DEF Says, GetReportsStatistics, Fields, TruthyOf

LEMMA GetWhereSays ==
    ASSUME NEW q
    PROVE  Says(GetWhere(q),
                {"id.in", "id.notIn", "type", "status", "authorId", "title"},
                TruthyOf(q, {"id", "excludeIds", "type", "status", "authorId", "search"}))
BY Of6, IfIs DEF Says, GetWhere, Fields, TruthyOf

LEMMA GetNotificationWhereSays ==
    ASSUME NEW q
    PROVE  Says(GetNotificationWhere(q),
                {"owner", "id", "title", "read", "type"},
                ({"read"} \cap DOMAIN q) \cup TruthyOf(q, {"id", "name", "type"}) \cup {"own"})
BY Of5, IfIs, OwnIs DEF Says, GetNotificationWhere, Fields, TruthyOf

LEMMA GetNotificationSortSays ==
    ASSUME NEW q
    PROVE  Says(GetNotificationSort(q),
                {"orderBy"},
                TruthyOf(q, {"sort"}))
BY Of1, IfIs DEF Says, GetNotificationSort, Fields, TruthyOf

LEMMA GetProfileWhereSays ==
    ASSUME NEW q
    PROVE  Says(GetProfileWhere(q),
                {"id.in", "id.notIn", "OR"},
                TruthyOf(q, {"ids", "excludeId", "search"}))
BY Of3, IfIs DEF Says, GetProfileWhere, Fields, TruthyOf

LEMMA GetWhereClauseSays ==
    ASSUME NEW q
    PROVE  Says(GetWhereClause(q),
                {"name", "status", "cinemaBrand"},
                TruthyOf(q, {"search", "status", "ownerId"}))
BY Of3, IfIs DEF Says, GetWhereClause, Fields, TruthyOf

LEMMA GetFilmPremieresByIdSays ==
    ASSUME NEW q
    PROVE  Says(GetFilmPremieresById(q),
                {"from", "to"},
                TruthyOf(q, {"startDate", "endDate"}))
BY Of2, IfIs DEF Says, GetFilmPremieresById, Fields, TruthyOf

LEMMA CinemaFilmIncludeSays ==
    ASSUME NEW q
    PROVE  Says(CinemaFilmInclude(q),
                {"Film", "Cinema", "Room", "CinemaFilmSeat"},
                TruthyOf(q, {"film", "cinema", "room-seats", "cinema-film-seats"}) \cup {n \in {"room"} : Truthy(q, n) /\ ~ Truthy(q, "room-seats")})
BY Of5, IfIs DEF Says, CinemaFilmInclude, Fields, TruthyOf

LEMMA GetProfitSays ==
    ASSUME NEW q
    PROVE  Says(GetProfit(q),
                {"from", "to"},
                ({"startTime", "endTime"} \cap DOMAIN q))
BY Of2, IfIs DEF Says, GetProfit, Fields, TruthyOf

LEMMA IncludesOneSays ==
    ASSUME NEW q, NEW name
    PROVE  Says(Includes(q, <<name>>), {name}, TruthyOf(q, {name}))
<1>1. Includes(q, <<name>>) = <<IfTruthy(q, name, name)>>
    BY DEF Includes
<1>2. QED
    BY <1>1, Of1, IfIs DEF Says, Fields, TruthyOf

LEMMA IncludesTwoSays ==
    ASSUME NEW q, NEW m, NEW n, m # n
    PROVE  Says(Includes(q, <<m, n>>), {m, n}, TruthyOf(q, {m, n}))
<1>1. Includes(q, <<m, n>>) = <<IfTruthy(q, m, m), IfTruthy(q, n, n)>>
    BY DEF Includes
<1>2. QED
    BY <1>1, Of2, IfIs DEF Says, Fields, TruthyOf

LEMMA GetChatIncludeSays ==
    ASSUME NEW q
    PROVE  Says(GetChatInclude(q), {"messageLimit", "messageOffset"}, TruthyOf(q, {"messageLimit", "messageOffset"}))
BY IncludesTwoSays DEF GetChatInclude

LEMMA GetIncludeSays ==
    ASSUME NEW q
    PROVE  Says(GetInclude(q), {"author"}, TruthyOf(q, {"author"}))
BY IncludesOneSays DEF GetInclude

LEMMA ParseProfileSelectSays ==
    ASSUME NEW q
    PROVE  Says(ParseProfileSelect(q), {"select", "interested-genres"}, TruthyOf(q, {"select", "interested-genres"}))
BY IncludesTwoSays DEF ParseProfileSelect

LEMMA OwnSays == Says(<<Own>>, {"owner"}, {"own"})
BY Of1, OwnIs DEF Says, Fields

LEMMA ParticipantsSay ==
    ASSUME NEW q
    PROVE  Says(<<Own, IfTruthy(q, "Account.id", "excludeId"), IfTruthy(q, "Account.profile", "search")>>,
                {"owner", "Account.id", "Account.profile"},
                TruthyOf(q, {"excludeId", "search"}) \cup {"own"})
BY Of3, IfIs, OwnIs DEF Says, Fields, TruthyOf

LEMMA FilmsSay ==
    ASSUME NEW q
    PROVE  Says(<<IfTruthy(q, "name", "search")>>,
                {"name"},
                TruthyOf(q, {"search"}))
BY Of1, IfIs DEF Says, Fields, TruthyOf

LEMMA PremieresSay ==
    ASSUME NEW q
    PROVE  Says(<<IfTruthy(q, "name", "search"), IfTruthy(q, "from", "startDate"), IfTruthy(q, "to", "endDate"),
                  IfTruthy(q, "ownerId", "ownerId")>>,
                {"name", "from", "to", "ownerId"},
                TruthyOf(q, {"search", "startDate", "endDate", "ownerId"}))
BY Of4, IfIs DEF Says, Fields, TruthyOf

LEMMA ShowingsSay ==
    ASSUME NEW q
    PROVE  Says(<<Own, IfTruthy(q, "OR", "search")>>,
                {"owner", "OR"},
                TruthyOf(q, {"search"}) \cup {"own"})
BY Of2, IfIs, OwnIs DEF Says, Fields, TruthyOf

LEMMA FilesSay ==
    ASSUME NEW q
    PROVE  Says(<<Own, IfTruthy(q, "id", "ids")>>,
                {"owner", "id"},
                TruthyOf(q, {"ids"}) \cup {"own"})
BY Of2, IfIs, OwnIs DEF Says, Fields, TruthyOf

(* Those that look at the caller's roles, or at two parameters at once.    *)
ReportConditions(q, roles) ==
    LET reviews == Truthy(q, "isReviewer") /\ IsAdmin(roles)
        mine == Truthy(q, "mine") \/ ~ IsAdmin(roles) IN
    TruthyOf(q, {"id", "name", "type", "status"})
    \cup {n \in {"reporterId"} : Truthy(q, n) /\ ~ mine /\ ~ reviews}
    \cup {n \in {"own"} : mine /\ ~ reviews} \cup {n \in {"others'", "isReviewer"} : reviews}

LEMMA GetReportWhereSays ==
    ASSUME NEW q, NEW roles
    PROVE  Says(GetReportWhereInput(q, roles),
                {"id", "reporterId", "reportMessage", "title", "type", "status"},
                ReportConditions(q, roles))
<1> DEFINE reviews == Truthy(q, "isReviewer") /\ IsAdmin(roles)
           mine == Truthy(q, "mine") \/ ~ IsAdmin(roles)
           own == Set("reporterId", "own", mine)
           others == Set("reporterId", "others'", reviews)
           message == Set("reportMessage", "isReviewer", reviews)
<1>1. /\ own.field = "reporterId" /\ own.condition = "own" /\ (own.runs <=> mine)
      /\ others.field = "reporterId" /\ others.condition = "others'" /\ (others.runs <=> reviews)
      /\ message.field = "reportMessage" /\ message.condition = "isReviewer" /\ (message.runs <=> reviews)
    BY DEF Set
<1>2. GetReportWhereInput(q, roles) =
          <<IfTruthy(q, "id", "id"), IfTruthy(q, "reporterId", "reporterId"), own, others, message,
            IfTruthy(q, "title", "name"), IfTruthy(q, "type", "type"), IfTruthy(q, "status", "status")>>
    BY DEF GetReportWhereInput
<1> HIDE DEF own, others, message, reviews, mine
<1>3. QED
    BY <1>1, <1>2, Of8, IfIs DEF Says, Fields, TruthyOf, ReportConditions, reviews, mine

LEMMA ReportOwnSays ==
    ASSUME NEW roles
    PROVE  Says(<<Set("reporterId", "own", ~ IsAdmin(roles))>>, {"reporterId"},
                {n \in {"own"} : ~ IsAdmin(roles)})
<1> DEFINE own == Set("reporterId", "own", ~ IsAdmin(roles))
<1>1. own.field = "reporterId" /\ own.condition = "own" /\ (own.runs <=> ~ IsAdmin(roles))
    BY DEF Set
<1> HIDE DEF own
<1>2. Says(<<own>>, {"reporterId"}, {n \in {"own"} : ~ IsAdmin(roles)})
    BY <1>1, Of1 DEF Says, Fields
<1>3. QED
    BY <1>2 DEF own

LEMMA ShowingOwnSays ==
    ASSUME NEW roles
    PROVE  Says(<<Set("owner", "own", "Moderator" \in roles)>>, {"owner"},
                {n \in {"own"} : "Moderator" \in roles})
<1> DEFINE own == Set("owner", "own", "Moderator" \in roles)
<1>1. own.field = "owner" /\ own.condition = "own" /\ (own.runs <=> "Moderator" \in roles)
    BY DEF Set
<1> HIDE DEF own
<1>2. Says(<<own>>, {"owner"}, {n \in {"own"} : "Moderator" \in roles})
    BY <1>1, Of1 DEF Says, Fields
<1>3. QED
    BY <1>2 DEF own

LEMMA GetOrderBySays ==
    ASSUME NEW q, ~ {"sort", "relevance"} \subseteq DOMAIN q
    PROVE  Says(GetOrderBy(q), {"orderBy"},
                TruthyOf(q, {"sort"}) \cup {n \in {"relevance"} : Truthy(q, n) /\ Truthy(q, "search")})
<1> DEFINE both == Truthy(q, "relevance") /\ Truthy(q, "search")
           relevance == Set("orderBy", "relevance", both)
<1>1. relevance.field = "orderBy" /\ relevance.condition = "relevance" /\ (relevance.runs <=> both)
    BY DEF Set
<1>2. GetOrderBy(q) = <<IfTruthy(q, "orderBy", "sort"), relevance>>
    BY DEF GetOrderBy
<1>3. ~ (Truthy(q, "sort") /\ Truthy(q, "relevance"))
    BY DEF Truthy, Given
<1> HIDE DEF relevance
<1>4. QED
    BY <1>1, <1>2, <1>3, Of2, IfIs DEF Says, Fields, TruthyOf

LEMMA GetTicketWhereSays ==
    ASSUME NEW q, NEW roles
    PROVE  Says(GetTicketWhere(q, roles), {"accountId", "OR", "gte", "lte"},
                TruthyOf(q, {"search", "startPremiereDate", "endPremiereDate"})
                \cup {n \in {"own"} : ~ IsAdmin(roles)} \cup {n \in {"accountId"} : IsAdmin(roles) /\ Truthy(q, n)})
<1> DEFINE own == Set("accountId", "own", ~ IsAdmin(roles))
           other == Set("accountId", "accountId", IsAdmin(roles) /\ Truthy(q, "accountId"))
<1>1. /\ own.field = "accountId" /\ own.condition = "own" /\ (own.runs <=> ~ IsAdmin(roles))
      /\ other.field = "accountId" /\ other.condition = "accountId"
      /\ (other.runs <=> (IsAdmin(roles) /\ Truthy(q, "accountId")))
    BY DEF Set
<1>2. GetTicketWhere(q, roles) =
          <<own, other, IfTruthy(q, "OR", "search"), IfTruthy(q, "gte", "startPremiereDate"),
            IfTruthy(q, "lte", "endPremiereDate")>>
    BY DEF GetTicketWhere
<1> HIDE DEF own, other
<1>3. QED
    BY <1>1, <1>2, Of5, IfIs DEF Says, Fields, TruthyOf

LEMMA TicketSortSays ==
    ASSUME NEW q, NEW roles
    PROVE  Says(<<Set("orderBy", "sort", Truthy(q, "sort") /\ ~ IsAdmin(roles))>>, {"orderBy"},
                {n \in {"sort"} : Truthy(q, n) /\ ~ IsAdmin(roles)})
<1> DEFINE sorts == Set("orderBy", "sort", Truthy(q, "sort") /\ ~ IsAdmin(roles))
<1>1. /\ sorts.field = "orderBy" /\ sorts.condition = "sort"
      /\ (sorts.runs <=> (Truthy(q, "sort") /\ ~ IsAdmin(roles)))
    BY DEF Set
<1> HIDE DEF sorts
<1>2. Says(<<sorts>>, {"orderBy"}, {n \in {"sort"} : Truthy(q, n) /\ ~ IsAdmin(roles)})
    BY <1>1, Of1 DEF Says, Fields
<1>3. QED
    BY <1>2 DEF sorts

LEMMA GetFoodWhereSays ==
    ASSUME NEW q, NEW roles
    PROVE  Says(GetFoodWhere(q, roles), {"owner", "id.in", "id.notIn", "OR", "cinemaId"},
                TruthyOf(q, {"ids", "excludeId", "search", "cinemaId"})
                \cup {n \in {"own"} : roles \cap {"Admin", "User"} = {}})
<1> DEFINE own == Set("owner", "own", roles \cap {"Admin", "User"} = {})
<1>1. own.field = "owner" /\ own.condition = "own" /\ (own.runs <=> roles \cap {"Admin", "User"} = {})
    BY DEF Set
<1>2. GetFoodWhere(q, roles) =
          <<own, IfTruthy(q, "id.in", "ids"), IfTruthy(q, "id.notIn", "excludeId"), IfTruthy(q, "OR", "search"),
            IfTruthy(q, "cinemaId", "cinemaId")>>
    BY DEF GetFoodWhere
<1> HIDE DEF own
<1>3. QED
    BY <1>1, <1>2, Of5, IfIs DEF Says, Fields, TruthyOf

LEMMA TwoAsk ==
    ASSUME NEW r, NEW s, IsList(r), IsList(s), Fields(r) \cap Fields(s) = {}
    PROVE  Conditions(r \o s) = Conditions(r) \cup Conditions(s)
BY SaysBoth DEF Says

LEMMA ThreeAsk ==
    ASSUME NEW r, NEW s, NEW t, IsList(r), IsList(s), IsList(t),
           Fields(r) \cap Fields(s) = {}, (Fields(r) \cup Fields(s)) \cap Fields(t) = {}
    PROVE  Conditions(r \o s \o t) = Conditions(r) \cup Conditions(s) \cup Conditions(t)
<1>1. IsList(r \o s) /\ Fields(r \o s) = Fields(r) \cup Fields(s)
      /\ Conditions(r \o s) = Conditions(r) \cup Conditions(s)
    BY SaysBoth DEF Says
<1>2. QED
    BY <1>1, TwoAsk

LEMMA FourAsk ==
    ASSUME NEW r, NEW s, NEW t, NEW u, IsList(r), IsList(s), IsList(t), IsList(u),
           Fields(r) \cap Fields(s) = {}, (Fields(r) \cup Fields(s)) \cap Fields(t) = {},
           (Fields(r) \cup Fields(s) \cup Fields(t)) \cap Fields(u) = {}
    PROVE  Conditions(r \o s \o t \o u) = Conditions(r) \cup Conditions(s) \cup Conditions(t) \cup Conditions(u)
<1>1. IsList(r \o s) /\ Fields(r \o s) = Fields(r) \cup Fields(s)
      /\ Conditions(r \o s) = Conditions(r) \cup Conditions(s)
    BY SaysBoth DEF Says
<1>2. QED
    BY <1>1, ThreeAsk

-----------------------------------------------------------------------------
(* A query the validation lets through, and what it must be answered with. *)
IsQuery(d, q) ==
    /\ DOMAIN q \subseteq Names(d)
    /\ \A n \in DOMAIN q : q[n] \in Values(d, n)
    /\ ~ {"sort", "relevance"} \subseteq DOMAIN q
    /\ ~ Refuses(d, q)

Right(e, q, roles) ==
    Conditions(Service(e, q, roles)) \ {"others'"} =
        (DOMAIN q \ (NeverHeard[e] \cup Silenced(e, q, roles)))
        \cup {own \in {"own"} : OwnOnly(e, q, roles)}

LEMMA QueryFact ==
    ASSUME NEW d, NEW q, IsQuery(d, q)
    PROVE  \A n \in DOMAIN q : n \in Names(d) /\ (n \notin d.flags => Truthy(q, n))
BY DEF IsQuery, Truthy, Given, Values

LEMMA AccountsRight ==
    ASSUME NEW q, NEW roles, IsQuery(GetAccountQueryDto, q)
    PROVE  Right("accounts", q, roles)
<1>1. \A n \in DOMAIN q : /\ n \in {"limit", "offset", "cursor", "ids", "excludeIds", "role",
                                   "excludeRole", "includes", "isBanned", "isVerified", "email",
                                   "search", "createdAt"}
                          /\ n \notin {"isBanned", "isVerified"} => Truthy(q, n)
    BY QueryFact DEF GetAccountQueryDto, PaginationQueryDto, With, Dto, Names
<1>2. Conditions(GetAccounts(q)) =
          (({"isVerified", "isBanned"} \cap DOMAIN q) \cup TruthyOf(q, {"excludeIds", "email", "search", "excludeRole", "createdAt"}) \cup {n \in {"ids"} : Truthy(q, n) /\ ~ Truthy(q, "excludeIds")} \cup {n \in {"role"} : Truthy(q, n) /\ ~ Truthy(q, "excludeRole")})
          \cup TruthyOf(q, {"includes"})
          \cup ({"limit", "offset"} \cap DOMAIN q)
  <2> DEFINE r == GetAccountWhere(q)
             s == Includes(q, <<"includes">>)
             t == Paged(q)
  <2>1. IsList(r) /\ Fields(r) = {"id", "isAccountVerified", "isAccountDisabled", "email", "OR", "accountRoles", "createdAt"}
      BY GetAccountWhereSays DEF Says
  <2>2. IsList(s) /\ Fields(s) = {"includes"}
      BY IncludesOneSays DEF Says
  <2>3. IsList(t) /\ Fields(t) = {"take", "skip"}
      BY PagedSays DEF Says
  <2>4. Conditions(GetAccounts(q)) = Conditions(r) \cup Conditions(s) \cup Conditions(t)
      BY <2>1, <2>2, <2>3, ThreeAsk DEF GetAccounts
  <2>5. QED
      BY <2>4, GetAccountWhereSays, IncludesOneSays, PagedSays DEF Says
<1>3. QED
    BY <1>1, <1>2 DEF Right, Service, NeverHeard, Endpoint, Silenced, OwnOnly, TruthyOf, Truthy, Given

LEMMA AccountsCountRight ==
    ASSUME NEW q, NEW roles, IsQuery(CountAccountQueryDto, q)
    PROVE  Right("accountsCount", q, roles)
<1>1. \A n \in DOMAIN q : /\ n \in {"startTime", "endTime", "isBanned", "isEmailVerified",
                                   "isAccountVerified"}
                          /\ n \notin {"isBanned", "isEmailVerified", "isAccountVerified"} => Truthy(q, n)
    BY QueryFact DEF CountAccountQueryDto, CountQueryDto, With, Dto, Names
<1>2. Conditions(CountAccounts(q)) =
          ({"isBanned", "isAccountVerified", "isEmailVerified", "startTime", "endTime"} \cap DOMAIN q)
    BY CountAccountsSays DEF Says
<1>3. QED
    BY <1>1, <1>2 DEF Right, Service, NeverHeard, Endpoint, Silenced, OwnOnly, TruthyOf, Truthy, Given

LEMMA ReportsRight ==
    ASSUME NEW q, NEW roles, IsQuery(GetReportQueryDto, q)
    PROVE  Right("reports", q, roles)
<1>1. \A n \in DOMAIN q : /\ n \in {"limit", "offset", "cursor", "id", "type", "status", "include",
                                   "mine", "isReviewer", "reporterId", "name", "sort"}
                          /\ n \notin {"mine", "isReviewer"} => Truthy(q, n)
    BY QueryFact DEF GetReportQueryDto, PaginationQueryDto, With, Dto, Names
<1>2. Conditions(GetReports(q, roles)) =
          ReportConditions(q, roles)
          \cup TruthyOf(q, {"sort"})
          \cup TruthyOf(q, {"include"})
          \cup ({"limit", "offset"} \cap DOMAIN q)
  <2> DEFINE r == GetReportWhereInput(q, roles)
             s == GetReportSortInput(q)
             t == Includes(q, <<"include">>)
             u == Paged(q)
  <2>1. IsList(r) /\ Fields(r) = {"id", "reporterId", "reportMessage", "title", "type", "status"}
      BY GetReportWhereSays DEF Says
  <2>2. IsList(s) /\ Fields(s) = {"orderBy"}
      BY GetReportSortInputSays DEF Says
  <2>3. IsList(t) /\ Fields(t) = {"include"}
      BY IncludesOneSays DEF Says
  <2>4. IsList(u) /\ Fields(u) = {"take", "skip"}
      BY PagedSays DEF Says
  <2>5. Conditions(GetReports(q, roles)) = Conditions(r) \cup Conditions(s) \cup Conditions(t) \cup Conditions(u)
      BY <2>1, <2>2, <2>3, <2>4, FourAsk DEF GetReports
  <2>6. QED
      BY <2>5, GetReportWhereSays, GetReportSortInputSays, IncludesOneSays, PagedSays DEF Says
<1>3. QED
    BY <1>1, <1>2 DEF Right, Service, NeverHeard, Endpoint, Silenced, OwnOnly, TruthyOf, Truthy, Given, ReportConditions

LEMMA VerificationsRight ==
    ASSUME NEW q, NEW roles, IsQuery(GetAccountVerificationsQueryDto, q)
    PROVE  Right("verifications", q, roles)
<1>1. \A n \in DOMAIN q : /\ n \in {"limit", "offset", "cursor", "id", "status", "include", "isVerified",
                                   "accountId"}
                          /\ n \notin {"isVerified"} => Truthy(q, n)
    BY QueryFact DEF GetAccountVerificationsQueryDto, PaginationQueryDto, With, Dto, Names
<1>2. Conditions(GetVerificationRequests(q)) =
          (({"accountId", "isVerified"} \cap DOMAIN q) \cup TruthyOf(q, {"id", "status"}))
          \cup TruthyOf(q, {"include"})
  <2> DEFINE r == GetFilter(q)
             s == Includes(q, <<"include">>)
  <2>1. IsList(r) /\ Fields(r) = {"id", "accountId", "isVerified", "status"}
      BY GetFilterSays DEF Says
  <2>2. IsList(s) /\ Fields(s) = {"include"}
      BY IncludesOneSays DEF Says
  <2>3. Conditions(GetVerificationRequests(q)) = Conditions(r) \cup Conditions(s)
      BY <2>1, <2>2, TwoAsk DEF GetVerificationRequests
  <2>4. QED
      BY <2>3, GetFilterSays, IncludesOneSays DEF Says
<1>3. QED
    BY <1>1, <1>2 DEF Right, Service, NeverHeard, Endpoint, Silenced, OwnOnly, TruthyOf, Truthy, Given

LEMMA VerificationsCountRight ==
    ASSUME NEW q, NEW roles, IsQuery(CountVerificationQueryDto, q)
    PROVE  Right("verificationsCount", q, roles)
<1>1. \A n \in DOMAIN q : /\ n \in {"startTime", "endTime", "status", "isVerified"}
                          /\ n \notin {"isVerified"} => Truthy(q, n)
    BY QueryFact DEF CountVerificationQueryDto, CountQueryDto, With, Dto, Names
<1>2. Conditions(CountVerificationRequests(q)) =
          ({"isVerified", "status", "startTime", "endTime"} \cap DOMAIN q)
    BY CountVerificationRequestsSays DEF Says
<1>3. QED
    BY <1>1, <1>2 DEF Right, Service, NeverHeard, Endpoint, Silenced, OwnOnly, TruthyOf, Truthy, Given

LEMMA ChatsRight ==
    ASSUME NEW q, NEW roles, IsQuery(ChatsQueryDto, q)
    PROVE  Right("chats", q, roles)
<1>1. \A n \in DOMAIN q : /\ n \in {"limit", "offset", "cursor", "hasMessage", "isBlocked", "isGroup",
                                   "messageLimit", "messageOffset", "name", "sort"}
                          /\ n \notin {"hasMessage", "isBlocked", "isGroup"} => Truthy(q, n)
    BY QueryFact DEF ChatsQueryDto, ChatQueryDto, PaginationQueryDto, With, Dto, Names
<1>2. Conditions(GetChats(q)) =
          (TruthyOf(q, {"name", "isBlocked", "isGroup", "hasMessage"}) \cup {"own"})
          \cup TruthyOf(q, {"messageLimit", "messageOffset"})
          \cup TruthyOf(q, {"sort"})
          \cup ({"limit", "offset"} \cap DOMAIN q)
  <2> DEFINE r == GetChatWhere(q)
             s == GetChatInclude(q)
             t == GetChatOrderBy(q)
             u == Paged(q)
  <2>1. IsList(r) /\ Fields(r) = {"owner", "AND", "isBlocked", "isGroup", "ChatMessage"}
      BY GetChatWhereSays DEF Says
  <2>2. IsList(s) /\ Fields(s) = {"messageLimit", "messageOffset"}
      BY GetChatIncludeSays DEF Says
  <2>3. IsList(t) /\ Fields(t) = {"orderBy"}
      BY GetChatOrderBySays DEF Says
  <2>4. IsList(u) /\ Fields(u) = {"take", "skip"}
      BY PagedSays DEF Says
  <2>5. Conditions(GetChats(q)) = Conditions(r) \cup Conditions(s) \cup Conditions(t) \cup Conditions(u)
      BY <2>1, <2>2, <2>3, <2>4, FourAsk DEF GetChats
  <2>6. QED
      BY <2>5, GetChatWhereSays, GetChatIncludeSays, GetChatOrderBySays, PagedSays DEF Says
<1>3. QED
    BY <1>1, <1>2 DEF Right, Service, NeverHeard, Endpoint, Silenced, OwnOnly, TruthyOf, Truthy, Given, ChatsQueryDto, ChatQueryDto, PaginationQueryDto, With, Dto

LEMMA ChatRight ==
    ASSUME NEW q, NEW roles, IsQuery(ChatQueryDto, q)
    PROVE  Right("chat", q, roles)
<1>1. \A n \in DOMAIN q : /\ n \in {"limit", "offset", "cursor", "hasMessage", "messageLimit",
                                   "messageOffset"}
                          /\ n \notin {"hasMessage"} => Truthy(q, n)
    BY QueryFact DEF ChatQueryDto, PaginationQueryDto, With, Dto, Names
<1>2. Conditions(GetChatById(q)) =
          {"own"}
          \cup TruthyOf(q, {"messageLimit", "messageOffset"})
  <2> DEFINE r == <<Own>>
             s == GetChatInclude(q)
  <2>1. IsList(r) /\ Fields(r) = {"owner"}
      BY OwnSays DEF Says
  <2>2. IsList(s) /\ Fields(s) = {"messageLimit", "messageOffset"}
      BY GetChatIncludeSays DEF Says
  <2>3. Conditions(GetChatById(q)) = Conditions(r) \cup Conditions(s)
      BY <2>1, <2>2, TwoAsk DEF GetChatById
  <2>4. QED
      BY <2>3, OwnSays, GetChatIncludeSays DEF Says
<1>3. QED
    BY <1>1, <1>2 DEF Right, Service, NeverHeard, Endpoint, Silenced, OwnOnly, TruthyOf, Truthy, Given

LEMMA ParticipantsRight ==
    ASSUME NEW q, NEW roles, IsQuery(ChatParticipantQueryDto, q)
    PROVE  Right("participants", q, roles)
<1>1. \A n \in DOMAIN q : /\ n \in {"limit", "offset", "cursor", "excludeId", "search"}
                          /\ Truthy(q, n)
    BY QueryFact DEF ChatParticipantQueryDto, PaginationQueryDto, With, Dto, Names
<1>2. Conditions(GetChatParticipants(q)) =
          (TruthyOf(q, {"excludeId", "search"}) \cup {"own"})
          \cup ({"limit", "offset"} \cap DOMAIN q)
  <2> DEFINE r == <<Own, IfTruthy(q, "Account.id", "excludeId"), IfTruthy(q, "Account.profile", "search")>>
             s == Paged(q)
  <2>1. IsList(r) /\ Fields(r) = {"owner", "Account.id", "Account.profile"}
      BY ParticipantsSay DEF Says
  <2>2. IsList(s) /\ Fields(s) = {"take", "skip"}
      BY PagedSays DEF Says
  <2>3. Conditions(GetChatParticipants(q)) = Conditions(r) \cup Conditions(s)
      BY <2>1, <2>2, TwoAsk DEF GetChatParticipants
  <2>4. QED
      BY <2>3, ParticipantsSay, PagedSays DEF Says
<1>3. QED
    BY <1>1, <1>2 DEF Right, Service, NeverHeard, Endpoint, Silenced, OwnOnly, TruthyOf, Truthy, Given

LEMMA MessagesRight ==
    ASSUME NEW q, NEW roles, IsQuery(PaginationQueryDto, q)
    PROVE  Right("messages", q, roles)
<1>1. \A n \in DOMAIN q : /\ n \in {"limit", "offset", "cursor"}
                          /\ Truthy(q, n)
    BY QueryFact DEF PaginationQueryDto, Dto, Names
<1>2. Conditions(GetChatMessages(q)) =
          {"own"}
          \cup ({"limit", "offset"} \cap DOMAIN q)
  <2> DEFINE r == <<Own>>
             s == Paged(q)
  <2>1. IsList(r) /\ Fields(r) = {"owner"}
      BY OwnSays DEF Says
  <2>2. IsList(s) /\ Fields(s) = {"take", "skip"}
      BY PagedSays DEF Says
  <2>3. Conditions(GetChatMessages(q)) = Conditions(r) \cup Conditions(s)
      BY <2>1, <2>2, TwoAsk DEF GetChatMessages
  <2>4. QED
      BY <2>3, OwnSays, PagedSays DEF Says
<1>3. QED
    BY <1>1, <1>2 DEF Right, Service, NeverHeard, Endpoint, Silenced, OwnOnly, TruthyOf, Truthy, Given

LEMMA ReportsCountRight ==
    ASSUME NEW q, NEW roles, IsQuery(CountReportQueryDto, q)
    PROVE  Right("reportsCount", q, roles)
<1>1. \A n \in DOMAIN q : /\ n \in {"startTime", "endTime", "type", "status"}
                          /\ Truthy(q, n)
    BY QueryFact DEF CountReportQueryDto, CountQueryDto, With, Dto, Names
<1>2. Conditions(CountReports(q, roles)) =
          ReportConditions(q, roles)
    BY GetReportWhereSays DEF Says, CountReports
<1>3. QED
    BY <1>1, <1>2 DEF Right, Service, NeverHeard, Endpoint, Silenced, OwnOnly, TruthyOf, Truthy, Given, ReportConditions

LEMMA ReportsStatisticsRight ==
    ASSUME NEW q, NEW roles, IsQuery(CountReportQueryDto, q)
    PROVE  Right("reportsStatistics", q, roles)
<1>1. \A n \in DOMAIN q : /\ n \in {"startTime", "endTime", "type", "status"}
                          /\ Truthy(q, n)
    BY QueryFact DEF CountReportQueryDto, CountQueryDto, With, Dto, Names
<1>2. Conditions(GetReportsStatistics(q)) =
          ({"type", "status", "startTime", "endTime"} \cap DOMAIN q)
    BY GetReportsStatisticsSays DEF Says
<1>3. QED
    BY <1>1, <1>2 DEF Right, Service, NeverHeard, Endpoint, Silenced, OwnOnly, TruthyOf, Truthy, Given

LEMMA ReportRight ==
    ASSUME NEW q, NEW roles, IsQuery(GetReportQueryDto, q)
    PROVE  Right("report", q, roles)
<1>1. \A n \in DOMAIN q : /\ n \in {"limit", "offset", "cursor", "id", "type", "status", "include",
                                   "mine", "isReviewer", "reporterId", "name", "sort"}
                          /\ n \notin {"mine", "isReviewer"} => Truthy(q, n)
    BY QueryFact DEF GetReportQueryDto, PaginationQueryDto, With, Dto, Names
<1>2. Conditions(GetReportById(q, roles)) =
          {n \in {"own"} : ~ IsAdmin(roles)}
          \cup TruthyOf(q, {"include"})
  <2> DEFINE r == <<Set("reporterId", "own", ~ IsAdmin(roles))>>
             s == Includes(q, <<"include">>)
  <2>1. IsList(r) /\ Fields(r) = {"reporterId"}
      BY ReportOwnSays DEF Says
  <2>2. IsList(s) /\ Fields(s) = {"include"}
      BY IncludesOneSays DEF Says
  <2>3. Conditions(GetReportById(q, roles)) = Conditions(r) \cup Conditions(s)
      BY <2>1, <2>2, TwoAsk DEF GetReportById
  <2>4. QED
      BY <2>3, ReportOwnSays, IncludesOneSays DEF Says
<1>3. QED
    BY <1>1, <1>2 DEF Right, Service, NeverHeard, Endpoint, Silenced, OwnOnly, TruthyOf, Truthy, Given, GetReportQueryDto, PaginationQueryDto, With, Dto, Names

LEMMA NewsRight ==
    ASSUME NEW q, NEW roles, IsQuery(ManyNewsQueryDto, q)
    PROVE  Right("news", q, roles)
<1>0. ~ {"sort", "relevance"} \subseteq DOMAIN q
    BY DEF IsQuery
<1>1. \A n \in DOMAIN q : /\ n \in {"limit", "offset", "cursor", "id", "excludeIds", "type",
                                   "isPublished", "author", "organization", "reference", "status",
                                   "authorId", "search", "sort", "relevance"}
                          /\ n \notin {"isPublished"} => Truthy(q, n)
    BY QueryFact DEF ManyNewsQueryDto, PaginationQueryDto, With, Dto, Names
<1>2. Conditions(GetNews(q)) =
          TruthyOf(q, {"id", "excludeIds", "type", "status", "authorId", "search"})
          \cup TruthyOf(q, {"author"})
          \cup (TruthyOf(q, {"sort"}) \cup {n \in {"relevance"} : Truthy(q, n) /\ Truthy(q, "search")})
          \cup ({"limit", "offset"} \cap DOMAIN q)
  <2> DEFINE r == GetWhere(q)
             s == GetInclude(q)
             t == GetOrderBy(q)
             u == Paged(q)
  <2>1. IsList(r) /\ Fields(r) = {"id.in", "id.notIn", "type", "status", "authorId", "title"}
      BY GetWhereSays DEF Says
  <2>2. IsList(s) /\ Fields(s) = {"author"}
      BY GetIncludeSays DEF Says
  <2>3. IsList(t) /\ Fields(t) = {"orderBy"}
      BY GetOrderBySays, <1>0 DEF Says
  <2>4. IsList(u) /\ Fields(u) = {"take", "skip"}
      BY PagedSays DEF Says
  <2>5. Conditions(GetNews(q)) = Conditions(r) \cup Conditions(s) \cup Conditions(t) \cup Conditions(u)
      BY <2>1, <2>2, <2>3, <2>4, FourAsk DEF GetNews
  <2>6. QED
      BY <2>5, GetWhereSays, GetIncludeSays, GetOrderBySays, PagedSays, <1>0 DEF Says
<1>3. QED
    BY <1>1, <1>2 DEF Right, Service, NeverHeard, Endpoint, Silenced, OwnOnly, TruthyOf, Truthy, Given

LEMMA NotificationsRight ==
    ASSUME NEW q, NEW roles, IsQuery(GetNotificationsQueryDto, q)
    PROVE  Right("notifications", q, roles)
<1>1. \A n \in DOMAIN q : /\ n \in {"limit", "offset", "cursor", "id", "type", "sort", "read", "name",
                                   "include"}
                          /\ n \notin {"read"} => Truthy(q, n)
    BY QueryFact DEF GetNotificationsQueryDto, PaginationQueryDto, With, Dto, Names, IsQuery, Refuses, Values
<1>2. Conditions(GetNotifications(q)) =
          (({"read"} \cap DOMAIN q) \cup TruthyOf(q, {"id", "name", "type"}) \cup {"own"})
          \cup TruthyOf(q, {"sort"})
          \cup ({"limit", "offset"} \cap DOMAIN q)
  <2> DEFINE r == GetNotificationWhere(q)
             s == GetNotificationSort(q)
             t == Paged(q)
  <2>1. IsList(r) /\ Fields(r) = {"owner", "id", "title", "read", "type"}
      BY GetNotificationWhereSays DEF Says
  <2>2. IsList(s) /\ Fields(s) = {"orderBy"}
      BY GetNotificationSortSays DEF Says
  <2>3. IsList(t) /\ Fields(t) = {"take", "skip"}
      BY PagedSays DEF Says
  <2>4. Conditions(GetNotifications(q)) = Conditions(r) \cup Conditions(s) \cup Conditions(t)
      BY <2>1, <2>2, <2>3, ThreeAsk DEF GetNotifications
  <2>5. QED
      BY <2>4, GetNotificationWhereSays, GetNotificationSortSays, PagedSays DEF Says
<1>3. QED
    BY <1>1, <1>2 DEF Right, Service, NeverHeard, Endpoint, Silenced, OwnOnly, TruthyOf, Truthy, Given

LEMMA ProfilesRight ==
    ASSUME NEW q, NEW roles, IsQuery(GetProfilesQueryDto, q)
    PROVE  Right("profiles", q, roles)
<1>1. \A n \in DOMAIN q : /\ n \in {"limit", "offset", "cursor", "ids", "excludeId", "select", "search",
                                   "interested-genres", "viewed-genre-times"}
                          /\ Truthy(q, n)
    BY QueryFact DEF GetProfilesQueryDto, PaginationQueryDto, With, Dto, Names
<1>2. Conditions(GetProfiles(q)) =
          TruthyOf(q, {"ids", "excludeId", "search"})
          \cup TruthyOf(q, {"select", "interested-genres"})
          \cup ({"limit", "offset"} \cap DOMAIN q)
  <2> DEFINE r == GetProfileWhere(q)
             s == ParseProfileSelect(q)
             t == Paged(q)
  <2>1. IsList(r) /\ Fields(r) = {"id.in", "id.notIn", "OR"}
      BY GetProfileWhereSays DEF Says
  <2>2. IsList(s) /\ Fields(s) = {"select", "interested-genres"}
      BY ParseProfileSelectSays DEF Says
  <2>3. IsList(t) /\ Fields(t) = {"take", "skip"}
      BY PagedSays DEF Says
  <2>4. Conditions(GetProfiles(q)) = Conditions(r) \cup Conditions(s) \cup Conditions(t)
      BY <2>1, <2>2, <2>3, ThreeAsk DEF GetProfiles
  <2>5. QED
      BY <2>4, GetProfileWhereSays, ParseProfileSelectSays, PagedSays DEF Says
<1>3. QED
    BY <1>1, <1>2 DEF Right, Service, NeverHeard, Endpoint, Silenced, OwnOnly, TruthyOf, Truthy, Given

LEMMA CinemasRight ==
    ASSUME NEW q, NEW roles, IsQuery(CinemaQueryDto, q)
    PROVE  Right("cinemas", q, roles)
<1>1. \A n \in DOMAIN q : /\ n \in {"limit", "offset", "cursor", "search", "status", "ownerId"}
                          /\ Truthy(q, n)
    BY QueryFact DEF CinemaQueryDto, PaginationQueryDto, With, Dto, Names
<1>2. Conditions(GetCinemas(q)) =
          TruthyOf(q, {"search", "status", "ownerId"})
          \cup ({"limit", "offset"} \cap DOMAIN q)
  <2> DEFINE r == GetWhereClause(q)
             s == Paged(q)
  <2>1. IsList(r) /\ Fields(r) = {"name", "status", "cinemaBrand"}
      BY GetWhereClauseSays DEF Says
  <2>2. IsList(s) /\ Fields(s) = {"take", "skip"}
      BY PagedSays DEF Says
  <2>3. Conditions(GetCinemas(q)) = Conditions(r) \cup Conditions(s)
      BY <2>1, <2>2, TwoAsk DEF GetCinemas
  <2>4. QED
      BY <2>3, GetWhereClauseSays, PagedSays DEF Says
<1>3. QED
    BY <1>1, <1>2 DEF Right, Service, NeverHeard, Endpoint, Silenced, OwnOnly, TruthyOf, Truthy, Given

LEMMA FilmsRight ==
    ASSUME NEW q, NEW roles, IsQuery(FilmQueryDto, q)
    PROVE  Right("films", q, roles)
<1>1. \A n \in DOMAIN q : /\ n \in {"limit", "offset", "cursor", "includes", "search"}
                          /\ Truthy(q, n)
    BY QueryFact DEF FilmQueryDto, PaginationQueryDto, With, Dto, Names
<1>2. Conditions(GetFilms(q)) =
          TruthyOf(q, {"search"})
          \cup ({"limit", "offset"} \cap DOMAIN q)
  <2> DEFINE r == <<IfTruthy(q, "name", "search")>>
             s == Paged(q)
  <2>1. IsList(r) /\ Fields(r) = {"name"}
      BY FilmsSay DEF Says
  <2>2. IsList(s) /\ Fields(s) = {"take", "skip"}
      BY PagedSays DEF Says
  <2>3. Conditions(GetFilms(q)) = Conditions(r) \cup Conditions(s)
      BY <2>1, <2>2, TwoAsk DEF GetFilms
  <2>4. QED
      BY <2>3, FilmsSay, PagedSays DEF Says
<1>3. QED
    BY <1>1, <1>2 DEF Right, Service, NeverHeard, Endpoint, Silenced, OwnOnly, TruthyOf, Truthy, Given

LEMMA PremieresRight ==
    ASSUME NEW q, NEW roles, IsQuery(FilmPremiereQueryDto, q)
    PROVE  Right("premieres", q, roles)
<1>1. \A n \in DOMAIN q : /\ n \in {"limit", "offset", "cursor", "includes", "search", "startDate",
                                   "endDate", "ownerId"}
                          /\ Truthy(q, n)
    BY QueryFact DEF FilmPremiereQueryDto, FilmQueryDto, PaginationQueryDto, With, Dto, Names
<1>2. Conditions(GetFilmPremieres(q)) =
          TruthyOf(q, {"search", "startDate", "endDate", "ownerId"})
          \cup ({"limit", "offset"} \cap DOMAIN q)
  <2> DEFINE r == <<IfTruthy(q, "name", "search"), IfTruthy(q, "from", "startDate"),
                    IfTruthy(q, "to", "endDate"), IfTruthy(q, "ownerId", "ownerId")>>
             s == Paged(q)
  <2>1. IsList(r) /\ Fields(r) = {"name", "from", "to", "ownerId"}
      BY PremieresSay DEF Says
  <2>2. IsList(s) /\ Fields(s) = {"take", "skip"}
      BY PagedSays DEF Says
  <2>3. Conditions(GetFilmPremieres(q)) = Conditions(r) \cup Conditions(s)
      BY <2>1, <2>2, TwoAsk DEF GetFilmPremieres
  <2>4. QED
      BY <2>3, PremieresSay, PagedSays DEF Says
<1>3. QED
    BY <1>1, <1>2 DEF Right, Service, NeverHeard, Endpoint, Silenced, OwnOnly, TruthyOf, Truthy, Given

LEMMA PremieresOfFilmRight ==
    ASSUME NEW q, NEW roles, IsQuery(FilmPremiereQueryDto, q)
    PROVE  Right("premieresOfFilm", q, roles)
<1>1. \A n \in DOMAIN q : /\ n \in {"limit", "offset", "cursor", "includes", "search", "startDate",
                                   "endDate", "ownerId"}
                          /\ Truthy(q, n)
    BY QueryFact DEF FilmPremiereQueryDto, FilmQueryDto, PaginationQueryDto, With, Dto, Names
<1>2. Conditions(GetFilmPremieresById(q)) =
          TruthyOf(q, {"startDate", "endDate"})
    BY GetFilmPremieresByIdSays DEF Says
<1>3. QED
    BY <1>1, <1>2 DEF Right, Service, NeverHeard, Endpoint, Silenced, OwnOnly, TruthyOf, Truthy, Given

LEMMA ShowingsRight ==
    ASSUME NEW q, NEW roles, IsQuery(GetCinemaFilmsQueryDto, q)
    PROVE  Right("cinemaFilms", q, roles)
<1>1. \A n \in DOMAIN q : /\ n \in {"limit", "offset", "cursor", "film", "cinema", "room", "room-seats",
                                   "cinema-film-seats", "purchased-seats", "search"}
                          /\ Truthy(q, n)
    BY QueryFact DEF GetCinemaFilmsQueryDto, PaginationQueryDto, With, Dto, Names
<1>2. Conditions(FindAll(q)) =
          (TruthyOf(q, {"search"}) \cup {"own"})
          \cup (TruthyOf(q, {"film", "cinema", "room-seats", "cinema-film-seats"}) \cup {n \in {"room"} : Truthy(q, n) /\ ~ Truthy(q, "room-seats")})
          \cup ({"limit", "offset"} \cap DOMAIN q)
  <2> DEFINE r == <<Own, IfTruthy(q, "OR", "search")>>
             s == CinemaFilmInclude(q)
             t == Paged(q)
  <2>1. IsList(r) /\ Fields(r) = {"owner", "OR"}
      BY ShowingsSay DEF Says
  <2>2. IsList(s) /\ Fields(s) = {"Film", "Cinema", "Room", "CinemaFilmSeat"}
      BY CinemaFilmIncludeSays DEF Says
  <2>3. IsList(t) /\ Fields(t) = {"take", "skip"}
      BY PagedSays DEF Says
  <2>4. Conditions(FindAll(q)) = Conditions(r) \cup Conditions(s) \cup Conditions(t)
      BY <2>1, <2>2, <2>3, ThreeAsk DEF FindAll
  <2>5. QED
      BY <2>4, ShowingsSay, CinemaFilmIncludeSays, PagedSays DEF Says
<1>3. QED
    BY <1>1, <1>2 DEF Right, Service, NeverHeard, Endpoint, Silenced, OwnOnly, TruthyOf, Truthy, Given

LEMMA ShowingRight ==
    ASSUME NEW q, NEW roles, IsQuery(GetCinemaFilmsQueryDto, q)
    PROVE  Right("cinemaFilm", q, roles)
<1>1. \A n \in DOMAIN q : /\ n \in {"limit", "offset", "cursor", "film", "cinema", "room", "room-seats",
                                   "cinema-film-seats", "purchased-seats", "search"}
                          /\ Truthy(q, n)
    BY QueryFact DEF GetCinemaFilmsQueryDto, PaginationQueryDto, With, Dto, Names
<1>2. Conditions(GetCinemaFilmById(q, roles)) =
          {n \in {"own"} : "Moderator" \in roles}
          \cup (TruthyOf(q, {"film", "cinema", "room-seats", "cinema-film-seats"}) \cup {n \in {"room"} : Truthy(q, n) /\ ~ Truthy(q, "room-seats")})
          \cup TruthyOf(q, {"purchased-seats"})
  <2> DEFINE r == <<Set("owner", "own", "Moderator" \in roles)>>
             s == CinemaFilmInclude(q)
             t == Includes(q, <<"purchased-seats">>)
  <2>1. IsList(r) /\ Fields(r) = {"owner"}
      BY ShowingOwnSays DEF Says
  <2>2. IsList(s) /\ Fields(s) = {"Film", "Cinema", "Room", "CinemaFilmSeat"}
      BY CinemaFilmIncludeSays DEF Says
  <2>3. IsList(t) /\ Fields(t) = {"purchased-seats"}
      BY IncludesOneSays DEF Says
  <2>4. Conditions(GetCinemaFilmById(q, roles)) = Conditions(r) \cup Conditions(s) \cup Conditions(t)
      BY <2>1, <2>2, <2>3, ThreeAsk DEF GetCinemaFilmById
  <2>5. QED
      BY <2>4, ShowingOwnSays, CinemaFilmIncludeSays, IncludesOneSays DEF Says
<1>3. QED
    BY <1>1, <1>2 DEF Right, Service, NeverHeard, Endpoint, Silenced, OwnOnly, TruthyOf, Truthy, Given

LEMMA TicketsRight ==
    ASSUME NEW q, NEW roles, IsQuery(TicketQueryDto, q)
    PROVE  Right("tickets", q, roles)
<1>1. \A n \in DOMAIN q : /\ n \in {"limit", "offset", "cursor", "search", "startPremiereDate",
                                   "endPremiereDate", "sort"}
                          /\ Truthy(q, n)
    BY QueryFact DEF TicketQueryDto, PaginationQueryDto, With, Dto, Names, IsQuery, Refuses, Values
<1>2. Conditions(GetTickets(q, roles)) =
          (TruthyOf(q, {"search", "startPremiereDate", "endPremiereDate"}) \cup {n \in {"own"} : ~ IsAdmin(roles)} \cup {n \in {"accountId"} : IsAdmin(roles) /\ Truthy(q, n)})
          \cup {n \in {"sort"} : Truthy(q, n) /\ ~ IsAdmin(roles)}
          \cup ({"limit", "offset"} \cap DOMAIN q)
  <2> DEFINE r == GetTicketWhere(q, roles)
             s == <<Set("orderBy", "sort", Truthy(q, "sort") /\ ~ IsAdmin(roles))>>
             t == Paged(q)
  <2>1. IsList(r) /\ Fields(r) = {"accountId", "OR", "gte", "lte"}
      BY GetTicketWhereSays DEF Says
  <2>2. IsList(s) /\ Fields(s) = {"orderBy"}
      BY TicketSortSays DEF Says
  <2>3. IsList(t) /\ Fields(t) = {"take", "skip"}
      BY PagedSays DEF Says
  <2>4. Conditions(GetTickets(q, roles)) = Conditions(r) \cup Conditions(s) \cup Conditions(t)
      BY <2>1, <2>2, <2>3, ThreeAsk DEF GetTickets
  <2>5. QED
      BY <2>4, GetTicketWhereSays, TicketSortSays, PagedSays DEF Says
<1>3. QED
    BY <1>1, <1>2 DEF Right, Service, NeverHeard, Endpoint, Silenced, OwnOnly, TruthyOf, Truthy, Given

LEMMA FoodsRight ==
    ASSUME NEW q, NEW roles, IsQuery(FoodQueryDto, q)
    PROVE  Right("foods", q, roles)
<1>1. \A n \in DOMAIN q : /\ n \in {"limit", "offset", "cursor", "ids", "excludeId", "includes", "search",
                                   "cinemaId"}
                          /\ Truthy(q, n)
    BY QueryFact DEF FoodQueryDto, PaginationQueryDto, With, Dto, Names
<1>2. Conditions(GetAllFoods(q, roles)) =
          (TruthyOf(q, {"ids", "excludeId", "search", "cinemaId"}) \cup {n \in {"own"} : roles \cap {"Admin", "User"} = {}})
          \cup TruthyOf(q, {"includes"})
          \cup ({"limit", "offset"} \cap DOMAIN q)
  <2> DEFINE r == GetFoodWhere(q, roles)
             s == Includes(q, <<"includes">>)
             t == Paged(q)
  <2>1. IsList(r) /\ Fields(r) = {"owner", "id.in", "id.notIn", "OR", "cinemaId"}
      BY GetFoodWhereSays DEF Says
  <2>2. IsList(s) /\ Fields(s) = {"includes"}
      BY IncludesOneSays DEF Says
  <2>3. IsList(t) /\ Fields(t) = {"take", "skip"}
      BY PagedSays DEF Says
  <2>4. Conditions(GetAllFoods(q, roles)) = Conditions(r) \cup Conditions(s) \cup Conditions(t)
      BY <2>1, <2>2, <2>3, ThreeAsk DEF GetAllFoods
  <2>5. QED
      BY <2>4, GetFoodWhereSays, IncludesOneSays, PagedSays DEF Says
<1>3. QED
    BY <1>1, <1>2 DEF Right, Service, NeverHeard, Endpoint, Silenced, OwnOnly, TruthyOf, Truthy, Given

LEMMA FilesRight ==
    ASSUME NEW q, NEW roles, IsQuery(FileQueryDto, q)
    PROVE  Right("files", q, roles)
<1>1. \A n \in DOMAIN q : /\ n \in {"limit", "offset", "cursor", "ids"}
                          /\ Truthy(q, n)
    BY QueryFact DEF FileQueryDto, PaginationQueryDto, With, Dto, Names
<1>2. Conditions(ListFiles(q)) =
          (TruthyOf(q, {"ids"}) \cup {"own"})
          \cup ({"limit", "offset"} \cap DOMAIN q)
  <2> DEFINE r == <<Own, IfTruthy(q, "id", "ids")>>
             s == Paged(q)
  <2>1. IsList(r) /\ Fields(r) = {"owner", "id"}
      BY FilesSay DEF Says
  <2>2. IsList(s) /\ Fields(s) = {"take", "skip"}
      BY PagedSays DEF Says
  <2>3. Conditions(ListFiles(q)) = Conditions(r) \cup Conditions(s)
      BY <2>1, <2>2, TwoAsk DEF ListFiles
  <2>4. QED
      BY <2>3, FilesSay, PagedSays DEF Says
<1>3. QED
    BY <1>1, <1>2 DEF Right, Service, NeverHeard, Endpoint, Silenced, OwnOnly, TruthyOf, Truthy, Given

LEMMA ProfitRight ==
    ASSUME NEW q, NEW roles, IsQuery(AnalyticsQueryDto, q)
    PROVE  Right("profit", q, roles)
<1>1. \A n \in DOMAIN q : /\ n \in {"limit", "offset", "cursor", "startTime", "endTime"}
                          /\ Truthy(q, n)
    BY QueryFact DEF AnalyticsQueryDto, PaginationQueryDto, With, Dto, Names
<1>2. Conditions(GetProfit(q)) =
          ({"startTime", "endTime"} \cap DOMAIN q)
    BY GetProfitSays DEF Says
<1>3. QED
    BY <1>1, <1>2 DEF Right, Service, NeverHeard, Endpoint, Silenced, OwnOnly, TruthyOf, Truthy, Given

(* What is read with nothing to choose.                                    *)
LEMMA NoParameterRight ==
    ASSUME NEW q, NEW roles, IsQuery(NoDto, q),
           NEW e \in {"unread", "notification", "cinema", "ticket", "room", "roomsOfCinema",
                      "seatsOfRoom", "seat", "brand"}
    PROVE  Right(e, q, roles)
<1>1. DOMAIN q = {}
  <2>1. Names(NoDto) = {}
      BY DEF NoDto, Dto, Names
  <2>2. QED
      BY <2>1 DEF IsQuery
<1>2. CASE e \in {"unread", "notification", "room", "seatsOfRoom", "seat", "brand"}
  <2>1. Conditions(Service(e, q, roles)) = {"own"}
    <3>1. Service(e, q, roles) = <<Own>>
        BY <1>2 DEF Service, CountUnreadChats, GetNotificationById, GetByRoomId, GetSeatsOfRoom,
                    GetSeatById, GetCinemaBrandById
    <3>2. QED
        BY <3>1, OwnSays DEF Says
  <2>2. OwnOnly(e, q, roles)
      BY <1>2 DEF OwnOnly
  <2>3. QED
      BY <1>1, <2>1, <2>2 DEF Right
<1>3. CASE e \in {"cinema", "ticket", "roomsOfCinema"}
  <2>1. Conditions(Service(e, q, roles)) = {}
    <3>1. Service(e, q, roles) = <<>>
        BY <1>3 DEF Service, GetCinema, GetTicketById, GetRoomByCinemaId
    <3>2. DOMAIN <<>> = {}
        OBVIOUS
    <3>3. QED
        BY <3>1, <3>2 DEF Conditions
  <2>2. ~ OwnOnly(e, q, roles)
      BY <1>3 DEF OwnOnly
  <2>3. QED
      BY <1>1, <2>1, <2>2 DEF Right
<1>4. QED
    BY <1>2, <1>3

-----------------------------------------------------------------------------
(* The queries a caller can write are those the lemmas are about.          *)
LEMMA QueriesAreQueries ==
    ASSUME NEW d, NEW q \in Queries(d), ~ Refuses(d, q)
    PROVE  IsQuery(d, q)
<1>1. PICK names \in {g \in UNION {kSubset(k, Names(d)) : k \in 0 .. MostGiven} :
                          ~ {"sort", "relevance"} \subseteq g} :
          /\ q \in [names -> {"one", "many", "yes", "no"}]
          /\ \A n \in names : q[n] \in Values(d, n)
    BY DEF Queries
<1>2. PICK k \in 0 .. MostGiven : names \in kSubset(k, Names(d))
    BY <1>1
<1>3. names \subseteq Names(d) /\ DOMAIN q = names
    BY <1>1, <1>2 DEF kSubset
<1>4. QED
    BY <1>1, <1>3 DEF IsQuery

LEMMA EveryEndpointRight ==
    ASSUME NEW e \in DOMAIN Endpoint, NEW q, NEW roles, IsQuery(Endpoint[e], q)
    PROVE  Right(e, q, roles)
<1>1. CASE e = "accounts"
    BY <1>1, AccountsRight DEF Endpoint
<1>2. CASE e = "accountsCount"
    BY <1>2, AccountsCountRight DEF Endpoint
<1>3. CASE e = "reports"
    BY <1>3, ReportsRight DEF Endpoint
<1>4. CASE e = "verifications"
    BY <1>4, VerificationsRight DEF Endpoint
<1>5. CASE e = "verificationsCount"
    BY <1>5, VerificationsCountRight DEF Endpoint
<1>6. CASE e = "chats"
    BY <1>6, ChatsRight DEF Endpoint
<1>7. CASE e = "chat"
    BY <1>7, ChatRight DEF Endpoint
<1>8. CASE e = "participants"
    BY <1>8, ParticipantsRight DEF Endpoint
<1>9. CASE e = "messages"
    BY <1>9, MessagesRight DEF Endpoint
<1>10. CASE e = "reportsCount"
    BY <1>10, ReportsCountRight DEF Endpoint
<1>11. CASE e = "reportsStatistics"
    BY <1>11, ReportsStatisticsRight DEF Endpoint
<1>12. CASE e = "report"
    BY <1>12, ReportRight DEF Endpoint
<1>13. CASE e = "news"
    BY <1>13, NewsRight DEF Endpoint
<1>14. CASE e = "notifications"
    BY <1>14, NotificationsRight DEF Endpoint
<1>15. CASE e = "profiles"
    BY <1>15, ProfilesRight DEF Endpoint
<1>16. CASE e = "cinemas"
    BY <1>16, CinemasRight DEF Endpoint
<1>17. CASE e = "films"
    BY <1>17, FilmsRight DEF Endpoint
<1>18. CASE e = "premieres"
    BY <1>18, PremieresRight DEF Endpoint
<1>19. CASE e = "premieresOfFilm"
    BY <1>19, PremieresOfFilmRight DEF Endpoint
<1>20. CASE e = "cinemaFilms"
    BY <1>20, ShowingsRight DEF Endpoint
<1>21. CASE e = "cinemaFilm"
    BY <1>21, ShowingRight DEF Endpoint
<1>22. CASE e = "tickets"
    BY <1>22, TicketsRight DEF Endpoint
<1>23. CASE e = "foods"
    BY <1>23, FoodsRight DEF Endpoint
<1>24. CASE e = "files"
    BY <1>24, FilesRight DEF Endpoint
<1>25. CASE e = "profit"
    BY <1>25, ProfitRight DEF Endpoint
<1>26. CASE e \in {"unread", "notification", "cinema", "ticket", "room", "roomsOfCinema",
                   "seatsOfRoom", "seat", "brand"}
    BY <1>26, NoParameterRight DEF Endpoint
<1>27. QED
    BY <1>1, <1>2, <1>3, <1>4, <1>5, <1>6, <1>7, <1>8, <1>9, <1>10, <1>11, <1>12, <1>13, <1>14, <1>15, <1>16, <1>17, <1>18, <1>19, <1>20, <1>21, <1>22, <1>23, <1>24, <1>25, <1>26 DEF Endpoint

(* What is answered is what was asked, for every request.                  *)
LEMMA AskRight ==
    ASSUME RequestsNext
    PROVE  AnswersWhatWasAsked' /\ RequestsTyped'
<1>0. PICK e \in DOMAIN Endpoint : \E q \in Queries(Endpoint[e]), roles \in Callers : Ask(e, q, roles)
    BY DEF RequestsNext
<1>1. PICK q \in Queries(Endpoint[e]), roles \in Callers : Ask(e, q, roles)
    BY <1>0
<1>2. asked' = [of |-> e, gives |-> q, roles |-> roles]
    BY <1>1 DEF Ask
<1>3. CASE Refuses(Endpoint[e], q)
    BY <1>1, <1>2, <1>3 DEF Ask, AnswersWhatWasAsked, RequestsTyped
<1>4. CASE ~ Refuses(Endpoint[e], q)
  <2>1. Right(e, q, roles)
      BY <1>4, QueriesAreQueries, EveryEndpointRight
  <2>2. answer' = Conditions(Service(e, q, roles))
      BY <1>1, <1>4 DEF Ask
  <2>3. AnswersWhatWasAsked'
      BY <1>2, <2>1, <2>2 DEF Right, AnswersWhatWasAsked
  <2>4. DOMAIN q \subseteq Names(Endpoint[e])
      BY <1>4, QueriesAreQueries DEF IsQuery
  <2>5. answer' \subseteq Names(Endpoint[e]) \cup {"own", "others'", "refused"}
      BY <2>1, <2>2, <2>4 DEF Right
  <2>6. QED
      BY <1>2, <2>3, <2>5 DEF RequestsTyped
<1>5. QED
    BY <1>3, <1>4

LEMMA RequestsStep ==
    ASSUME AnswersWhatWasAsked, RequestsTyped, [RequestsNext]_requestVars
    PROVE  AnswersWhatWasAsked' /\ RequestsTyped'
BY AskRight DEF requestVars, AnswersWhatWasAsked, RequestsTyped

LEMMA RequestsStart ==
    ASSUME RequestsInit
    PROVE  AnswersWhatWasAsked /\ RequestsTyped
BY DEF RequestsInit, AnswersWhatWasAsked, RequestsTyped

(* No parameter is lost, and none lifts the restriction to the caller's    *)
(* rows, whatever is given together, however much of it, by whomever.      *)
THEOREM AnswersAlwaysFit == RequestsSpec => []AnswersWhatWasAsked
<1> DEFINE Inv == AnswersWhatWasAsked /\ RequestsTyped
<1>1. RequestsInit => Inv
    BY RequestsStart
<1>2. Inv /\ [RequestsNext]_requestVars => Inv'
    BY RequestsStep
<1>3. QED
    BY <1>1, <1>2, PTL DEF RequestsSpec

(* What is asked is a request of an endpoint; what the database is asked   *)
(* for is parameters of that endpoint, and whose rows.                     *)
THEOREM RequestsTypeCorrect == RequestsSpec => []RequestsTyped
<1> DEFINE Inv == AnswersWhatWasAsked /\ RequestsTyped
<1>1. RequestsInit => Inv
    BY RequestsStart
<1>2. Inv /\ [RequestsNext]_requestVars => Inv'
    BY RequestsStep
<1>3. QED
    BY <1>1, <1>2, PTL DEF RequestsSpec

-----------------------------------------------------------------------------
(***************************************************************************)
(* The parts together.                                                     *)
(***************************************************************************)

(* Every part of the composition behaves by its own specification: a step  *)
(* of one leaves what the others keep alone.                               *)
THEOREM PartsBehave ==
    Spec => PlanSpec /\ DeskSpec /\ StandSpec /\ CardsSpec /\ RequestsSpec /\ SessionSpec /\ SeedSpec
<1>1. Init => PlanInit /\ DeskInit /\ StandInit /\ CardsInit /\ RequestsInit /\ SessionInit /\ SeedInit
    BY DEF Init
<1>2. [Next]_vars => /\ [PlanNext]_planVars /\ [DeskNext]_deskVars /\ [StandNext]_standVars
                     /\ [CardsNext]_cardVars /\ [RequestsNext]_requestVars /\ [SessionNext]_sessionVars
                     /\ [SeedNext]_seedVars
  <2>1. ASSUME Next
        PROVE  /\ [PlanNext]_planVars /\ [DeskNext]_deskVars /\ [StandNext]_standVars
               /\ [CardsNext]_cardVars /\ [RequestsNext]_requestVars /\ [SessionNext]_sessionVars
               /\ [SeedNext]_seedVars
      BY <2>1 DEF Next
  <2>2. ASSUME UNCHANGED vars
        PROVE  UNCHANGED <<planVars, deskVars, standVars, cardVars, requestVars, sessionVars, seedVars>>
      BY <2>2 DEF vars
  <2>3. QED
      BY <2>1, <2>2
<1>3. QED
    BY <1>1, <1>2, PTL DEF Spec, PlanSpec, DeskSpec, StandSpec, CardsSpec, RequestsSpec, SessionSpec, SeedSpec

(* Together, the parts keep their types: every row refers to rows that are *)
(* there, and holds what its columns allow, whatever the numbers of calls, *)
(* rooms, items, news, profiles and accounts.                              *)
THEOREM AllTypeCorrect == Spec => []AllTyped
<1>1. PlanTyped /\ DeskTyped /\ StandTyped /\ CardsTyped /\ RequestsTyped /\ SessionTyped => AllTyped
    BY DEF AllTyped
<1>2. QED
    BY <1>1, PartsBehave, PlanTypeCorrect, DeskTypeCorrect, StandTypeCorrect, CardsTypeCorrect,
       RequestsTypeCorrect, SessionTypeCorrect, PTL

(* And they keep every promise a part makes on its own.                    *)
THEOREM AllPromisesKept ==
    Spec => /\ []ApartUnlessTogether /\ []OneBrandUnlessTogether /\ []NewestTellsUnlessOvertaken
            /\ LawfulUnlessContested /\ []ViewsCountViewers /\ []EveryNewsFetched /\ []ListsOfOneCall
            /\ []AnswersWhatWasAsked /\ []LetInOnRecentRoles /\ []SeedsUnlessDisturbed
BY PartsBehave, SeatsAndRoomsApart, OneBrandEach, NewestTells, StatusesFollow, ViewsAreOfViewers,
   PagesReachEveryNews, ListsAreWhole, AnswersAlwaysFit, RolesAreRecent, SeedsNeverFail, PTL

=============================================================================
