------------------------------ MODULE AuthProofs ------------------------------
(***************************************************************************)
(* Auth, for every set of tenants, subjects, roles, secrets and            *)
(* configurations, every requested lifetime, every word size and unit: the *)
(* lifetime of a token is bounded, a token is accepted until it expires,   *)
(* its identity has been granted, and an identity that has lapsed stays    *)
(* out.                                                                    *)
(***************************************************************************)
EXTENDS Auth, TLAPS

-------------------------------------------------------------------------------
(* The inductive invariant: the types of what clients and server hold, and *)
(* the two invariants about the tokens, which keep each other: a token is  *)
(* traded for one that carries the same identity under the same secret.    *)
(***************************************************************************)
TokenType == [subject : Subject \cup {"anonymous", "api-key"},
              tenant  : Tenant \cup {"default"},
              roles   : RoleSet \cup {DefaultRoles},
              iat : Nat, exp : Nat, key : Secret, via : {"issue", "tenant"}]

Typed == /\ clock \in Nat
         /\ config \in Config
         /\ issued \subseteq TokenType
         /\ approved \in Nat
         /\ restarts \in Nat

IInv == Typed /\ LifetimeIsBounded /\ ScopeComesFromGrant
-------------------------------------------------------------------------------
(* Time.                                                                   *)
LEMMA Units ==
    /\ Second \in Nat /\ Second > 0 /\ Word \in Nat
    /\ \A max \in {Hour, Day, Month} :
          /\ max \in Nat /\ max > 0
          /\ \E k \in Nat : max = k * Second
<1>1. Second \in Nat /\ Second > 0 /\ Word \in Nat
  BY TimeAssumption
<1>2. ASSUME NEW max \in {Hour, Day, Month}
      PROVE  max \in Nat /\ max > 0 /\ \E k \in Nat : max = k * Second
  <2>1. PICK k \in 1..(Word \div 2) : max = k * Second
    BY TimeAssumption
  <2>2. k \in Nat /\ k > 0
    BY <1>1, <2>1
  <2>3. k * Second \in Nat /\ k * Second > 0
    BY <1>1, <2>2
  <2>4. QED
    BY <2>1, <2>2, <2>3
<1>3. QED
  BY <1>1, <1>2

(* Whatever number is sent, the lifetime is positive and at most max.      *)
LEMMA WithinBounds ==
    ASSUME NEW d \in Int, NEW default \in Nat, NEW max \in Nat,
           0 < default, default <= max
    PROVE  Within(d, default, max) \in 1..max
BY DEF Within

LEMMA DurationIsInt == \A n \in Int : Duration(n) \in Int
<1> SUFFICES ASSUME NEW n \in Int PROVE Duration(n) \in Int
  OBVIOUS
<1>1. Word \in Nat /\ Word > 0 /\ n * Second \in Int
  BY Units, TimeAssumption
<1>2. QED
  BY <1>1 DEF Duration, Wrap

(* Whole seconds: rounding the two ends down does not stretch a lifetime   *)
(* beyond a maximum that is itself a number of seconds, and a second       *)
(* reading of the clock, later, shortens it.                               *)
LEMMA RoundedLifetime ==
    ASSUME NEW c \in Nat, NEW k \in Nat, NEW d \in 1..(k * Second),
           NEW later \in Nat, c <= later
    PROVE  /\ later \div Second \in Nat /\ (c + d) \div Second \in Nat
           /\ ((c + d) \div Second - later \div Second) * Second <= k * Second
<1> DEFINE q1 == later \div Second
<1> DEFINE q2 == (c + d) \div Second
<1>0. Second \in Nat /\ Second > 0 /\ k * Second \in Nat /\ d \in Nat
  BY Units
<1>1. q1 \in Nat /\ q2 \in Nat
  BY <1>0
<1>2. q1 * Second <= later /\ later < (q1 + 1) * Second
  BY <1>0
<1>3. q2 * Second <= c + d /\ c + d < (q2 + 1) * Second
  BY <1>0
<1>4. q2 - q1 <= k
  BY <1>0, <1>1, <1>2, <1>3
<1>5. QED
  BY <1>0, <1>1, <1>4

-------------------------------------------------------------------------------
(* Who a caller is.                                                        *)
LEMMA ConfigTyped == Typed => /\ config.secret \in Secret \cup {Blank}
                          /\ config.mode \in {"none", "simple", "jwt", "other"}
BY ConfigAssumption DEF Typed

LEMMA Modes ==
    ASSUME NEW cred
    PROVE  /\ config.mode = "jwt" => Authenticate(cred) = AuthenticateJWT(cred.bearer)
           /\ config.mode = "simple" => Authenticate(cred) = AuthenticateKey(cred.key)
           /\ config.mode \notin {"jwt", "simple"} => Authenticate(cred) = Anonymous
BY DEF Authenticate

LEMMA NoTokenIsNoToken ==
    ASSUME Typed, NEW t \in issued
    PROVE  t # NoToken /\ t.subject # Blank /\ t.tenant # Blank
<1>1. t \in TokenType
  BY DEF Typed
<1>2. t.subject # Blank /\ t.tenant # Blank
  BY <1>1, ConfigAssumption DEF TokenType
<1>3. NoToken.subject = Blank
  BY DEF NoToken
<1>4. QED
  BY <1>2, <1>3

LEMMA Callers ==
    ASSUME Typed, NEW cred \in Credential, Authenticate(cred) # Refused
    PROVE  \/ Authenticate(cred) \in {Anonymous, ApiKeyHolder}
           \/ \E t \in issued : Verified(t) /\ Authenticate(cred) = IdentityOf(t)
<1>1. cred.bearer \in issued \cup {NoToken}
  BY DEF Credential
<1>2. CASE config.mode = "jwt"
  <2>1. Authenticate(cred) = AuthenticateJWT(cred.bearer)
    BY <1>2, Modes
  <2>2. /\ cred.bearer # NoToken /\ Verified(cred.bearer)
        /\ Authenticate(cred) = IdentityOf(cred.bearer)
    BY <2>1 DEF AuthenticateJWT
  <2>3. QED
    BY <1>1, <2>2
<1>3. CASE config.mode = "simple"
  BY <1>3, Modes DEF AuthenticateKey
<1>4. CASE config.mode \notin {"jwt", "simple"}
  BY <1>4, Modes
<1>5. QED
  BY <1>2, <1>3, <1>4

IdentityType == [subject : Subject \cup {"anonymous", "api-key"},
                 tenant  : Tenant \cup {"default"},
                 roles   : RoleSet \cup {DefaultRoles}]

LEMMA FixedIdentities == Anonymous \in IdentityType /\ ApiKeyHolder \in IdentityType
BY DEF Anonymous, ApiKeyHolder, Identity, IdentityType

LEMMA CallerType ==
    ASSUME Typed, NEW cred \in Credential, Authenticate(cred) # Refused
    PROVE  Authenticate(cred) \in IdentityType
<1>1. \A t \in issued : IdentityOf(t) \in IdentityType
  BY DEF Typed, TokenType, IdentityOf, Identity, IdentityType
<1>2. QED
  BY <1>1, Callers, FixedIdentities

-------------------------------------------------------------------------------
(* What a new token says.                                                  *)
LEMMA NewToken ==
    ASSUME Typed, HasIssuer, NEW id \in IdentityType, NEW via \in {"issue", "tenant"},
           NEW max, max = (IF via = "issue" THEN Day ELSE Month), NEW d \in 1..max,
           NEW signed \in Nat, clock <= signed, NEW t, t = Token(id, d, via, signed)
    PROVE  /\ t \in TokenType
           /\ (t.exp - t.iat) * Second <= max
           /\ t.key = config.secret
           /\ t.via = via
           /\ IdentityOf(t) = id
<1>1. config.secret \in Secret
  BY ConfigTyped DEF HasIssuer
<1>2. PICK k \in Nat : max = k * Second
  BY Units
<1>3. /\ d \in Nat /\ d > 0 /\ d \in 1..(k * Second)
  BY <1>2, Units
<1>4. t.iat = signed \div Second /\ t.exp = (clock + d) \div Second
  BY <1>3 DEF Token
<1>5. /\ t.iat \in Nat /\ t.exp \in Nat
      /\ (t.exp - t.iat) * Second <= max
  BY <1>2, <1>3, <1>4, RoundedLifetime DEF Typed
<1>6. t = [subject |-> id.subject, tenant |-> id.tenant, roles |-> id.roles,
           iat |-> t.iat, exp |-> t.exp, key |-> config.secret, via |-> via]
  BY DEF Token
<1>7. t \in TokenType
  BY <1>1, <1>5, <1>6 DEF TokenType, IdentityType
<1>8. IdentityOf(t) = id
  BY <1>6 DEF IdentityOf, Identity, IdentityType
<1>9. QED
  BY <1>5, <1>6, <1>7, <1>8

LEMMA AuthIssueHandsOut ==
    ASSUME Typed, NEW cred \in Credential, NEW n \in Lifetime, AuthIssue(cred, n)
    PROVE  /\ clock' \in Nat /\ clock <= clock'
           /\ \E d \in 1..Day :
                 issued' = issued \cup {Token(Authenticate(cred), d, "issue", clock')}
<1>1. Duration(n) \in Int
  BY DurationIsInt, TimeAssumption
<1>2. Within(Duration(n), Hour, Day) \in 1..Day
  BY <1>1, WithinBounds, Units, TimeAssumption
<1>3. QED
  BY <1>2, BoundAssumption DEF AuthIssue, HandOut, Typed

LEMMA CreateTenantHandsOut ==
    ASSUME Typed, NEW req \in Request, CreateTenant(req)
    PROVE  /\ clock' \in Nat /\ clock <= clock'
           /\ \E id \in IdentityType, d \in 1..Month :
                 /\ issued' = issued \cup {Token(id, d, "tenant", clock')}
                 /\ grants' = grants \cup {<<config.secret, id>>}
<1> DEFINE id == Identity(req.subject, req.tenant, RolesOf(req))
<1>1. req.expires_in \in Lifetime
  BY DEF Request
<1>2. Duration(req.expires_in) \in Int
  BY <1>1, DurationIsInt, TimeAssumption
<1>3. Within(Duration(req.expires_in), Day, Month) \in 1..Month
  BY <1>2, WithinBounds, Units, TimeAssumption
<1>4. id \in IdentityType
  BY DEF CreateTenant, IsComplete, Request, RolesOf, Identity, IdentityType
<1>5. QED
  BY <1>3, <1>4, BoundAssumption DEF CreateTenant, HandOut, Typed

-------------------------------------------------------------------------------
LEMMA InitIInv == Init => IInv
BY DEF Init, IInv, Typed, LifetimeIsBounded, ScopeComesFromGrant

(* A step that hands out no token keeps all that is said of the tokens.    *)
LEMMA SameTokens ==
    ASSUME IInv, issued' = issued, grants' = grants, Typed'
    PROVE  IInv'
BY DEF IInv, LifetimeIsBounded, ScopeComesFromGrant, IdentityOf, Identity, Anonymous,
       ApiKeyHolder

LEMMA AuthIssueStep ==
    ASSUME IInv, NEW cred \in Credential, NEW n \in Lifetime, AuthIssue(cred, n)
    PROVE  IInv'
<1> USE DEF IInv
<1> DEFINE caller == Authenticate(cred)
<1>1. caller # Refused /\ HasIssuer
      /\ UNCHANGED <<config, grants, approved, restarts>>
  BY DEF AuthIssue
<1>2. PICK d \in 1..Day : issued' = issued \cup {Token(caller, d, "issue", clock')}
  BY AuthIssueHandsOut
<1> DEFINE new == Token(caller, d, "issue", clock')
<1>3. caller \in IdentityType
  BY <1>1, CallerType
<1>4. /\ new \in TokenType /\ new.key = config.secret /\ new.via = "issue"
      /\ (new.exp - new.iat) * Second <= Day
      /\ IdentityOf(new) = caller
  BY <1>1, <1>3, AuthIssueHandsOut, NewToken
<1> HIDE DEF new
<1>5. <<new.key, IdentityOf(new)>> \in grants \/ IdentityOf(new) \in {Anonymous, ApiKeyHolder}
  BY <1>1, <1>4, Callers DEF ScopeComesFromGrant, Verified
<1>6. Typed'
  BY <1>1, <1>2, <1>4, AuthIssueHandsOut DEF Typed, new
<1>7. LifetimeIsBounded'
  BY <1>2, <1>4 DEF LifetimeIsBounded, new
<1>8. ScopeComesFromGrant'
  BY <1>1, <1>2, <1>5 DEF ScopeComesFromGrant, new
<1>9. QED
  BY <1>6, <1>7, <1>8

LEMMA CreateTenantStep ==
    ASSUME IInv, NEW req \in Request, CreateTenant(req)
    PROVE  IInv'
<1> USE DEF IInv
<1>1. HasIssuer /\ approved' = approved + 1 /\ UNCHANGED <<config, restarts>>
  BY DEF CreateTenant
<1>2. PICK id \in IdentityType, d \in 1..Month :
          /\ issued' = issued \cup {Token(id, d, "tenant", clock')}
          /\ grants' = grants \cup {<<config.secret, id>>}
  BY CreateTenantHandsOut
<1> DEFINE new == Token(id, d, "tenant", clock')
<1>3. /\ new \in TokenType /\ new.key = config.secret /\ new.via = "tenant"
      /\ (new.exp - new.iat) * Second <= Month
      /\ IdentityOf(new) = id
  BY <1>1, CreateTenantHandsOut, NewToken
<1> HIDE DEF new
<1>4. Typed'
  BY <1>1, <1>2, <1>3, CreateTenantHandsOut DEF Typed, new
<1>5. LifetimeIsBounded'
  BY <1>2, <1>3 DEF LifetimeIsBounded, new
<1>6. ScopeComesFromGrant'
  BY <1>2, <1>3 DEF ScopeComesFromGrant, new
<1>7. QED
  BY <1>4, <1>5, <1>6

LEMMA NextIInv == IInv /\ [Next]_vars => IInv'
<1> SUFFICES ASSUME IInv, [Next]_vars PROVE IInv'
  OBVIOUS
<1>1. ASSUME NEW cred \in Credential, NEW n \in Lifetime, AuthIssue(cred, n) PROVE IInv'
  BY <1>1, AuthIssueStep
<1>2. ASSUME NEW req \in Request, CreateTenant(req) PROVE IInv'
  BY <1>2, CreateTenantStep
<1>3. CASE Tick
  BY <1>3, SameTokens DEF Tick, IInv, Typed
<1>4. ASSUME NEW c \in Config, Restart(c) PROVE IInv'
  BY <1>4, SameTokens DEF Restart, IInv, Typed
<1>5. CASE UNCHANGED vars
  BY <1>5, SameTokens DEF vars, IInv, Typed
<1>6. QED
  BY <1>1, <1>2, <1>3, <1>4, <1>5 DEF Next

LEMMA InductiveInvariant == Spec => []IInv
<1>1. Init => IInv
  BY InitIInv
<1>2. IInv /\ [Next]_vars => IInv'
  BY NextIInv
<1>3. QED
  BY <1>1, <1>2, PTL DEF Spec

-------------------------------------------------------------------------------
(* No request, not even one whose lifetime overflows int64, gets a token   *)
(* that outlives the maximum of its endpoint.                              *)
THEOREM LifetimesAreBounded == Spec => []LifetimeIsBounded
BY InductiveInvariant, PTL DEF IInv

(* The identity in a token is one that was granted under its secret.       *)
THEOREM ScopesAreGranted == Spec => []ScopeComesFromGrant
BY InductiveInvariant, PTL DEF IInv

(* A live token is worth its identity.                                     *)
THEOREM LiveTokensAreAccepted == Spec => []JWTIsAccepted
<1>1. IInv => JWTIsAccepted
  <2> SUFFICES ASSUME Typed, config.mode = "jwt", NEW t \in issued, Live(t)
               PROVE  Authenticate([key |-> FALSE, bearer |-> t]) = IdentityOf(t)
    BY DEF IInv, JWTIsAccepted
  <2>1. Authenticate([key |-> FALSE, bearer |-> t]) = AuthenticateJWT(t)
    BY Modes
  <2>2. t # NoToken /\ t.subject # Blank /\ t.tenant # Blank /\ Verified(t)
    BY NoTokenIsNoToken DEF Live, Verified
  <2>3. QED
    BY <2>1, <2>2 DEF AuthenticateJWT
<1>2. QED
  BY <1>1, InductiveInvariant, PTL

(* Refreshing needs a token that is still live, at every step.             *)
THEOREM LapsedIdentitiesStayOut == Spec => LapsedStaysLapsed
<1> DEFINE A == \A subject \in Subject, tenant \in Tenant :
                    ~IsFixed(subject, tenant) /\ ~Held(subject, tenant) /\ Held(subject, tenant)'
                        => config' # config \/ approved' > approved
<1>1. IInv /\ [Next]_vars => [A]_vars
  <2> SUFFICES ASSUME IInv, Next,
                      NEW subject \in Subject, NEW tenant \in Tenant,
                      ~IsFixed(subject, tenant), ~Held(subject, tenant),
                      Held(subject, tenant)', config' = config, ~(approved' > approved)
               PROVE  FALSE
    OBVIOUS
  <2>1. PICK t \in issued' : /\ t.subject = subject /\ t.tenant = tenant
                             /\ t.key = config.secret /\ clock' < t.exp * Second
    BY DEF Held, Live
  <2>2. ASSUME t \in issued, clock <= clock' PROVE FALSE
    <3>1. t \in TokenType /\ t.exp \in Nat
      BY <2>2 DEF IInv, Typed, TokenType
    <3>2. Second \in Nat /\ clock \in Int
      BY Units DEF IInv, Typed
    <3>3. t.exp * Second \in Int /\ clock' \in Int
      BY <2>1, <2>2, <3>1, <3>2, NextIInv DEF IInv, Typed
    <3>4. clock < t.exp * Second
      BY <2>1, <2>2, <3>2, <3>3
    <3>5. QED
      BY <2>1, <2>2, <3>4 DEF Held, Live
  <2>3. ASSUME NEW cred \in Credential, NEW n \in Lifetime, AuthIssue(cred, n)
        PROVE  FALSE
    <3> DEFINE caller == Authenticate(cred)
    <3>1. caller # Refused /\ HasIssuer /\ clock' \in Nat /\ clock <= clock'
      BY <2>3, AuthIssueHandsOut DEF AuthIssue, IInv
    <3>2. PICK d \in 1..Day : issued' = issued \cup {Token(caller, d, "issue", clock')}
      BY <2>3, AuthIssueHandsOut DEF IInv
    <3>3. caller \in IdentityType
      BY <3>1, CallerType DEF IInv
    <3>4. t = Token(caller, d, "issue", clock')
      BY <2>1, <2>2, <3>1, <3>2
    <3>5. IdentityOf(t) = caller
      BY <3>1, <3>3, <3>4, NewToken DEF IInv
    <3>6. caller.subject = subject /\ caller.tenant = tenant
      BY <2>1, <3>5 DEF IdentityOf, Identity
    <3>7. CASE caller \in {Anonymous, ApiKeyHolder}
      BY <3>6, <3>7 DEF IsFixed
    <3>8. ASSUME NEW u \in issued, Verified(u), caller = IdentityOf(u) PROVE FALSE
      <4>1. u.subject = subject /\ u.tenant = tenant
        BY <3>6, <3>8 DEF IdentityOf, Identity
      <4>2. QED
        BY <3>8, <4>1 DEF Held, Live, Verified
    <3>9. QED
      BY <3>1, <3>7, <3>8, Callers DEF IInv
  <2>4. ASSUME NEW req \in Request, CreateTenant(req) PROVE FALSE
    BY <2>4 DEF CreateTenant, IInv, Typed
  <2>5. CASE Tick
    BY <2>1, <2>2, <2>5 DEF Tick, IInv, Typed
  <2>6. ASSUME NEW c \in Config, Restart(c) PROVE FALSE
    BY <2>1, <2>2, <2>6 DEF Restart, IInv, Typed
  <2>7. QED
    BY <2>3, <2>4, <2>5, <2>6 DEF Next
<1>2. QED
  BY <1>1, InductiveInvariant, PTL DEF Spec, LapsedStaysLapsed
===============================================================================
