---------------------------------- MODULE Auth --------------------------------
(***************************************************************************)
(* Credentials of ingest-api: the authenticator and the issuer main builds *)
(* from AUTH_MODE and AUTH_JWT_SECRET, and the two endpoints that hand out *)
(* tokens.                                                                 *)
(*                                                                         *)
(*   POST /tenants      an administrator provisions an identity            *)
(*   POST /auth/issue   a caller trades its credential for a token that    *)
(*                      carries the same identity, again and again         *)
(*                                                                         *)
(* The server keeps no record of the tokens: they live with the clients,   *)
(* across restarts that may change the mode and the secret, until their    *)
(* time is over.  A lifetime is asked for in seconds and computed in       *)
(* nanoseconds of int64; here a second is Second units, the word Word, and *)
(* the clock counts units.  golang-jwt is modelled from its use here.      *)
(***************************************************************************)
EXTENDS Integers, FiniteSets

CONSTANTS Tenant, Subject,  \* what administrators provision
          RoleSet,          \* sets of roles
          NoRoles,          \* the empty one
          Blank,            \* the empty string
          Secret,           \* the secrets AUTH_JWT_SECRET has had
          Config,           \* the configurations the server is started with
          Lifetime,         \* the values of expires_in clients send
          Second, Hour, Day, Month, Word,
          MaxLag,           \* bound on the time between two readings of the clock
          MaxClock, MaxTokens, MaxApproved, MaxRestarts   \* bounds

ASSUME ConfigAssumption ==
    /\ Config \subseteq [mode : {"none", "simple", "jwt", "other"}, secret : Secret \cup {Blank}]
    /\ Blank \notin Secret
    /\ Blank \notin Tenant \cup {"default"}
    /\ Blank \notin Subject \cup {"anonymous", "api-key"}

ASSUME NoRolesAssumption == NoRoles \notin RoleSet

ASSUME TimeAssumption ==
    /\ Second \in Nat \ {0} /\ Word \in Nat
    /\ Lifetime \subseteq Int
    /\ {Hour, Day, Month} \subseteq {n * Second : n \in 1..(Word \div 2)}
    /\ Hour <= Day /\ Day <= Month /\ 2 * Month < Word

ASSUME BoundAssumption == /\ MaxLag \in Nat /\ MaxClock \in Nat /\ MaxTokens \in Nat
                          /\ MaxApproved \in Nat /\ MaxRestarts \in Nat

VARIABLES clock,      \* time.Now, in units
          config,     \* the configuration the server runs with
          issued,     \* the tokens clients hold
          grants,     \* history: <<secret, identity>> provisioned under it
          approved,   \* history: how often an administrator did that
          restarts    \* how often the server was restarted

vars == <<clock, config, issued, grants, approved, restarts>>

DefaultRoles == "writer,reader"

Identity(subject, tenant, roles) == [subject |-> subject, tenant |-> tenant, roles |-> roles]

Anonymous == Identity("anonymous", "default", DefaultRoles)

ApiKeyHolder == Identity("api-key", "default", DefaultRoles)

IdentityOf(t) == Identity(t.subject, t.tenant, t.roles)

(* main ends the process when AUTH_MODE=jwt comes without a secret.        *)
Starts(c) == ~(c.mode = "jwt" /\ c.secret = Blank)

Init ==
    /\ clock = 0
    /\ config \in {c \in Config : Starts(c)}
    /\ issued = {}
    /\ grants = {}
    /\ approved = 0
    /\ restarts = 0

-------------------------------------------------------------------------------
(* A request carries an API key or none, and a Bearer token or none.       *)
NoToken == [subject |-> Blank]

Credential == [key : BOOLEAN, bearer : issued \cup {NoToken}]

Refused == [subject |-> Blank]

(* Mutant: only the signature is checked.                                  *)
VerifiedWithoutExpiry(t) == t.key = config.secret

(* ParseWithClaims: our signature, and exp still to come.                  *)
Verified(t) == t.key = config.secret /\ clock < t.exp * Second

(* Mutant: the roles claim is not read.                                    *)
AuthenticateJWTWithoutRoles(t) ==
    IF t # NoToken /\ Verified(t) /\ t.subject # Blank /\ t.tenant # Blank
    THEN Identity(t.subject, t.tenant, DefaultRoles)
    ELSE Refused

AuthenticateJWT(t) ==
    IF t # NoToken /\ Verified(t) /\ t.subject # Blank /\ t.tenant # Blank
    THEN IdentityOf(t)
    ELSE Refused

AuthenticateKey(valid) == IF valid THEN ApiKeyHolder ELSE Refused

(* buildAuthenticator: one authenticator, which looks at one header; an    *)
(* unknown mode is "none".                                                 *)
Authenticate(cred) ==
    CASE config.mode = "jwt"    -> AuthenticateJWT(cred.bearer)
      [] config.mode = "simple" -> AuthenticateKey(cred.key)
      [] OTHER                  -> Anonymous

(* buildIssuer: there is an issuer when there is a secret.                 *)
HasIssuer == config.secret # Blank

-------------------------------------------------------------------------------
(* int64 arithmetic: time.Duration(n) * time.Second.                       *)
Wrap(n) == ((n + Word \div 2) % Word) - Word \div 2

Duration(n) == Wrap(n * Second)

(* Mutant: only the absent and the negative are replaced.                  *)
AtLeast(d, default, max) == IF d <= 0 THEN default ELSE d

Within(d, default, max) == IF d <= 0 THEN default ELSE IF d > max THEN max ELSE d

(* Issue: the claims of a new token.  NumericDate has whole seconds.       *)
(* expiresAt is d after one reading of the clock; iat is a second reading, *)
(* signed.  (via is history: the endpoint that handed it out.)             *)
Token(identity, d, via, signed) ==
    LET expiry == IF d <= 0 THEN Hour ELSE d
    IN  [subject |-> identity.subject, tenant |-> identity.tenant, roles |-> identity.roles,
         iat |-> signed \div Second, exp |-> (clock + expiry) \div Second,
         key |-> config.secret, via |-> via]

(* Time passes between the two readings.                                   *)
HandOut(identity, d, via) ==
    /\ Cardinality(issued) < MaxTokens
    /\ \E lag \in 0..MaxLag :
           /\ clock + lag <= MaxClock
           /\ clock' = clock + lag
           /\ issued' = issued \cup {Token(identity, d, via, clock + lag)}

(* POST /auth/issue: the middleware answers 401 without an identity, the   *)
(* handler 501 without an issuer.                                          *)
AuthIssue(cred, n) ==
    LET caller == Authenticate(cred)
    IN  /\ caller # Refused
        /\ HasIssuer
        /\ HandOut(caller, Within(Duration(n), Hour, Day), "issue")
        /\ UNCHANGED <<config, grants, approved, restarts>>

(* What an administrator may ask for in POST /tenants.                     *)
Request == [subject : Subject \cup {Blank}, tenant : Tenant \cup {Blank},
            roles : RoleSet \cup {NoRoles}, expires_in : Lifetime]

RolesOf(req) == IF req.roles = NoRoles THEN DefaultRoles ELSE req.roles

(* Mutant: the tenant may be left out.                                     *)
NamesSubject(req) == req.subject # Blank

IsComplete(req) == req.tenant # Blank /\ req.subject # Blank

(* POST /tenants: 401 without the admin key, 400 for an incomplete body.   *)
(* Without an issuer the answer is a hint, and there is no tenant.         *)
CreateTenant(req) ==
    LET identity == Identity(req.subject, req.tenant, RolesOf(req))
    IN  /\ IsComplete(req)
        /\ HasIssuer
        /\ HandOut(identity, Within(Duration(req.expires_in), Day, Month), "tenant")
        /\ grants' = grants \cup {<<config.secret, identity>>}
        /\ approved < MaxApproved
        /\ approved' = approved + 1
        /\ UNCHANGED <<config, restarts>>

-------------------------------------------------------------------------------
Tick == /\ clock < MaxClock
        /\ clock' = clock + 1
        /\ UNCHANGED <<config, issued, grants, approved, restarts>>

(* The server is started again, with a configuration it accepts.           *)
Restart(c) ==
    /\ Starts(c)
    /\ restarts < MaxRestarts
    /\ restarts' = restarts + 1
    /\ config' = c
    /\ UNCHANGED <<clock, issued, grants, approved>>

Next == \/ \E cred \in Credential, n \in Lifetime : AuthIssue(cred, n)
        \/ \E req \in Request : CreateTenant(req)
        \/ Tick
        \/ \E c \in Config : Restart(c)

Spec == Init /\ [][Next]_vars

-------------------------------------------------------------------------------
(* The token is ours and its time is not over, said without the code.      *)
Live(t) == t.key = config.secret /\ clock < t.exp * Second

(* Whatever a client asks for, a negative number and one that wraps around *)
(* included, no token outlives the maximum of its endpoint, counted from   *)
(* its iat claim.  (It may have expired before that: a lifetime that wraps *)
(* to less than a second can be over at the second reading of the clock.)  *)
LifetimeIsBounded ==
    \A t \in issued :
        (t.exp - t.iat) * Second <= (IF t.via = "issue" THEN Day ELSE Month)

(* In JWT mode a token is worth its identity until it expires: the checks  *)
(* of the authenticator ask for nothing that the endpoints have let pass,  *)
(* also after a restart with the same secret.                              *)
JWTIsAccepted ==
    config.mode = "jwt" =>
        \A t \in issued : Live(t) =>
            Authenticate([key |-> FALSE, bearer |-> t]) = IdentityOf(t)

(* However often a token is traded for a new one and whatever mode and     *)
(* secret the server was restarted with, the identity in a token is one an *)
(* administrator has provisioned under that very secret, with those roles, *)
(* or one of the two fixed identities of the default tenant.               *)
ScopeComesFromGrant ==
    \A t \in issued : \/ <<t.key, IdentityOf(t)>> \in grants
                      \/ IdentityOf(t) \in {Anonymous, ApiKeyHolder}

(* A provisioned identity whose tokens have all expired stays out until an *)
(* administrator provisions again: "before it expires" is the last moment  *)
(* to refresh.  (A restart may bring back a secret; and whoever is         *)
(* provisioned under the name of a fixed identity is not kept out.)        *)
Held(subject, tenant) ==
    \E t \in issued : t.subject = subject /\ t.tenant = tenant /\ Live(t)

IsFixed(subject, tenant) ==
    \E id \in {Anonymous, ApiKeyHolder} : id.subject = subject /\ id.tenant = tenant

LapsedStaysLapsed ==
    [][\A subject \in Subject, tenant \in Tenant :
           ~IsFixed(subject, tenant) /\ ~Held(subject, tenant) /\ Held(subject, tenant)' =>
               config' # config \/ approved' > approved]_vars
===============================================================================
