---------------------- MODULE EnterpriseServices_proofs ----------------------
(***************************************************************************)
(* Proofs about the services, for any values of their constants.  A step   *)
(* of the server is a step of the service that is active and leaves the    *)
(* others as they are, so the inductive invariant of a service is one of   *)
(* the server.                                                             *)
(***************************************************************************)
EXTENDS EnterpriseServices, FiniteSetTheorems, WellFoundedInduction, TLAPS

LEMMA ServicesStep ==
  [Next]_vars =>
    /\ [RC!Next]_rcloneVars /\ [LD!Next]_ldapVars /\ [TK!Next]_topKVars
    /\ [KP!Next]_partitionVars /\ [EP!Next]_encryptionVars /\ [MQ!Next]_mqVars
    /\ [AM!Next]_maskVars /\ [SG!Next]_smartVars
BY DEF Next, vars, rcloneVars, ldapVars, topKVars, partitionVars, encryptionVars, mqVars,
       maskVars, smartVars

(***************************************************************************)
(* Numbers, induction and recursion.                                       *)
(***************************************************************************)

LEMMA DivisionLaw ==
  ASSUME NEW a \in Nat, NEW b \in Nat \ {0}
  PROVE  /\ a \div b \in Nat /\ a % b \in 0..(b - 1)
         /\ a = (a \div b) * b + (a % b)
OBVIOUS

LEMMA DivisionBound ==
  ASSUME NEW a \in Nat, NEW b \in Nat \ {0}, NEW c \in Nat, a < c * b
  PROVE  a \div b < c
<1>1. /\ a \div b \in Nat /\ a % b \in Nat
      /\ a = (a \div b) * b + (a % b)
  BY DivisionLaw
<1>2. SUFFICES ASSUME a \div b >= c PROVE FALSE
  BY <1>1
<1> DEFINE q == a \div b
<1> HIDE DEF q
<1>3. q \in Nat /\ q >= c /\ q * b <= a
  BY <1>1, <1>2 DEF q
<1>4. q * b >= c * b
  BY <1>3
<1>5. q * b \in Nat /\ c * b \in Nat
  BY <1>3
<1> QED
  BY <1>3, <1>4, <1>5

LEMMA DivisionInOrder ==
  ASSUME NEW a \in Nat, NEW b \in Nat, NEW n \in Nat \ {0}, a <= b
  PROVE  a \div n \in Nat /\ b \div n \in Nat /\ a \div n <= b \div n
<1> DEFINE q == b \div n
<1>1. q \in Nat /\ b % n \in 0..(n - 1) /\ b = q * n + (b % n) /\ a \div n \in Nat
  BY DivisionLaw
<1> HIDE DEF q
<1>2. b < (q + 1) * n /\ q + 1 \in Nat
  BY <1>1
<1>3. a < (q + 1) * n
  <2>1. (q + 1) * n \in Nat
    BY <1>1
  <2>. QED
    BY <1>2, <2>1
<1>4. a \div n < q + 1
  BY <1>2, <1>3, DivisionBound
<1>. QED
  BY <1>1, <1>4 DEF q

LEMMA ExactDivision ==
  ASSUME NEW a \in Nat, NEW n \in Nat \ {0}
  PROVE  (a * n) \div n = a
<1> DEFINE b == a * n
           d == b \div n
           r == b % n
<1>1. b \in Nat /\ b < (a + 1) * n
  <2>1. (a + 1) * n = a * n + n /\ a * n \in Nat
    OBVIOUS
  <2>. QED
    BY <2>1
<1>2. d \in Nat /\ r \in 0..(n - 1) /\ b = d * n + r
  <2> HIDE DEF b
  <2>. QED
    BY <1>1, DivisionLaw
<1>3. d < a + 1
  <2> HIDE DEF b
  <2>. QED
    BY <1>1, DivisionBound
<1> HIDE DEF d, r
<1>4. SUFFICES ASSUME d < a PROVE FALSE
  BY <1>2, <1>3 DEF d, b
<1>5. (d + 1) * n <= a * n /\ (d + 1) * n = d * n + n /\ d * n \in Nat /\ a * n \in Nat
  BY <1>2, <1>4
<1>. QED
  BY <1>2, <1>5

LEMMA LeastOf ==
  ASSUME NEW S \in SUBSET Nat, S # {}
  PROVE  \E n \in S : \A m \in S : n <= m
<1>1. PICK n \in S : \A m \in S : ~(<<m, n>> \in OpToRel(<, Nat))
  BY NatLessThanWellFounded, WFMin
<1>2. \A m \in S : ~(m < n)
  BY <1>1 DEF OpToRel
<1>. QED
  BY <1>2

(* Induction over the numbers up to n. *)
LEMMA StepByStep ==
  ASSUME NEW n \in Nat, NEW S, 0 \in S,
         \A m \in 0..(n - 1) : m \in S => m + 1 \in S
  PROVE  0..n \subseteq S
<1> DEFINE Missing == {m \in 0..n : m \notin S}
<1>1. SUFFICES ASSUME Missing # {}
               PROVE  FALSE
  OBVIOUS
<1>2. Missing \in SUBSET Nat
  OBVIOUS
<1>3. PICK k \in Missing : \A m \in Missing : k <= m
  BY <1>1, <1>2, LeastOf
<1>4. k - 1 \in 0..(n - 1) /\ k - 1 \in S
  BY <1>3
<1>5. (k - 1) + 1 \in S
  BY <1>4
<1> QED
  BY <1>3, <1>5

(* f is defined by recursion over the numbers up to n. *)
Recursive(f, n, D, base, step) ==
  /\ f \in [0..n -> D]
  /\ \A m \in 0..n : f[m] = IF m = 0 THEN base ELSE step[m][f[m - 1]]

(* There is such a function. *)
LEMMA RecursionExists ==
  ASSUME NEW n \in Nat, NEW D, NEW base \in D, NEW step \in [Nat -> [D -> D]]
  PROVE  \E f : Recursive(f, n, D, base, step)
<1> DEFINE Upto(k) == \E f \in [0..k -> D] :
             \A m \in 0..k : f[m] = IF m = 0 THEN base ELSE step[m][f[m - 1]]
           S == {k \in 0..n : Upto(k)}
<1>1. Upto(0)
  <2> DEFINE f == [m \in 0..0 |-> base]
  <2>1. f \in [0..0 -> D] /\ \A m \in 0..0 : m = 0 /\ f[m] = base
    OBVIOUS
  <2> HIDE DEF f
  <2>. QED
    BY <2>1
<1>2. ASSUME NEW k \in 0..(n - 1), Upto(k)
      PROVE  Upto(k + 1)
  <2>1. PICK f \in [0..k -> D] :
          \A m \in 0..k : f[m] = IF m = 0 THEN base ELSE step[m][f[m - 1]]
    BY <1>2
  <2> DEFINE g == [m \in 0..(k + 1) |-> IF m = k + 1 THEN step[m][f[k]] ELSE f[m]]
  <2>2. step[k + 1][f[k]] \in D
    OBVIOUS
  <2>3. g \in [0..(k + 1) -> D]
    BY <2>2
  <2>4. \A m \in 0..(k + 1) : g[m] = IF m = 0 THEN base ELSE step[m][g[m - 1]]
    <3>1. ASSUME NEW m \in 0..k
          PROVE  g[m] = f[m] /\ (m # 0 => g[m - 1] = f[m - 1])
      OBVIOUS
    <3>2. k + 1 # 0 /\ g[k + 1] = step[k + 1][f[k]] /\ g[k] = f[k] /\ (k + 1) - 1 = k
      OBVIOUS
    <3> HIDE DEF g
    <3>3. \A m \in 0..k : g[m] = IF m = 0 THEN base ELSE step[m][g[m - 1]]
      BY <2>1, <3>1
    <3>4. \A m \in 0..(k + 1) : m \in 0..k \/ m = k + 1
      OBVIOUS
    <3>. QED
      BY <3>2, <3>3, <3>4
  <2> HIDE DEF g
  <2>. QED
    BY <2>3, <2>4
<1> HIDE DEF Upto
<1>3. 0 \in S /\ \A m \in 0..(n - 1) : m \in S => m + 1 \in S
  BY <1>1, <1>2
<1> HIDE DEF S
<1>4. 0..n \subseteq S
  BY <1>3, StepByStep
<1>. QED
  BY <1>4 DEF Upto, S, Recursive

(***************************************************************************)
(* LDAPHandler.  The inductive invariant says which handles a request has  *)
(* at each of its steps, and that it holds a search result only between    *)
(* the search and the step that frees it.                                  *)
(***************************************************************************)

(* Where a request has its handle for a kind, and where it has secured it. *)
Has(kind) ==
  IF kind = "admin" THEN {"adminHandle", "adminReady", "searching", "searched"}
                    ELSE {"userHandle", "userReady", "bound", "fetched"}

Ready(kind) == Has(kind) \ {"adminHandle", "userHandle"}

(* A handle is open exactly while its own request is where it has it. *)
OpenWhileUsed ==
  \A r \in Requests, kind \in LD!Kinds : <<r, kind>> \in open <=> at[r] \in Has(kind)

(* What the configuration asks for is done when the handle is made, or     *)
(* before it is bound.                                                     *)
SecureWhenReady ==
  \A r \in Requests, kind \in LD!Kinds :
    /\ settings.useLDAPS /\ at[r] \in Has(kind) => <<r, kind>> \in secure
    /\ settings.useTLS /\ at[r] \in Ready(kind) => <<r, kind>> \in secure

BoundAsOwn ==
  \A r \in Requests, kind \in LD!Kinds : LD!UsesAs(r, kind) => bound[<<r, kind>>] = LD!Identity(r, kind)

ResultsInUse ==
  \A r \in Requests : "result" \in held[r] => at[r] \in {"searched", "fetched"}

LdapInv == LD!TypeOK /\ OpenWhileUsed /\ SecureWhenReady /\ BoundAsOwn /\ ResultsInUse

-----------------------------------------------------------------------------
LEMMA LdapInitInv == LD!Init => LdapInv
  BY DEF LD!Init, LdapInv, LD!TypeOK, OpenWhileUsed, SecureWhenReady, BoundAsOwn, ResultsInUse, Has, Ready,
         LD!UsesAs, LD!Handles, LD!Kinds

(* A step of one request that makes a handle, or fails to. *)
LEMMA InitializeInv ==
  ASSUME LdapInv, NEW r \in Requests, NEW kind \in LD!Kinds, NEW from, NEW to,
         <<kind, from, to>> \in {<<"user", "called", "userHandle">>,
                                 <<"admin", "called", "adminHandle">>,
                                 <<"user", "found", "userHandle">>},
         LD!Initialize(r, kind, from, to)
  PROVE  LdapInv'
<1>. USE DEF LD!Handle, LD!Kinds, LD!Handles, Has, Ready
<1>1. LD!TypeOK'
  BY DEF LdapInv, LD!TypeOK, OpenWhileUsed, LD!Initialize, LD!Goes, LD!Return
<1>2. /\ at[r] = from /\ at[r] \notin Has("admin") \cup Has("user")
      /\ \/ at' = [at EXCEPT ![r] = to] /\ open' = open \cup {<<r, kind>>}
         \/ at' = [at EXCEPT ![r] = "returned"] /\ open' = open
      /\ secure \subseteq secure'
      /\ settings.useLDAPS /\ <<r, kind>> \in open' => <<r, kind>> \in secure'
  BY DEF LD!Initialize, LD!Goes, LD!Return
<1>3. ASSUME NEW s \in Requests, NEW k \in LD!Kinds
      PROVE  /\ <<s, k>> \in open' <=> at'[s] \in Has(k)
             /\ settings.useLDAPS /\ at'[s] \in Has(k) => <<s, k>> \in secure'
             /\ settings.useTLS /\ at'[s] \in Ready(k) => <<s, k>> \in secure'
  <2>1. /\ <<s, k>> \in open <=> at[s] \in Has(k)
        /\ settings.useLDAPS /\ at[s] \in Has(k) => <<s, k>> \in secure
        /\ settings.useTLS /\ at[s] \in Ready(k) => <<s, k>> \in secure
    BY DEF LdapInv, OpenWhileUsed, SecureWhenReady
  <2>2. CASE s # r
    <3>1. at'[s] = at[s] /\ (<<s, k>> \in open' <=> <<s, k>> \in open)
      BY <1>2, <2>2 DEF LdapInv, LD!TypeOK
    <3>. QED BY <1>2, <2>1, <3>1
  <2>3. CASE s = r /\ k # kind
    <3>1. at'[s] \notin Has(k)
      BY <1>2, <2>3 DEF LdapInv, LD!TypeOK
    <3>2. <<s, k>> \in open' <=> <<s, k>> \in open
      BY <1>2, <2>3
    <3>3. <<s, k>> \notin open
      BY <1>2, <2>1, <2>3
    <3>. QED BY <3>1, <3>2, <3>3
  <2>4. CASE s = r /\ k = kind
    <3>1. at'[s] \notin Ready(k)
      BY <1>2, <2>4 DEF LdapInv, LD!TypeOK
    <3>2. <<s, k>> \notin open
      BY <1>2, <2>1, <2>4
    <3>3. <<s, k>> \in open' <=> at'[s] \in Has(k)
      BY <1>2, <2>4, <3>2 DEF LdapInv, LD!TypeOK
    <3>. QED BY <1>2, <2>4, <3>1, <3>3
  <2>. QED BY <2>2, <2>3, <2>4
<1>5. OpenWhileUsed' /\ SecureWhenReady'
  <2>1. settings' = settings
    BY DEF LD!Initialize
  <2>. QED BY <1>3, <2>1 DEF OpenWhileUsed, SecureWhenReady
<1>4. BoundAsOwn' /\ ResultsInUse'
  BY DEF LdapInv, LD!TypeOK, BoundAsOwn, ResultsInUse, LD!UsesAs, LD!Identity, LD!Initialize, LD!Goes, LD!Return
<1>. QED BY <1>1, <1>4, <1>5 DEF LdapInv

LEMMA StartTlsInv ==
  ASSUME LdapInv, NEW r \in Requests, NEW kind \in LD!Kinds, NEW from, NEW to,
         <<kind, from, to>> \in {<<"user", "userHandle", "userReady">>,
                                 <<"admin", "adminHandle", "adminReady">>},
         LD!StartTls(r, kind, from, to)
  PROVE  LdapInv'
<1>. USE DEF LD!Handle, LD!Kinds, LD!Handles, Has, Ready
<1>1. LD!TypeOK'
  BY DEF LdapInv, LD!TypeOK, OpenWhileUsed, LD!StartTls, LD!Goes
<1>2. OpenWhileUsed'
  BY DEF LdapInv, LD!TypeOK, OpenWhileUsed, LD!StartTls, LD!Goes
<1>3. SecureWhenReady'
  BY DEF LdapInv, LD!TypeOK, SecureWhenReady, LD!StartTls, LD!Goes
<1>4. BoundAsOwn' /\ ResultsInUse'
  BY DEF LdapInv, LD!TypeOK, BoundAsOwn, ResultsInUse, LD!UsesAs, LD!Identity, LD!StartTls, LD!Goes
<1>. QED BY <1>1, <1>2, <1>3, <1>4 DEF LdapInv

LEMMA BindInv ==
  ASSUME LdapInv, NEW r \in Requests, NEW kind \in LD!Kinds, NEW from, NEW to,
         <<kind, from, to>> \in {<<"user", "userReady", "bound">>,
                                 <<"admin", "adminReady", "searching">>},
         LD!Bind(r, kind, from, to)
  PROVE  LdapInv'
<1>. USE DEF LD!Handle, LD!Kinds, LD!Handles, Has, Ready
<1>1. LD!TypeOK'
  BY DEF LdapInv, LD!TypeOK, LD!Bind, LD!Goes, LD!Identity
<1>2. OpenWhileUsed' /\ SecureWhenReady'
  BY DEF LdapInv, LD!TypeOK, OpenWhileUsed, SecureWhenReady, LD!Bind, LD!Goes
<1>3. BoundAsOwn' /\ ResultsInUse'
  BY DEF LdapInv, LD!TypeOK, BoundAsOwn, ResultsInUse, LD!UsesAs, LD!Identity, LD!Bind, LD!Goes
<1>. QED BY <1>1, <1>2, <1>3 DEF LdapInv

(* A step that destroys a handle and leaves the places where it is had,    *)
(* with the results freed that were held there.                            *)
LEMMA UnbindInv ==
  ASSUME LdapInv, NEW r \in Requests, NEW kind \in LD!Kinds, NEW to \in {"found", "returned"},
         at[r] \in Has(kind), at' = [at EXCEPT ![r] = to],
         LD!Unbind(<<r, kind>>), UNCHANGED settings,
         outcome' \in [Requests -> {"none", "failed", "granted"}],
         \/ held' = [held EXCEPT ![r] = @ \ {"result"}]
         \/ held' = held /\ "result" \notin held[r]
  PROVE  LdapInv'
<1>. USE DEF LD!Kinds, LD!Handles, Has, Ready
<1>1. LD!TypeOK'
  BY DEF LdapInv, LD!TypeOK, LD!Unbind
<1>2. OpenWhileUsed'
  BY DEF LdapInv, LD!TypeOK, OpenWhileUsed, LD!Unbind
<1>3. SecureWhenReady'
  BY DEF LdapInv, LD!TypeOK, SecureWhenReady, LD!Unbind
<1>4. ASSUME NEW s \in Requests, NEW k \in LD!Kinds, LD!UsesAs(s, k)'
      PROVE  LD!UsesAs(s, k) /\ bound'[<<s, k>>] = bound[<<s, k>>]
  <2>1. s # r
    BY <1>4 DEF LD!UsesAs, LdapInv, LD!TypeOK
  <2>2. LD!UsesAs(s, k)
    BY <1>4, <2>1 DEF LD!UsesAs, LdapInv, LD!TypeOK
  <2>3. <<s, k>> # <<r, kind>> /\ <<s, k>> \in LD!Handles
    BY <2>1
  <2>. QED BY <2>2, <2>3 DEF LD!Unbind, LdapInv, LD!TypeOK
<1>6. BoundAsOwn'
  BY <1>4 DEF LdapInv, BoundAsOwn, LD!Identity
<1>5. ResultsInUse'
  BY DEF LdapInv, LD!TypeOK, ResultsInUse
<1>. QED BY <1>1, <1>2, <1>3, <1>5, <1>6 DEF LdapInv

(* A search, or the step that skips one. *)
LEMMA SearchInv ==
  ASSUME LdapInv, NEW r \in Requests, LD!SearchUser(r) \/ LD!FetchRoles(r) \/ LD!SkipRoles(r)
  PROVE  LdapInv'
<1>. USE DEF LD!Kinds, LD!Handles, Has, Ready
<1>1. /\ \/ at[r] = "searching" /\ at' = [at EXCEPT ![r] = "searched"]
         \/ at[r] = "bound" /\ at' = [at EXCEPT ![r] = "fetched"]
      /\ \E results \in {{}, {"result"}, {"resultOfFailure"}} :
           held' = [held EXCEPT ![r] = @ \cup results]
      /\ UNCHANGED <<settings, open, secure, bound, outcome>>
  <2>1. CASE LD!SkipRoles(r)
    <3>1. held = [held EXCEPT ![r] = @ \cup {}]
      BY DEF LdapInv, LD!TypeOK
    <3>. QED BY <2>1, <3>1 DEF LD!SkipRoles, LD!Goes
  <2>2. CASE LD!SearchUser(r) \/ LD!FetchRoles(r)
    BY <2>2 DEF LD!SearchUser, LD!FetchRoles, LD!Searched, LD!Goes
  <2>. QED BY <2>1, <2>2
<1>2. LD!TypeOK'
  BY <1>1 DEF LdapInv, LD!TypeOK
<1>3. OpenWhileUsed' /\ SecureWhenReady'
  BY <1>1 DEF LdapInv, LD!TypeOK, OpenWhileUsed, SecureWhenReady
<1>4. BoundAsOwn'
  <2>1. ASSUME NEW s \in Requests, NEW k \in LD!Kinds, LD!UsesAs(s, k)'
        PROVE  LD!UsesAs(s, k)
    BY <1>1, <2>1 DEF LD!UsesAs, LdapInv, LD!TypeOK
  <2>. QED BY <1>1, <2>1 DEF LdapInv, BoundAsOwn, LD!Identity
<1>5. ResultsInUse'
  BY <1>1 DEF LdapInv, LD!TypeOK, ResultsInUse
<1>. QED BY <1>2, <1>3, <1>4, <1>5 DEF LdapInv

LEMMA LdapNextInv == LdapInv /\ [LD!Next]_ldapVars => LdapInv'
<1>. SUFFICES ASSUME LdapInv, [LD!Next]_ldapVars PROVE LdapInv'
  OBVIOUS
<1>1. CASE UNCHANGED ldapVars
  BY <1>1 DEF ldapVars, LdapInv, LD!TypeOK, OpenWhileUsed, SecureWhenReady, BoundAsOwn, ResultsInUse, LD!UsesAs
<1>2. ASSUME NEW r \in Requests, LD!Authenticate(r)
      PROVE  LdapInv'
  <2>1. CASE \/ LD!Initialize(r, "user", "called", "userHandle")
             \/ LD!Initialize(r, "admin", "called", "adminHandle")
             \/ LD!Initialize(r, "user", "found", "userHandle")
    BY <2>1, InitializeInv DEF LD!Kinds
  <2>2. CASE \/ LD!StartTls(r, "admin", "adminHandle", "adminReady")
             \/ LD!StartTls(r, "user", "userHandle", "userReady")
    BY <2>2, StartTlsInv DEF LD!Kinds
  <2>3. CASE \/ LD!Bind(r, "admin", "adminReady", "searching")
             \/ LD!Bind(r, "user", "userReady", "bound")
    BY <2>3, BindInv DEF LD!Kinds
  <2>4. ASSUME NEW kind \in LD!Kinds, NEW from \in {"adminHandle", "userHandle", "adminReady", "userReady"},
               from \in Has(kind), LD!StartTlsFails(r, kind, from) \/ LD!BindFails(r, kind, from)
        PROVE  LdapInv'
    <3>1. /\ at[r] = from /\ at' = [at EXCEPT ![r] = "returned"]
          /\ outcome' = [outcome EXCEPT ![r] = "failed"]
          /\ LD!Unbind(<<r, kind>>)
          /\ UNCHANGED <<settings, held>>
      BY <2>4 DEF LD!StartTlsFails, LD!BindFails, LD!Return, LD!Goes, LD!Handle
    <3>2. "result" \notin held[r]
      BY <3>1 DEF LdapInv, ResultsInUse
    <3>3. outcome' \in [Requests -> {"none", "failed", "granted"}]
      BY <3>1 DEF LdapInv, LD!TypeOK
    <3>. QED BY <2>4, <3>1, <3>2, <3>3, UnbindInv
  <2>5. CASE LD!SearchUser(r) \/ LD!FetchRoles(r) \/ LD!SkipRoles(r)
    BY <2>5, SearchInv
  <2>6. CASE LD!FindUser(r)
    <3>1. /\ at[r] = "searched"
          /\ \E to \in {"found", "returned"} : at' = [at EXCEPT ![r] = to]
          /\ outcome' \in [Requests -> {"none", "failed", "granted"}]
      BY <2>6 DEF LD!FindUser, LD!Goes, LD!Return, LdapInv, LD!TypeOK
    <3>2. /\ held' = [held EXCEPT ![r] = @ \ {"result"}]
          /\ LD!Unbind(<<r, "admin">>) /\ UNCHANGED settings
      BY <2>6 DEF LD!FindUser, LD!Handle
    <3>3. at[r] \in Has("admin") /\ "admin" \in LD!Kinds
      BY <3>1 DEF Has, LD!Kinds
    <3>. QED BY <3>1, <3>2, <3>3, UnbindInv
  <2>7. CASE LD!Grant(r)
    <3>1. /\ at[r] = "fetched" /\ at' = [at EXCEPT ![r] = "returned"]
          /\ outcome' \in [Requests -> {"none", "failed", "granted"}]
      BY <2>7 DEF LD!Grant, LD!Goes, LD!Return, LdapInv, LD!TypeOK
    <3>2. /\ held' = [held EXCEPT ![r] = @ \ {"result"}]
          /\ LD!Unbind(<<r, "user">>) /\ UNCHANGED settings
      BY <2>7 DEF LD!Grant, LD!Handle
    <3>3. at[r] \in Has("user") /\ "user" \in LD!Kinds
      BY <3>1 DEF Has, LD!Kinds
    <3>. QED BY <3>1, <3>2, <3>3, UnbindInv
  <2>8. /\ "admin" \in LD!Kinds /\ "user" \in LD!Kinds
        /\ "adminHandle" \in Has("admin") /\ "adminReady" \in Has("admin")
        /\ "userHandle" \in Has("user") /\ "userReady" \in Has("user")
    BY DEF LD!Kinds, Has
  <2>9. CASE \/ LD!StartTlsFails(r, "admin", "adminHandle") \/ LD!BindFails(r, "admin", "adminReady")
             \/ LD!StartTlsFails(r, "user", "userHandle") \/ LD!BindFails(r, "user", "userReady")
    BY <2>4, <2>8, <2>9
  <2>. QED BY <1>2, <2>1, <2>2, <2>3, <2>5, <2>6, <2>7, <2>9 DEF LD!Authenticate
<1>. QED BY <1>1, <1>2 DEF LD!Next

(***************************************************************************)
(* authenticate, called by any number of requests at once, uses its own    *)
(* handles, bound as its own identity and secured as configured, and       *)
(* leaves no handle and no search result behind.                           *)
(***************************************************************************)
THEOREM Isolation == Spec => []RequestsIsolated
<1>0. Spec => []LdapInv
  BY ServicesStep, LdapInitInv, LdapNextInv, PTL DEF Spec, Init
<1>1. LdapInv => LD!OwnIdentity
  BY DEF LdapInv, OpenWhileUsed, SecureWhenReady, BoundAsOwn, LD!OwnIdentity, LD!UsesAs, LD!Handle, LD!Kinds, Has, Ready
<1>2. LdapInv => LD!NothingHeld
  <2>. SUFFICES ASSUME LdapInv PROVE LD!NothingHeld
    OBVIOUS
  <2>1. \A r \in Requests : at[r] = "returned" => "result" \notin held[r]
    BY DEF LdapInv, ResultsInUse
  <2>2. ASSUME NEW h \in open
        PROVE  \E r \in Requests, kind \in LD!Kinds : at[r] # "returned" /\ h = LD!Handle(r, kind)
    <3>1. PICK r \in Requests, kind \in LD!Kinds : h = <<r, kind>>
      BY DEF LdapInv, LD!TypeOK, LD!Handles
    <3>2. at[r] \in Has(kind)
      BY <3>1 DEF LdapInv, OpenWhileUsed
    <3>. QED BY <3>1, <3>2 DEF Has, LD!Handle
  <2>. QED BY <2>1, <2>2 DEF LD!NothingHeld
<1>. QED BY <1>1, <1>2, <1>0, PTL DEF RequestsIsolated, LD!RequestsIsolated

(***************************************************************************)
(* SmartGraph.  What validateDocument lets in has a ':' in its key, so     *)
(* that the two ways to read a prefix agree on it; the rest is an          *)
(* induction along the path of the traversal.                              *)
(***************************************************************************)

Vertex == [collection : GraphCollections, key : GraphKeys, smart : BOOLEAN]

(* validateDocument has refused keys without ':'. *)
SmartKeysHaveColon ==
  /\ vertices \subseteq Vertex
  /\ \A v \in vertices : v.smart => Len(v.key) > 1

(* validateEdge has compared the values of both ends. *)
EdgesAreSmart ==
  \A e \in edges :
    /\ e.from \in vertices /\ e.to \in vertices
    /\ e.key = SG!EdgeKey(e.from, e.to)
    /\ disjoint /\ ~e.exempt => SG!SmartValue(e.from.key) = SG!SmartValue(e.to.key)

(* A traversal follows stored edges from a vertex of the local shard. *)
FollowsEdges ==
  /\ path \in Seq(edges) /\ reached \in Seq(vertices)
  /\ reached = <<>> => path = <<>> /\ ~refused
  /\ reached # <<>> =>
       /\ Len(reached) = Len(path) + 1
       /\ SG!Responsible(reached[1])
       /\ \A i \in 1..Len(path) : path[i].from = reached[i] /\ path[i].to = reached[i + 1]

OnePrefix ==
  SG!SmartTraversal =>
    /\ ~refused
    /\ \A i \in 1..Len(reached) : SG!SmartPrefix(reached[i].key) = SG!SmartPrefix(reached[1].key)

SmartInv == SmartKeysHaveColon /\ EdgesAreSmart /\ FollowsEdges /\ OnePrefix

-----------------------------------------------------------------------------
(* The members of a sequence are its values. *)
LEMMA Members ==
  ASSUME NEW S, NEW s \in Seq(S)
  PROVE  SG!ToSet(s) = {s[i] : i \in 1..Len(s)}
  BY DEF SG!ToSet

(* extractSmartValue and extractSmartPrefix agree on a key with a ':', that *)
(* is, of n > 1 parts.                                                     *)
LEMMA PrefixIsValue ==
  ASSUME NEW key, NEW n \in Nat, n = Len(key), n > 1
  PROVE  SG!SmartValue(key) = SG!SmartPrefix(key)
<1>1. n # 1
  OBVIOUS
<1>. QED BY <1>1, Zenon DEF SG!SmartValue, SG!SmartPrefix

LEMMA SmartInitInv == SG!Init => SmartInv
<1>. SUFFICES ASSUME SG!Init PROVE SmartInv
  OBVIOUS
<1>1. path = <<>> /\ reached = <<>> /\ ~refused /\ vertices = {} /\ edges = {}
  BY DEF SG!Init
<1>. QED BY <1>1 DEF SmartInv, SmartKeysHaveColon, EdgesAreSmart, FollowsEdges, OnePrefix

(* Documents that are added change nothing for those that are there. *)
LEMMA SmartInsertInv ==
  ASSUME SmartInv, vertices \subseteq vertices', edges \subseteq edges',
         SmartKeysHaveColon', EdgesAreSmart',
         UNCHANGED <<disjoint, localShard, path, reached, refused>>
  PROVE  SmartInv'
<1>1. path \in Seq(edges') /\ reached \in Seq(vertices')
  BY DEF SmartInv, FollowsEdges
<1>2. FollowsEdges'
  BY <1>1 DEF SmartInv, FollowsEdges, SG!Responsible, SG!ShardOf
<1>3. OnePrefix'
  BY DEF SmartInv, OnePrefix, SG!SmartTraversal
<1>. QED BY <1>2, <1>3 DEF SmartInv

LEMMA InsertVertexInv ==
  ASSUME SmartInv, NEW c \in GraphCollections, NEW key \in GraphKeys, NEW a,
         SG!InsertVertex(c, key, a)
  PROVE  SmartInv'
<1>. DEFINE v == [collection |-> c, key |-> key, smart |-> c \notin satellites]
<1>1. vertices' = vertices \cup {v} /\ edges' = edges
      /\ UNCHANGED <<disjoint, localShard, path, reached, refused>>
  BY DEF SG!InsertVertex
<1>2. v \in Vertex /\ (v.smart => Len(v.key) > 1)
  BY DEF SG!InsertVertex, SG!ValidDocument, Vertex
<1>3. SmartKeysHaveColon'
  BY <1>1, <1>2 DEF SmartInv, SmartKeysHaveColon
<1>4. EdgesAreSmart'
  BY <1>1 DEF SmartInv, EdgesAreSmart
<1>. QED BY <1>1, <1>3, <1>4, SmartInsertInv

LEMMA InsertEdgeInv ==
  ASSUME SmartInv, NEW v \in vertices, NEW w \in vertices, SG!InsertEdge(v, w)
  PROVE  SmartInv'
<1>. DEFINE e == [from |-> v, to |-> w, key |-> SG!EdgeKey(v, w), exempt |-> SG!SatelliteInvolved(v, w)]
<1>1. edges' = edges \cup {e} /\ vertices' = vertices
      /\ UNCHANGED <<disjoint, localShard, path, reached, refused>>
  BY DEF SG!InsertEdge
<1>2. /\ e.from = v /\ e.to = w /\ e.key = SG!EdgeKey(v, w)
      /\ disjoint /\ ~e.exempt => SG!SmartValue(v.key) = SG!SmartValue(w.key)
  BY DEF SG!InsertEdge, SG!ValidEdge
<1>3. EdgesAreSmart'
  <2>. HIDE DEF e
  <2>. QED BY <1>1, <1>2 DEF SmartInv, EdgesAreSmart
<1>4. SmartKeysHaveColon'
  BY <1>1 DEF SmartInv, SmartKeysHaveColon
<1>. QED BY <1>1, <1>3, <1>4, SmartInsertInv

LEMMA StartVertexInv ==
  ASSUME SmartInv, NEW v \in vertices, SG!StartVertex(v)
  PROVE  SmartInv'
<1>1. /\ reached' = <<v>> /\ path' = <<>> /\ refused' = FALSE
      /\ SG!Responsible(v)
      /\ UNCHANGED <<disjoint, localShard, satellites, vertices, edges>>
  BY DEF SG!StartVertex
<1>2. SmartKeysHaveColon' /\ EdgesAreSmart'
  BY <1>1 DEF SmartInv, SmartKeysHaveColon, EdgesAreSmart
<1>3. FollowsEdges'
  BY <1>1 DEF FollowsEdges, SG!Responsible, SG!ShardOf
<1>4. OnePrefix'
  BY <1>1 DEF OnePrefix
<1>. QED BY <1>2, <1>3, <1>4 DEF SmartInv

LEMMA SmartStepInv ==
  ASSUME SmartInv, NEW e \in edges, SG!Step(e)
  PROVE  SmartInv'
<1>. DEFINE n == Len(reached)
<1>1. /\ path' = Append(path, e) /\ reached' = Append(reached, e.to)
      /\ refused' = ~SG!ValidDisjointPath(Head(reached), e.to)
      /\ reached # <<>> /\ ~refused /\ e.from = SG!Last(reached)
      /\ UNCHANGED <<disjoint, localShard, satellites, vertices, edges>>
  BY DEF SG!Step
<1>2. SmartKeysHaveColon' /\ EdgesAreSmart'
  BY <1>1 DEF SmartInv, SmartKeysHaveColon, EdgesAreSmart
<1>3. /\ reached \in Seq(vertices) /\ path \in Seq(edges) /\ n \in Nat \ {0}
      /\ Len(path) = n - 1 /\ e.from = reached[n] /\ e.to \in vertices
  BY <1>1 DEF SmartInv, FollowsEdges, EdgesAreSmart, SG!Last
<1>4. /\ reached' \in Seq(vertices) /\ path' \in Seq(edges)
      /\ Len(reached') = n + 1 /\ Len(path') = n
      /\ \A i \in 1..n : reached'[i] = reached[i]
      /\ \A i \in 1..(n - 1) : path'[i] = path[i]
      /\ reached'[n + 1] = e.to /\ path'[n] = e
  BY <1>1, <1>3
<1>5. FollowsEdges'
  <2>1. SG!Responsible(reached[1])'
    <3>1. reached'[1] = reached[1] /\ SG!Responsible(reached[1])
      BY <1>1, <1>3, <1>4 DEF SmartInv, FollowsEdges
    <3>. QED BY <1>1, <3>1 DEF SG!Responsible
  <2>2. ASSUME NEW i \in 1..n
        PROVE  path'[i].from = reached'[i] /\ path'[i].to = reached'[i + 1]
    <3>1. CASE i = n
      BY <3>1, <1>3, <1>4
    <3>2. CASE i \in 1..(n - 1)
      <4>1. path[i].from = reached[i] /\ path[i].to = reached[i + 1]
        BY <3>2, <1>1, <1>3 DEF SmartInv, FollowsEdges
      <4>. QED BY <3>2, <4>1, <1>3, <1>4
    <3>. QED BY <3>1, <3>2, <1>3
  <2>. QED BY <2>1, <2>2, <1>1, <1>3, <1>4 DEF FollowsEdges
<1>6. ASSUME SG!SmartTraversal'
      PROVE  ~refused' /\ \A i \in 1..(n + 1) : SG!SmartPrefix(reached'[i].key) = SG!SmartPrefix(reached'[1].key)
  <2>1. /\ disjoint
        /\ \A i \in 1..(n + 1) : reached'[i].smart
        /\ \A i \in 1..n : ~path'[i].exempt
    BY <1>1, <1>4, <1>6, Members DEF SG!SmartTraversal
  <2>2. /\ \A i \in 1..n : reached[i].smart
        /\ \A i \in 1..(n - 1) : ~path[i].exempt
        /\ e.to.smart /\ ~e.exempt
    <3>1. \A i \in 1..n : i \in 1..(n + 1)
      BY <1>3
    <3>2. \A i \in 1..(n - 1) : i \in 1..n
      BY <1>3
    <3>3. n \in 1..n /\ n + 1 \in 1..(n + 1)
      BY <1>3
    <3>. QED BY <2>1, <3>1, <3>2, <3>3, <1>4
  <2>3. SG!SmartTraversal
    BY <2>1, <2>2, <1>3, Members DEF SG!SmartTraversal
  <2>4. \A i \in 1..n : SG!SmartPrefix(reached[i].key) = SG!SmartPrefix(reached[1].key)
    BY <2>3 DEF SmartInv, OnePrefix
  <2>5. SG!SmartValue(e.from.key) = SG!SmartValue(e.to.key)
    BY <2>1, <2>2 DEF SmartInv, EdgesAreSmart
  <2>6. \A v \in vertices : v.smart => SG!SmartValue(v.key) = SG!SmartPrefix(v.key)
    <3>. SUFFICES ASSUME NEW v \in vertices, v.smart PROVE SG!SmartValue(v.key) = SG!SmartPrefix(v.key)
      OBVIOUS
    <3>1. v.key \in GraphKeys /\ Len(v.key) > 1
      BY DEF SmartInv, SmartKeysHaveColon, Vertex
    <3>2. v.key \in Seq(STRING)
      BY <3>1, KeysAreSequences
    <3>. QED BY <3>1, <3>2, PrefixIsValue
  <2>7. reached[n] \in vertices /\ reached[n].smart
    BY <1>3, <2>2
  <2>8. SG!SmartPrefix(e.to.key) = SG!SmartPrefix(reached[1].key)
    BY <2>2, <2>4, <2>5, <2>6, <2>7, <1>3
  <2>9. ~refused'
    <3>1. Head(reached) = reached[1]
      BY <1>1, <1>3
    <3>. QED BY <1>1, <2>8, <3>1 DEF SG!ValidDisjointPath
  <2>10. \A i \in 1..(n + 1) : i = n + 1 \/ i \in 1..n
    BY <1>3
  <2>. QED BY <2>4, <2>8, <2>9, <2>10, <1>3, <1>4
<1>7. OnePrefix'
  BY <1>4, <1>6 DEF OnePrefix
<1>. QED BY <1>2, <1>5, <1>7 DEF SmartInv

LEMMA SmartNextInv == SmartInv /\ [SG!Next]_smartVars => SmartInv'
<1>. SUFFICES ASSUME SmartInv, [SG!Next]_smartVars PROVE SmartInv'
  OBVIOUS
<1>1. CASE UNCHANGED smartVars
  BY <1>1 DEF smartVars, SmartInv, SmartKeysHaveColon, EdgesAreSmart, FollowsEdges, OnePrefix,
              SG!SmartTraversal, SG!Responsible, SG!ShardOf
<1>2. ASSUME NEW c \in GraphCollections, SG!RegisterSatellite(c) \/ SG!UnregisterSatellite(c)
      PROVE  SmartInv'
  <2>1. UNCHANGED <<disjoint, localShard, vertices, edges, path, reached, refused>>
    BY <1>2 DEF SG!RegisterSatellite, SG!UnregisterSatellite
  <2>2. SmartKeysHaveColon' /\ EdgesAreSmart'
    BY <2>1 DEF SmartInv, SmartKeysHaveColon, EdgesAreSmart
  <2>. QED BY <2>1, <2>2, SmartInsertInv
<1>3. ASSUME NEW c \in GraphCollections, NEW key \in GraphKeys, NEW a \in Attributes, SG!InsertVertex(c, key, a)
      PROVE  SmartInv'
  BY <1>3, InsertVertexInv
<1>4. ASSUME NEW v \in vertices, NEW w \in vertices, SG!InsertEdge(v, w)
      PROVE  SmartInv'
  BY <1>4, InsertEdgeInv
<1>5. ASSUME NEW v \in vertices, SG!StartVertex(v)
      PROVE  SmartInv'
  BY <1>5, StartVertexInv
<1>6. ASSUME NEW e \in edges, SG!Step(e)
      PROVE  SmartInv'
  BY <1>6, SmartStepInv
<1>. QED BY <1>1, <1>2, <1>3, <1>4, <1>5, <1>6 DEF SG!Next

(***************************************************************************)
(* For any graph: a traversal of a disjoint graph over vertices that       *)
(* validateDocument has accepted and edges that no satellite exempted is   *)
(* never refused by checkValidDisjointPath and stays on the shard it       *)
(* started on.                                                             *)
(***************************************************************************)
THEOREM StaysLocal == Spec => []TraversalStaysLocal
<1>0. Spec => []SmartInv
  BY ServicesStep, SmartInitInv, SmartNextInv, PTL DEF Spec, Init
<1>1. SmartInv => SG!TraversalStaysLocal
  <2>. SUFFICES ASSUME SmartInv, SG!SmartTraversal
                PROVE  /\ ~refused
                       /\ \A v \in SG!ToSet(reached) : SG!Responsible(v)
                       /\ \A e \in SG!ToSet(path) : SG!ShardOf(e.key) = localShard
    BY DEF SG!TraversalStaysLocal
  <2>1. /\ reached \in Seq(vertices) /\ path \in Seq(edges)
        /\ SG!ToSet(reached) = {reached[i] : i \in 1..Len(reached)}
        /\ SG!ToSet(path) = {path[i] : i \in 1..Len(path)}
    BY Members DEF SmartInv, FollowsEdges
  <2>2. ASSUME NEW i \in 1..Len(reached)
        PROVE  SG!Responsible(reached[i])
    <3>1. reached # <<>>
      BY <2>1
    <3>2. SG!Responsible(reached[1]) /\ SG!SmartPrefix(reached[i].key) = SG!SmartPrefix(reached[1].key)
      BY <3>1 DEF SmartInv, FollowsEdges, OnePrefix
    <3>. QED BY <3>2 DEF SG!Responsible, SG!ShardOf
  <2>3. ASSUME NEW i \in 1..Len(path)
        PROVE  SG!ShardOf(path[i].key) = localShard
    <3>1. reached # <<>>
      BY <2>1 DEF SmartInv, FollowsEdges
    <3>2. /\ path[i] \in edges /\ path[i].from = reached[i] /\ i \in 1..Len(reached)
      BY <2>1, <3>1 DEF SmartInv, FollowsEdges
    <3>3. /\ reached[i] \in vertices /\ reached[i].smart
          /\ path[i].key = SG!EdgeKey(path[i].from, path[i].to)
      BY <2>1, <3>2 DEF SG!SmartTraversal, SmartInv, EdgesAreSmart
    <3>4. SG!SmartValue(reached[i].key) = SG!SmartPrefix(reached[i].key)
      <4>1. reached[i].key \in GraphKeys /\ Len(reached[i].key) > 1
        BY <3>3 DEF SmartInv, SmartKeysHaveColon, Vertex
      <4>2. reached[i].key \in Seq(STRING)
        BY <4>1, KeysAreSequences
      <4>. QED BY <4>1, <4>2, PrefixIsValue
    <3>5. SG!SmartPrefix(path[i].key) = SG!SmartValue(reached[i].key)
      BY <3>2, <3>3 DEF SG!EdgeKey, SG!SmartPrefix
    <3>. QED BY <2>2, <3>2, <3>4, <3>5 DEF SG!ShardOf, SG!Responsible
  <2>. QED BY <2>1, <2>2, <2>3 DEF SmartInv, OnePrefix
<1>. QED BY <1>0, <1>1, PTL DEF TraversalStaysLocal

(***************************************************************************)
(* RCloneProcess.  The inductive invariant says what process, descriptors  *)
(* and open pipes a call has at each of its steps; what has come to its    *)
(* end stays there, since no process inherits a descriptor that is closed. *)
(***************************************************************************)

Unspawned == {"idle", "stdout", "piped"}
Attended == {"spawned", "poll", "reap", "broken", "grace"}

ChildFollowsCall ==
  \A c \in Calls :
    /\ pc[c] \in Unspawned => child[c] = "none"
    /\ pc[c] \in Attended => child[c] \in {"running", "exited", "killed"}
    /\ pc[c] = "done" => child[c] \in {"none", "reaped"}

EndsClosed ==
  \A c \in Calls :
    /\ pc[c] = "idle" => fds[c] = {}
    /\ pc[c] \in {"poll", "grace"} => \A p \in RC!Pipes : <<p, "write">> \notin fds[c]
    /\ pc[c] \in {"reap", "broken"} => fds[c] = {}
    /\ pc[c] = "done" /\ result[c] # "pipeError" => fds[c] = {}

(* The pipes that poll does not watch any more, and both pipes of a call   *)
(* that returns its child's status, have ended, unless poll failed.        *)
PipesEnded ==
  \A c \in Calls :
    /\ pc[c] = "reap" => polled[c] = {}
    /\ pc[c] \in {"poll", "reap"} => \A p \in RC!Pipes \ polled[c] : RC!AtEnd(c, p)
    /\ pc[c] = "broken" => c \in pollFailed
    /\ pc[c] = "done" /\ result[c] \in {"exited", "killed"} /\ c \notin pollFailed =>
         \A p \in RC!Pipes : RC!AtEnd(c, p)

(* Descriptors end with the process. *)
HoldersRun ==
  \A c \in Calls, p \in RC!Pipes : \A d \in holders[c][p] : child[d] = "running"

RcloneInv == RC!TypeOK /\ ChildFollowsCall /\ EndsClosed /\ PipesEnded /\ HoldersRun

-----------------------------------------------------------------------------
LEMMA RcloneInitInv == RC!Init => RcloneInv
<1>. SUFFICES ASSUME RC!Init PROVE RcloneInv
  OBVIOUS
<1>1. RC!TypeOK
  BY DEF RC!Init, RC!TypeOK
<1>2. ChildFollowsCall /\ EndsClosed /\ PipesEnded /\ HoldersRun
  BY DEF RC!Init, ChildFollowsCall, EndsClosed, PipesEnded, HoldersRun, Unspawned, Attended
<1>. QED BY <1>1, <1>2 DEF RcloneInv

LEMMA RcloneTypeStep == RcloneInv /\ [RC!Next]_rcloneVars => RC!TypeOK'
<1>. SUFFICES ASSUME RC!TypeOK, ChildFollowsCall, [RC!Next]_rcloneVars PROVE RC!TypeOK'
  BY DEF RcloneInv
<1>. USE DEF RC!Pipes
<1>1. CASE UNCHANGED rcloneVars
  BY <1>1 DEF rcloneVars, RC!TypeOK
<1>2. ASSUME NEW storage, NEW given, NEW binaryExists, RC!Configure(storage, given, binaryExists)
      PROVE  RC!TypeOK'
  BY <1>2 DEF RC!Configure, RC!TypeOK
<1>3. ASSUME NEW c \in Calls, RC!Refuse(c) \/ RC!PipeFails(c) \/ RC!SpawnFails(c)
      PROVE  RC!TypeOK'
  BY <1>3 DEF RC!Refuse, RC!PipeFails, RC!SpawnFails, RC!Returns, RC!Goes, RC!TypeOK
<1>4. ASSUME NEW c \in Calls, NEW p \in RC!Pipes, NEW from, NEW to \in {"stdout", "piped"},
             RC!CreatePipe(c, p, from, to)
      PROVE  RC!TypeOK'
  BY <1>4 DEF RC!CreatePipe, RC!BothEnds, RC!Goes, RC!TypeOK
<1>5. ASSUME NEW c \in Calls, RC!Spawn(c) \/ RC!CloseWriteEnds(c)
      PROVE  RC!TypeOK'
  <2>1. CASE RC!Spawn(c)
    <3>1. holders' \in [Calls -> [RC!Pipes -> SUBSET Calls]]
      <4>1. \A d \in Calls, p \in RC!Pipes : holders[d][p] \in SUBSET Calls
        BY DEF RC!TypeOK
      <4>. QED BY <2>1, <4>1 DEF RC!Spawn
    <3>. QED BY <2>1, <3>1 DEF RC!Spawn, RC!Goes, RC!TypeOK
  <2>2. CASE RC!CloseWriteEnds(c)
    BY <2>2 DEF RC!CloseWriteEnds, RC!Goes, RC!TypeOK
  <2>. QED BY <1>5, <2>1, <2>2
<1>6. ASSUME NEW c \in Calls, NEW p \in RC!Pipes,
             \/ RC!ReadOutput(c, p) \/ RC!ReadEnd(c, p)
             \/ RC!ChildWrites(c, p) \/ RC!ChildCloses(c, p)
      PROVE  RC!TypeOK'
  <2>1. CASE RC!ReadOutput(c, p)
    BY <2>1 DEF RC!ReadOutput, RC!TypeOK
  <2>4. CASE RC!ReadEnd(c, p)
    BY <2>4 DEF RC!ReadEnd, RC!TypeOK
  <2>2. CASE RC!ChildWrites(c, p)
    BY <2>2 DEF RC!ChildWrites, RC!TypeOK
  <2>3. CASE RC!ChildCloses(c, p)
    BY <2>3 DEF RC!ChildCloses, RC!TypeOK
  <2>. QED BY <1>6, <2>1, <2>2, <2>3, <2>4
<1>7. ASSUME NEW c \in Calls, NEW failed \in BOOLEAN, RC!LeaveLoop(c, failed)
      PROVE  RC!TypeOK'
  BY <1>7 DEF RC!LeaveLoop, RC!Goes, RC!TypeOK
<1>8. ASSUME NEW c \in Calls, RC!Reap(c) \/ RC!TimeOut(c)
      PROVE  RC!TypeOK'
  BY <1>8 DEF RC!Reap, RC!TimeOut, RC!Returns, RC!Goes, RC!TypeOK
<1>9. ASSUME NEW c \in Calls, RC!KillAndReap(c)
      PROVE  RC!TypeOK'
  BY <1>9 DEF RC!KillAndReap, RC!Released, RC!Returns, RC!Goes, RC!TypeOK
<1>10. ASSUME NEW c \in Calls, NEW status \in {"exited", "killed"}, RC!ChildEnds(c, status)
       PROVE  RC!TypeOK'
  BY <1>10 DEF RC!ChildEnds, RC!Released, RC!TypeOK
<1>11. "stdout" \in RC!Pipes /\ "stderr" \in RC!Pipes /\ TRUE \in BOOLEAN /\ FALSE \in BOOLEAN
  OBVIOUS
<1>. QED BY <1>1, <1>2, <1>3, <1>4, <1>5, <1>6, <1>7, <1>8, <1>9, <1>10, <1>11
         DEF RC!Next, RC!Continue, RC!Fails

(* The steps that concern the child of a call, and what it holds.          *)
RcloneControl == ChildFollowsCall /\ EndsClosed /\ PipesEnded /\ HoldersRun

LEMMA RcloneControlStep == RcloneInv /\ [RC!Next]_rcloneVars => RcloneControl'
<1>. SUFFICES ASSUME RC!TypeOK, RcloneControl, [RC!Next]_rcloneVars PROVE RcloneControl'
  BY DEF RcloneInv, RcloneControl
<1>. USE DEF RcloneControl, Unspawned, Attended
<1>0. /\ pc \in [Calls -> {"idle", "stdout", "piped", "spawned", "poll", "reap", "broken",
                           "grace", "done"}]
      /\ DOMAIN fds = Calls /\ DOMAIN polled = Calls /\ DOMAIN child = Calls
      /\ DOMAIN holders = Calls /\ DOMAIN unread = Calls /\ DOMAIN result = Calls
      /\ \A c \in Calls : DOMAIN holders[c] = RC!Pipes
  BY DEF RC!TypeOK
<1>1. CASE UNCHANGED rcloneVars
  BY <1>1 DEF rcloneVars, ChildFollowsCall, EndsClosed, PipesEnded, HoldersRun, RC!AtEnd
<1>2. ASSUME NEW storage, NEW given, NEW binaryExists, RC!Configure(storage, given, binaryExists)
      PROVE  RcloneControl'
  BY <1>2 DEF RC!Configure, ChildFollowsCall, EndsClosed, PipesEnded, HoldersRun, RC!AtEnd
<1>3. ASSUME NEW c \in Calls, RC!Refuse(c) \/ RC!PipeFails(c) \/ RC!SpawnFails(c)
      PROVE  RcloneControl'
  <2>1. /\ pc[c] \in Unspawned /\ pc' = [pc EXCEPT ![c] = "done"]
        /\ \E r \in {"error", "pipeError"} :
             /\ result' = [result EXCEPT ![c] = r]
             /\ \/ fds' = [fds EXCEPT ![c] = {}]
                \/ fds' = fds /\ (r = "pipeError" \/ pc[c] = "idle")
        /\ UNCHANGED <<polled, child, holders, unread, pollFailed>>
    BY <1>3 DEF RC!Refuse, RC!PipeFails, RC!SpawnFails, RC!Returns, RC!Goes
  <2>2. ChildFollowsCall' /\ HoldersRun'
    BY <1>0, <2>1 DEF ChildFollowsCall, HoldersRun
  <2>3. EndsClosed'
    BY <1>0, <2>1 DEF EndsClosed
  <2>4. PipesEnded'
    BY <1>0, <2>1 DEF PipesEnded, RC!AtEnd
  <2>. QED BY <2>2, <2>3, <2>4
<1>4. ASSUME NEW c \in Calls, NEW p \in RC!Pipes,
             \/ RC!CreatePipe(c, p, "idle", "stdout")
             \/ RC!CreatePipe(c, p, "stdout", "piped")
      PROVE  RcloneControl'
  <2>1. /\ pc[c] \in {"idle", "stdout"} /\ \E to \in {"stdout", "piped"} : pc' = [pc EXCEPT ![c] = to]
        /\ \A d \in Calls \ {c} : fds'[d] = fds[d]
        /\ UNCHANGED <<polled, child, holders, unread, result, pollFailed>>
    BY <1>0, <1>4 DEF RC!CreatePipe, RC!Goes
  <2>2. ChildFollowsCall' /\ HoldersRun'
    BY <1>0, <2>1 DEF ChildFollowsCall, HoldersRun
  <2>3. EndsClosed'
    BY <1>0, <2>1 DEF EndsClosed
  <2>4. PipesEnded'
    BY <1>0, <2>1 DEF PipesEnded, RC!AtEnd
  <2>. QED BY <2>2, <2>3, <2>4
<1>5. ASSUME NEW c \in Calls, RC!Spawn(c)
      PROVE  RcloneControl'
  <2>1. /\ pc[c] = "piped" /\ pc' = [pc EXCEPT ![c] = "spawned"]
        /\ child' = [child EXCEPT ![c] = "running"]
        /\ \A d \in Calls, p \in RC!Pipes :
             /\ holders'[d][p] \subseteq holders[d][p] \cup {c}
             /\ <<p, "write">> \notin fds[d] => holders'[d][p] = holders[d][p]
        /\ UNCHANGED <<fds, polled, unread, result, pollFailed>>
    BY <1>5 DEF RC!Spawn, RC!Goes
  <2>2. ChildFollowsCall' /\ EndsClosed'
    BY <1>0, <2>1 DEF ChildFollowsCall, EndsClosed
  <2>3. PipesEnded'
    BY <1>0, <2>1 DEF PipesEnded, RC!AtEnd
  <2>4. HoldersRun'
    <3>1. ASSUME NEW d \in Calls, NEW p \in RC!Pipes, NEW e \in holders'[d][p]
          PROVE  child'[e] = "running"
      <4>1. CASE e # c
        <5>0. holders[d][p] \subseteq Calls
          BY DEF RC!TypeOK
        <5>1. e \in holders[d][p]
          BY <2>1, <4>1
        <5>2. child[e] = "running"
          BY <5>1 DEF HoldersRun
        <5>. QED BY <1>0, <2>1, <4>1, <5>0, <5>1, <5>2
      <4>. QED BY <1>0, <2>1, <4>1
    <3>. QED BY <3>1 DEF HoldersRun
  <2>. QED BY <2>2, <2>3, <2>4
<1>6. ASSUME NEW c \in Calls, RC!CloseWriteEnds(c)
      PROVE  RcloneControl'
  <2>1. /\ pc[c] = "spawned" /\ pc' = [pc EXCEPT ![c] = "poll"]
        /\ polled' = [polled EXCEPT ![c] = RC!Pipes]
        /\ \A p \in RC!Pipes : <<p, "write">> \notin fds'[c]
        /\ \A d \in Calls \ {c} : fds'[d] = fds[d]
        /\ UNCHANGED <<child, holders, unread, result, pollFailed>>
    BY <1>0, <1>6 DEF RC!CloseWriteEnds, RC!Goes, RC!WriteEnds
  <2>2. ChildFollowsCall' /\ HoldersRun'
    BY <1>0, <2>1 DEF ChildFollowsCall, HoldersRun
  <2>3. EndsClosed'
    BY <1>0, <2>1 DEF EndsClosed
  <2>4. PipesEnded'
    BY <1>0, <2>1 DEF PipesEnded, RC!AtEnd
  <2>. QED BY <2>2, <2>3, <2>4
<1>7. ASSUME NEW c \in Calls, NEW p \in RC!Pipes, RC!ReadOutput(c, p) \/ RC!ReadEnd(c, p)
      PROVE  RcloneControl'
  <2>1. /\ pc[c] = "poll" /\ UNCHANGED <<pc, fds, child, holders, result, pollFailed>>
        /\ \/ unread' = [unread EXCEPT ![c] = @ \ {p}] /\ polled' = polled
           \/ RC!AtEnd(c, p) /\ unread' = unread /\ polled' = [polled EXCEPT ![c] = @ \ {p}]
    BY <1>7 DEF RC!ReadOutput, RC!ReadEnd
  <2>2. ChildFollowsCall' /\ HoldersRun' /\ EndsClosed'
    BY <2>1 DEF ChildFollowsCall, HoldersRun, EndsClosed
  <2>3. PipesEnded'
    BY <1>0, <2>1 DEF PipesEnded, RC!AtEnd
  <2>. QED BY <2>2, <2>3
<1>8. ASSUME NEW c \in Calls, NEW failed \in BOOLEAN, RC!LeaveLoop(c, failed)
      PROVE  RcloneControl'
  <2>1. /\ pc[c] = "poll" /\ fds' = [fds EXCEPT ![c] = {}]
        /\ \/ pc' = [pc EXCEPT ![c] = "reap"] /\ polled[c] = {}
           \/ pc' = [pc EXCEPT ![c] = "broken"] /\ c \in pollFailed'
        /\ pollFailed \subseteq pollFailed'
        /\ UNCHANGED <<polled, child, holders, unread, result>>
    BY <1>8 DEF RC!LeaveLoop, RC!Goes, RC!AllEnded
  <2>2. ChildFollowsCall' /\ HoldersRun' /\ EndsClosed'
    BY <1>0, <2>1 DEF ChildFollowsCall, HoldersRun, EndsClosed
  <2>3. PipesEnded'
    BY <1>0, <2>1 DEF PipesEnded, RC!AtEnd
  <2>. QED BY <2>2, <2>3
<1>9. ASSUME NEW c \in Calls, RC!Reap(c)
      PROVE  RcloneControl'
  <2>1. /\ pc[c] \in {"reap", "broken"} /\ pc' = [pc EXCEPT ![c] = "done"]
        /\ child[c] \in {"exited", "killed"} /\ child' = [child EXCEPT ![c] = "reaped"]
        /\ \E r : result' = [result EXCEPT ![c] = r]
        /\ UNCHANGED <<fds, polled, holders, unread, pollFailed>>
    BY <1>9 DEF RC!Reap, RC!Returns, RC!Goes
  <2>2. ChildFollowsCall' /\ HoldersRun'
    BY <1>0, <2>1 DEF ChildFollowsCall, HoldersRun
  <2>3. EndsClosed'
    BY <1>0, <2>1 DEF EndsClosed
  <2>4. PipesEnded'
    BY <1>0, <2>1 DEF PipesEnded, RC!AtEnd
  <2>. QED BY <2>2, <2>3, <2>4
<1>10. ASSUME NEW c \in Calls, RC!TimeOut(c)
       PROVE  RcloneControl'
  <2>1. /\ pc[c] = "poll" /\ pc' = [pc EXCEPT ![c] = "grace"]
        /\ UNCHANGED <<fds, polled, child, holders, unread, result, pollFailed>>
    BY <1>10 DEF RC!TimeOut, RC!Goes
  <2>2. ChildFollowsCall' /\ HoldersRun' /\ EndsClosed'
    BY <1>0, <2>1 DEF ChildFollowsCall, HoldersRun, EndsClosed
  <2>3. PipesEnded'
    BY <1>0, <2>1 DEF PipesEnded, RC!AtEnd
  <2>. QED BY <2>2, <2>3
<1>11. ASSUME NEW c \in Calls, RC!KillAndReap(c)
       PROVE  RcloneControl'
  <2>1. /\ pc[c] = "grace" /\ pc' = [pc EXCEPT ![c] = "done"]
        /\ result' = [result EXCEPT ![c] = "timedOut"]
        /\ child' = [child EXCEPT ![c] = "reaped"] /\ fds' = [fds EXCEPT ![c] = {}]
        /\ \A d \in Calls, p \in RC!Pipes : holders'[d][p] = holders[d][p] \ {c}
        /\ UNCHANGED <<polled, unread, pollFailed>>
    BY <1>11 DEF RC!KillAndReap, RC!Released, RC!Returns, RC!Goes
  <2>2. ChildFollowsCall' /\ HoldersRun'
    BY <1>0, <2>1 DEF ChildFollowsCall, HoldersRun
  <2>3. EndsClosed'
    BY <1>0, <2>1 DEF EndsClosed
  <2>4. PipesEnded'
    BY <1>0, <2>1 DEF PipesEnded, RC!AtEnd
  <2>. QED BY <2>2, <2>3, <2>4
<1>12. ASSUME NEW c \in Calls, NEW p \in RC!Pipes, RC!ChildWrites(c, p)
       PROVE  RcloneControl'
  <2>1. /\ c \in holders[c][p] /\ unread' = [unread EXCEPT ![c] = @ \cup {p}]
        /\ UNCHANGED <<pc, fds, polled, child, holders, result, pollFailed>>
    BY <1>12 DEF RC!ChildWrites
  <2>2. ChildFollowsCall' /\ HoldersRun' /\ EndsClosed'
    BY <2>1 DEF ChildFollowsCall, HoldersRun, EndsClosed
  <2>3. PipesEnded'
    BY <1>0, <2>1 DEF PipesEnded, RC!AtEnd
  <2>. QED BY <2>2, <2>3
<1>13. ASSUME NEW c \in Calls, NEW p \in RC!Pipes, RC!ChildCloses(c, p)
       PROVE  RcloneControl'
  <2>1. /\ \A d \in Calls, q \in RC!Pipes : holders'[d][q] \subseteq holders[d][q]
        /\ UNCHANGED <<pc, fds, polled, child, unread, result, pollFailed>>
    BY <1>0, <1>13 DEF RC!ChildCloses
  <2>2. ChildFollowsCall' /\ HoldersRun' /\ EndsClosed'
    BY <2>1 DEF ChildFollowsCall, HoldersRun, EndsClosed
  <2>3. PipesEnded'
    BY <1>0, <2>1 DEF PipesEnded, RC!AtEnd
  <2>. QED BY <2>2, <2>3
<1>14. ASSUME NEW c \in Calls, NEW status \in {"exited", "killed"}, RC!ChildEnds(c, status)
       PROVE  RcloneControl'
  <2>1. /\ child[c] = "running" /\ child' = [child EXCEPT ![c] = status]
        /\ \A d \in Calls, p \in RC!Pipes : holders'[d][p] = holders[d][p] \ {c}
        /\ UNCHANGED <<pc, fds, polled, unread, result, pollFailed>>
    BY <1>14 DEF RC!ChildEnds, RC!Released
  <2>2. ChildFollowsCall' /\ HoldersRun' /\ EndsClosed'
    BY <1>0, <2>1 DEF ChildFollowsCall, HoldersRun, EndsClosed
  <2>3. PipesEnded'
    BY <1>0, <2>1 DEF PipesEnded, RC!AtEnd
  <2>. QED BY <2>2, <2>3
<1>15. "stdout" \in RC!Pipes /\ "stderr" \in RC!Pipes /\ TRUE \in BOOLEAN /\ FALSE \in BOOLEAN
  BY DEF RC!Pipes
<1>. QED BY <1>1, <1>2, <1>3, <1>4, <1>5, <1>6, <1>7, <1>8, <1>9, <1>10, <1>11, <1>12, <1>13,
            <1>14, <1>15 DEF RC!Next, RC!Continue, RC!Fails

LEMMA RcloneInvariance == Spec => []RcloneInv
<1>1. RcloneInv /\ [RC!Next]_rcloneVars => RcloneInv'
  BY RcloneTypeStep, RcloneControlStep DEF RcloneInv, RcloneControl
<1>. QED BY <1>1, ServicesStep, RcloneInitInv, PTL DEF Spec, Init

(***************************************************************************)
(* uploadBackup, called by any number of requests at once, returns with    *)
(* its process reaped and its descriptors closed, unless the second pipe() *)
(* failed; and an exit status comes with all the output of the process,    *)
(* unless poll failed.                                                     *)
(***************************************************************************)
THEOREM UploadReturnsCleanly == Spec => []ReturnedCleanly
<1>1. RcloneInv => RC!ReturnedCleanly
  BY DEF RcloneInv, ChildFollowsCall, EndsClosed, PipesEnded, RC!AtEnd, RC!ReturnedCleanly,
         RC!TypeOK
<1>. QED BY <1>1, RcloneInvariance, PTL DEF ReturnedCleanly

(***************************************************************************)
(* poll reports nothing, so that forkAndExec's timeout runs, only while    *)
(* the process of the call runs or that of another call has its pipe.      *)
(***************************************************************************)
THEOREM SilenceHasReason == Spec => []TimeoutHasReason
<1>1. RcloneInv => RC!TimeoutHasReason
  <2>. SUFFICES ASSUME RcloneInv, NEW c \in Calls, RC!Silent(c), child[c] # "running"
                PROVE  \E p \in RC!Pipes : holders[c][p] \ {c} # {}
    BY DEF RC!TimeoutHasReason
  <2>1. PICK p \in polled[c] : p \in RC!Pipes /\ p \notin unread[c] /\ ~RC!AtEnd(c, p)
    BY DEF RC!Silent, RcloneInv, RC!TypeOK
  <2>2. holders[c][p] # {}
    BY <2>1 DEF RC!Silent, RC!AtEnd, RcloneInv, EndsClosed
  <2>3. c \notin holders[c][p]
    BY <2>1 DEF RcloneInv, HoldersRun
  <2>. QED BY <2>1, <2>2, <2>3
<1>. QED BY <1>1, RcloneInvariance, PTL DEF TimeoutHasReason

(***************************************************************************)
(* DirectMQ.                                                               *)
(***************************************************************************)

(* u shifts value right, byte after byte; r reads the bytes of buf.        *)
Shifts(u, value) ==
  u = [n \in 0..Width |-> IF n = 0 THEN value ELSE u[n - 1] \div Base]

Reads(r, buf) ==
  r = [n \in 0..Width |-> IF n = 0 THEN 0 ELSE r[n - 1] * Base + buf[n]]

LEMMA ByteIsDigit == MQ!Bytes = 0..(Base - 1) /\ Base \in Nat \ {0} /\ Width \in Nat \ {0}
BY FrameAssumption DEF MQ!Bytes

LEMMA ValuesAreCounted ==
  /\ MQ!Values[0] = 1
  /\ \A n \in 1..Width : MQ!Values[n] = MQ!Values[n - 1] * Base
  /\ \A n \in 0..Width : MQ!Values[n] \in Nat
<1> DEFINE step == [m \in Nat |-> [x \in Nat |-> x * Base]]
           v == MQ!Values
<1>1. Width \in Nat /\ Base \in Nat /\ 1 \in Nat /\ step \in [Nat -> [Nat -> Nat]]
  BY FrameAssumption
<1>2. PICK f : Recursive(f, Width, Nat, 1, step)
  <2> HIDE DEF step
  <2> QED
    BY <1>1, RecursionExists
<1>3. f \in [0..Width -> Nat] /\ \A m \in 0..Width : f[m] = IF m = 0 THEN 1 ELSE f[m - 1] * Base
  <2>1. \A m, x \in Nat : step[m][x] = x * Base
    OBVIOUS
  <2> HIDE DEF step
  <2>2. f \in [0..Width -> Nat]
    BY <1>2 DEF Recursive
  <2>3. \A m \in 0..Width : m # 0 => m \in Nat /\ f[m - 1] \in Nat
    <3>1. Width \in Nat
      BY <1>1
    <3>2. \A m \in 0..Width : m # 0 => m \in Nat /\ m - 1 \in 0..Width
      BY <3>1
    <3>. QED
      BY <2>2, <3>2
  <2> QED
    BY <1>2, <2>1, <2>3 DEF Recursive
<1>4. f = [m \in 0..Width |-> IF m = 0 THEN 1 ELSE f[m - 1] * Base]
  BY <1>3
<1>5. v = [m \in 0..Width |-> IF m = 0 THEN 1 ELSE v[m - 1] * Base]
  BY <1>4 DEF MQ!Values
<1> HIDE DEF v
<1> DEFINE S == {m \in 0..Width : v[m] \in Nat}
<1>6. 0 \in S
  BY <1>1, <1>5
<1>7. \A m \in 0..(Width - 1) : m \in S => m + 1 \in S
  BY <1>1, <1>5
<1>8. 0..Width \subseteq S
  <2> HIDE DEF S
  <2> QED
    BY <1>1, <1>6, <1>7, StepByStep
<1> QED
  BY <1>1, <1>5, <1>8 DEF v

LEMMA BigEndianShifts ==
  ASSUME NEW value \in Nat
  PROVE  \E u \in [0..Width -> Nat] :
           /\ u[0] = value
           /\ \A n \in 1..Width : u[n] = u[n - 1] \div Base
           /\ MQ!BigEndian(value) = [i \in 1..Width |-> u[Width - i] % Base]
<1> DEFINE step == [m \in Nat |-> [x \in Nat |-> x \div Base]]
<1>1. Width \in Nat /\ Base \in Nat \ {0}
  BY FrameAssumption
<1>2. step \in [Nat -> [Nat -> Nat]]
  BY <1>1, DivisionLaw
<1>3. PICK f : Recursive(f, Width, Nat, value, step)
  <2> HIDE DEF step
  <2> QED
    BY <1>1, <1>2, RecursionExists
<1>4. Shifts(f, value)
  <2>1. /\ f \in [0..Width -> Nat]
        /\ \A m \in 0..Width : f[m] = IF m = 0 THEN value ELSE f[m - 1] \div Base
    <3>1. \A m, x \in Nat : step[m][x] = x \div Base
      OBVIOUS
    <3> HIDE DEF step
    <3>2. \A m \in 0..Width : m # 0 => m \in Nat /\ f[m - 1] \in Nat
      BY <1>1, <1>3 DEF Recursive
    <3> QED
      BY <1>3, <3>1, <3>2 DEF Recursive
  <2> QED
    BY <2>1 DEF Shifts
<1>5. PICK u : Shifts(u, value) /\ MQ!BigEndian(value) = [i \in 1..Width |-> u[Width - i] % Base]
  BY <1>4 DEF Shifts, MQ!BigEndian
<1> DEFINE S == {m \in 0..Width : u[m] \in Nat}
<1>6. 0 \in S
  BY <1>1, <1>5 DEF Shifts
<1>7. \A m \in 0..(Width - 1) : m \in S => m + 1 \in S
  <2> SUFFICES ASSUME NEW m \in 0..(Width - 1), u[m] \in Nat
               PROVE  u[m + 1] \in Nat
    BY <1>1
  <2>1. u[m + 1] = u[m] \div Base
    BY <1>1, <1>5 DEF Shifts
  <2> QED
    BY <1>1, <2>1, DivisionLaw
<1>8. 0..Width \subseteq S
  <2> HIDE DEF S
  <2> QED
    BY <1>1, <1>6, <1>7, StepByStep
<1>9. u \in [0..Width -> Nat] /\ u[0] = value /\ \A n \in 1..Width : u[n] = u[n - 1] \div Base
  BY <1>1, <1>5, <1>8 DEF Shifts
<1> QED
  BY <1>5, <1>9

LEMMA ReadBEReads ==
  ASSUME NEW buf \in Seq(MQ!Bytes), Len(buf) >= Width
  PROVE  \E r \in [0..Width -> Nat] :
           /\ r[0] = 0
           /\ \A n \in 1..Width : r[n] = r[n - 1] * Base + buf[n]
           /\ MQ!ReadBE(buf) = r[Width]
<1> DEFINE digit(m) == IF m \in 1..Width THEN buf[m] ELSE 0
           step == [m \in Nat |-> [x \in Nat |-> x * Base + digit(m)]]
<1>1. Width \in Nat /\ Base \in Nat \ {0} /\ \A n \in 1..Width : buf[n] \in Nat
  BY ByteIsDigit
<1>2. step \in [Nat -> [Nat -> Nat]]
  <2>1. \A m \in Nat : digit(m) \in Nat
    BY <1>1
  <2> HIDE DEF digit
  <2>2. \A m, x \in Nat : x * Base + digit(m) \in Nat
    <3> SUFFICES ASSUME NEW m \in Nat, NEW x \in Nat
                 PROVE  x * Base + digit(m) \in Nat
      OBVIOUS
    <3>1. x * Base \in Nat
      BY <1>1
    <3>2. digit(m) \in Nat
      BY <2>1
    <3> DEFINE y == x * Base
               z == digit(m)
    <3> HIDE DEF y, z
    <3>3. y + z \in Nat
      BY <3>1, <3>2 DEF y, z
    <3> QED
      BY <3>3 DEF y, z
  <2> QED
    BY <2>2
<1>3. PICK f : Recursive(f, Width, Nat, 0, step)
  <2> HIDE DEF step
  <2> QED
    BY <1>1, <1>2, RecursionExists
<1>4. Reads(f, buf)
  <2>1. /\ f \in [0..Width -> Nat]
        /\ \A m \in 0..Width : f[m] = IF m = 0 THEN 0 ELSE f[m - 1] * Base + buf[m]
    <3>1. \A m, x \in Nat : step[m][x] = x * Base + digit(m)
      OBVIOUS
    <3> HIDE DEF step
    <3>2. \A m \in 0..Width : m # 0 => m \in Nat /\ f[m - 1] \in Nat /\ digit(m) = buf[m]
      BY <1>1, <1>3 DEF Recursive
    <3> HIDE DEF digit
    <3> QED
      BY <1>3, <3>1, <3>2 DEF Recursive
  <2> QED
    BY <2>1 DEF Reads
<1>5. PICK r : Reads(r, buf) /\ MQ!ReadBE(buf) = r[Width]
  BY <1>4 DEF Reads, MQ!ReadBE
<1> DEFINE S == {m \in 0..Width : r[m] \in Nat}
<1>6. 0 \in S
  BY <1>1, <1>5 DEF Reads
<1>7. \A m \in 0..(Width - 1) : m \in S => m + 1 \in S
  <2> SUFFICES ASSUME NEW m \in 0..(Width - 1), r[m] \in Nat
               PROVE  r[m + 1] \in Nat
    BY <1>1
  <2>1. r[m + 1] = r[m] * Base + buf[m + 1]
    BY <1>1, <1>5 DEF Reads
  <2>2. r[m] * Base \in Nat /\ buf[m + 1] \in Nat
    BY <1>1
  <2> QED
    BY <2>1, <2>2
<1>8. 0..Width \subseteq S
  <2> HIDE DEF S
  <2> QED
    BY <1>1, <1>6, <1>7, StepByStep
<1>9. /\ r \in [0..Width -> Nat] /\ r[0] = 0
      /\ \A n \in 1..Width : r[n] = r[n - 1] * Base + buf[n]
  BY <1>1, <1>5, <1>8 DEF Reads
<1> QED
  BY <1>5, <1>9

(* readBE32 gives back what writeBE32 wrote. *)
LEMMA ReadsWhatWasWritten ==
  ASSUME NEW value \in Nat, value < MQ!Modulus,
         NEW buf \in Seq(MQ!Bytes), Len(buf) >= Width,
         \A i \in 1..Width : buf[i] = MQ!BigEndian(value)[i]
  PROVE  MQ!ReadBE(buf) = value
<1>1. PICK u \in [0..Width -> Nat] :
        /\ u[0] = value
        /\ \A n \in 1..Width : u[n] = u[n - 1] \div Base
        /\ MQ!BigEndian(value) = [i \in 1..Width |-> u[Width - i] % Base]
  BY BigEndianShifts
<1>2. PICK r \in [0..Width -> Nat] :
        /\ r[0] = 0
        /\ \A n \in 1..Width : r[n] = r[n - 1] * Base + buf[n]
        /\ MQ!ReadBE(buf) = r[Width]
  BY ReadBEReads
<1>3. Width \in Nat \ {0} /\ Base \in Nat \ {0}
  BY FrameAssumption
<1>4. u[Width] = 0
  <2> DEFINE S == {m \in 0..Width : u[m] < MQ!Values[Width - m]}
  <2>1. 0 \in S
    BY <1>1, <1>3 DEF MQ!Modulus
  <2>2. ASSUME NEW m \in 0..(Width - 1), u[m] < MQ!Values[Width - m]
        PROVE  u[m + 1] < MQ!Values[Width - (m + 1)]
    <3>1. /\ Width - m \in 1..Width /\ Width - (m + 1) \in 0..Width
          /\ (Width - m) - 1 = Width - (m + 1)
      BY <1>3
    <3>2. /\ MQ!Values[Width - m] = MQ!Values[Width - (m + 1)] * Base
          /\ MQ!Values[Width - (m + 1)] \in Nat
      BY <3>1, ValuesAreCounted
    <3>3. u[m + 1] = u[m] \div Base /\ u[m] \in Nat
      BY <1>1, <1>3
    <3> QED
      BY <1>3, <2>2, <3>2, <3>3, DivisionBound
  <2>3. ASSUME NEW m \in 0..(Width - 1), m \in S
        PROVE  m + 1 \in S
    <3>1. m + 1 \in 0..Width /\ u[m] < MQ!Values[Width - m]
      BY <1>3, <2>3
    <3> QED
      BY <2>2, <3>1
  <2>4. 0..Width \subseteq S
    <3> HIDE DEF S
    <3> QED
      BY <1>3, <2>1, <2>3, StepByStep
  <2>5. u[Width] < MQ!Values[0] /\ u[Width] \in Nat
    BY <1>1, <1>3, <2>4
  <2> QED
    BY <2>5, ValuesAreCounted
<1> DEFINE S == {m \in 0..Width : r[m] = u[Width - m]}
<1>5. 0 \in S
  BY <1>2, <1>3, <1>4
<1>6. ASSUME NEW m \in 0..(Width - 1), r[m] = u[Width - m]
      PROVE  r[m + 1] = u[Width - (m + 1)]
  <2>1. /\ m + 1 \in 1..Width /\ Width - m \in 1..Width /\ Width - (m + 1) \in 0..Width
        /\ (Width - m) - 1 = Width - (m + 1) /\ (m + 1) - 1 = m
    BY <1>3
  <2>2. r[m + 1] = u[Width - m] * Base + (u[Width - (m + 1)] % Base)
    BY <1>1, <1>2, <1>6, <2>1
  <2>3. u[Width - m] = u[Width - (m + 1)] \div Base /\ u[Width - (m + 1)] \in Nat
    BY <1>1, <2>1
  <2> QED
    BY <1>3, <2>2, <2>3, DivisionLaw
<1>7. ASSUME NEW m \in 0..(Width - 1), m \in S
      PROVE  m + 1 \in S
  <2>1. m + 1 \in 0..Width /\ r[m] = u[Width - m]
    BY <1>3, <1>7
  <2> QED
    BY <1>6, <2>1
<1>8. 0..Width \subseteq S
  <2> HIDE DEF S
  <2> QED
    BY <1>3, <1>5, <1>7, StepByStep
<1>9. r[Width] = u[0]
  BY <1>3, <1>8
<1> QED
  BY <1>1, <1>2, <1>9
(* The frames of sent follow one another in stream; the i-th ends at       *)
(* ends[i].                                                                *)
FramesFollow(ends, stream, sent) ==
  /\ ends \in [0..Len(sent) -> Nat]
  /\ ends[0] = 0 /\ ends[Len(sent)] = Len(stream)
  /\ \A i, j \in 0..Len(sent) : i <= j => ends[i] <= ends[j]
  /\ \A i \in 1..Len(sent) :
       /\ ends[i] = ends[i - 1] + Width + Len(sent[i])
       /\ \A k \in 1..(Width + Len(sent[i])) :
            stream[ends[i - 1] + k] = MQ!FrameMessage(sent[i])[k]

TransportTypeOK ==
  /\ connects \in Nat
  /\ connection \in [Clients -> 0..connects]
  /\ onWire \in Seq(MQ!Bytes) /\ arrived \in Seq(MQ!Bytes)
  /\ unreceived \in Seq(MQ!Payloads)
  /\ noise \in BOOLEAN

(* What has arrived and what is on the way are the frames that were sent   *)
(* and not taken.                                                          *)
StreamOfFrames ==
  ~noise => \E ends : FramesFollow(ends, arrived \o onWire, unreceived)

TransportInv == TransportTypeOK /\ MQ!OneOwner /\ StreamOfFrames

LEMMA PayloadIsSequence ==
  ASSUME NEW p \in MQ!Payloads
  PROVE  p \in Seq(MQ!Bytes) /\ Len(p) \in Nat /\ Len(p) <= MaxPayload
BY FrameAssumption DEF MQ!Payloads

(* A frame is the length and the payload. *)
LEMMA FrameShape ==
  ASSUME NEW p \in MQ!Payloads
  PROVE  /\ MQ!FrameMessage(p) \in Seq(MQ!Bytes)
         /\ Len(MQ!FrameMessage(p)) = Width + Len(p)
         /\ \A k \in 1..Width : MQ!FrameMessage(p)[k] = MQ!BigEndian(Len(p))[k]
         /\ \A k \in 1..Len(p) : MQ!FrameMessage(p)[Width + k] = p[k]
<1>1. p \in Seq(MQ!Bytes) /\ Len(p) \in Nat
  BY PayloadIsSequence
<1>2. Width \in Nat /\ Base \in Nat \ {0}
  BY FrameAssumption
<1> DEFINE length == MQ!BigEndian(Len(p))
<1>3. PICK u \in [0..Width -> Nat] : length = [i \in 1..Width |-> u[Width - i] % Base]
  BY <1>1, BigEndianShifts
<1>4. \A i \in 1..Width : u[Width - i] \in Nat
  BY <1>2, <1>3
<1>5. \A i \in 1..Width : u[Width - i] % Base \in MQ!Bytes
  BY <1>2, <1>4, DivisionLaw, ByteIsDigit
<1> HIDE DEF length
<1>6. length \in Seq(MQ!Bytes) /\ Len(length) = Width
  BY <1>2, <1>3, <1>5
<1>7. MQ!FrameMessage(p) = length \o p
  BY DEF MQ!FrameMessage, length
<1>8. /\ length \o p \in Seq(MQ!Bytes)
      /\ Len(length \o p) = Width + Len(p)
      /\ \A k \in 1..Width : (length \o p)[k] = length[k]
  BY <1>1, <1>2, <1>6
<1>9. ASSUME NEW k \in 1..Len(p)
      PROVE  (length \o p)[Width + k] = p[k]
  <2>1. Width + k \in 1..(Width + Len(p)) /\ ~(Width + k <= Width) /\ (Width + k) - Width = k
    BY <1>1, <1>2
  <2> QED
    BY <1>1, <1>2, <1>6, <2>1
<1> QED
  BY <1>7, <1>8, <1>9 DEF length

(* The length that parseFrame reads where a frame begins. *)
LEMMA LengthIsRead ==
  ASSUME NEW p \in MQ!Payloads, NEW buf \in Seq(MQ!Bytes), Len(buf) >= Width,
         \A k \in 1..Width : buf[k] = MQ!FrameMessage(p)[k]
  PROVE  MQ!ReadBE(buf) = Len(p)
<1>1. Len(p) \in Nat /\ Len(p) < MQ!Modulus
  <2>1. Len(p) \in Nat /\ Len(p) <= MaxPayload
    BY PayloadIsSequence
  <2>2. MQ!Modulus \in Nat /\ MaxPayload \in Nat /\ Width \in Nat
    BY FrameAssumption, ValuesAreCounted DEF MQ!Modulus
  <2> QED
    BY <2>1, <2>2, FrameAssumption
<1>2. \A k \in 1..Width : buf[k] = MQ!BigEndian(Len(p))[k]
  BY FrameShape
<1> QED
  BY <1>1, <1>2, ReadsWhatWasWritten

(* 4 + length does not wrap for a length that parseFrame accepts. *)
LEMMA ParsesWhole ==
  ASSUME NEW buf \in Seq(MQ!Bytes)
  PROVE  MQ!Parses(buf) <=>
           /\ Len(buf) >= Width
           /\ MQ!ReadBE(buf) <= MaxPayload
           /\ Len(buf) >= Width + MQ!ReadBE(buf)
<1>1. CASE ~(Len(buf) >= Width)
  BY <1>1 DEF MQ!Parses
<1>2. CASE Len(buf) >= Width
  <2>1. MQ!ReadBE(buf) \in Nat
    BY <1>2, FrameAssumption, ReadBEReads
  <2>2. MQ!Modulus \in Nat /\ MaxPayload \in Nat /\ Width \in Nat
    BY FrameAssumption, ValuesAreCounted DEF MQ!Modulus
  <2>3. ASSUME MQ!ReadBE(buf) <= MaxPayload
        PROVE  (Width + MQ!ReadBE(buf)) % MQ!Modulus = Width + MQ!ReadBE(buf)
    <3> DEFINE total == Width + MQ!ReadBE(buf)
    <3>1. total \in Nat /\ total < MQ!Modulus
      BY <2>1, <2>2, <2>3, FrameAssumption
    <3> HIDE DEF total
    <3>2. total % MQ!Modulus = total
      BY <2>2, <3>1
    <3> QED
      BY <3>2 DEF total
  <2> QED
    BY <1>2, <2>3 DEF MQ!Parses, MQ!Acceptable
<1> QED
  BY <1>1, <1>2

LEMMA HeadOfStream ==
  ASSUME TransportTypeOK, NEW ends, FramesFollow(ends, arrived \o onWire, unreceived),
         unreceived # <<>>
  PROVE  LET p == Head(unreceived) IN
         /\ p \in MQ!Payloads
         /\ ends[1] = Width + Len(p)
         /\ Width + Len(p) <= Len(arrived \o onWire)
         /\ \A k \in 1..(Width + Len(p)) : (arrived \o onWire)[k] = MQ!FrameMessage(p)[k]
<1> DEFINE p == Head(unreceived)
           stream == arrived \o onWire
<1>1. /\ unreceived \in Seq(MQ!Payloads) /\ Len(unreceived) \in Nat /\ Len(unreceived) >= 1
      /\ p = unreceived[1] /\ p \in MQ!Payloads
  BY DEF TransportTypeOK
<1>2. Width \in Nat /\ Len(p) \in Nat
  BY <1>1, FrameAssumption, PayloadIsSequence
<1> HIDE DEF p, stream
<1>3. FramesFollow(ends, stream, unreceived)
  BY DEF stream
<1>4. /\ 1 \in 1..Len(unreceived) /\ 1 \in 0..Len(unreceived)
      /\ Len(unreceived) \in 0..Len(unreceived) /\ 1 - 1 = 0
  BY <1>1
<1>5. /\ ends[1] = ends[0] + Width + Len(p) /\ ends[0] = 0
      /\ ends[1] <= Len(stream)
      /\ \A k \in 1..(Width + Len(p)) : stream[ends[0] + k] = MQ!FrameMessage(p)[k]
  BY <1>1, <1>3, <1>4 DEF FramesFollow
<1>6. \A k \in 1..(Width + Len(p)) : stream[k] = MQ!FrameMessage(p)[k]
  BY <1>2, <1>5
<1> QED
  BY <1>1, <1>2, <1>5, <1>6 DEF p, stream

(* Nothing arrives of no frames. *)
LEMMA NothingToArrive ==
  ASSUME TransportTypeOK, NEW ends, FramesFollow(ends, arrived \o onWire, unreceived),
         unreceived = <<>>
  PROVE  arrived = <<>>
<1>1. Len(arrived \o onWire) = 0
  BY DEF FramesFollow
<1> QED
  BY <1>1 DEF TransportTypeOK

(* The whole head frame has arrived exactly if the parser finds it, and    *)
(* the payload is then the one that was sent.                              *)
LEMMA HeadIsParsed ==
  ASSUME TransportTypeOK, NEW ends, FramesFollow(ends, arrived \o onWire, unreceived)
  PROVE  /\ MQ!Parses(arrived) <=>
              /\ unreceived # <<>>
              /\ Len(arrived) >= Width + Len(Head(unreceived))
         /\ MQ!Parses(arrived) => MQ!Payload(arrived) = Head(unreceived)
<1>0. Width \in Nat \ {0} /\ arrived \in Seq(MQ!Bytes) /\ onWire \in Seq(MQ!Bytes)
  BY FrameAssumption DEF TransportTypeOK
<1>1. CASE unreceived = <<>>
  <2>1. Len(arrived) = 0
    BY <1>1, NothingToArrive
  <2>2. ~MQ!Parses(arrived)
    BY <1>0, <2>1 DEF MQ!Parses
  <2> QED
    BY <1>1, <2>2
<1>2. CASE unreceived # <<>>
  <2> DEFINE p == Head(unreceived)
  <2>1. /\ p \in MQ!Payloads
        /\ \A k \in 1..(Width + Len(p)) : (arrived \o onWire)[k] = MQ!FrameMessage(p)[k]
    BY <1>2, HeadOfStream
  <2> HIDE DEF p
  <2>2. p \in Seq(MQ!Bytes) /\ Len(p) \in Nat /\ Len(p) <= MaxPayload
    BY <2>1, PayloadIsSequence
  <2>3. \A k \in 1..Len(arrived) : (arrived \o onWire)[k] = arrived[k]
    BY <1>0
  <2>4. \A k \in 1..(Width + Len(p)) : k <= Len(arrived) => arrived[k] = MQ!FrameMessage(p)[k]
    BY <1>0, <2>1, <2>2, <2>3
  <2>5. ASSUME Len(arrived) >= Width
        PROVE  MQ!ReadBE(arrived) = Len(p)
    <3>1. \A k \in 1..Width : arrived[k] = MQ!FrameMessage(p)[k]
      BY <1>0, <2>2, <2>4, <2>5
    <3> QED
      BY <1>0, <2>1, <2>5, <3>1, LengthIsRead
  <2>6. MQ!Parses(arrived) <=> Len(arrived) >= Width + Len(p)
    BY <1>0, <2>2, <2>5, ParsesWhole
  <2>7. ASSUME MQ!Parses(arrived)
        PROVE  MQ!Payload(arrived) = p
    <3>1. Len(arrived) >= Width + Len(p) /\ Len(arrived) >= Width
      BY <1>0, <2>2, <2>6, <2>7
    <3>2. MQ!Payload(arrived) = SubSeq(arrived, Width + 1, Width + Len(p))
      BY <2>5, <3>1 DEF MQ!Payload
    <3>3. \A k \in 1..Len(p) : arrived[Width + k] = p[k]
      <4> SUFFICES ASSUME NEW k \in 1..Len(p)
                   PROVE  arrived[Width + k] = p[k]
        OBVIOUS
      <4>1. Width + k \in 1..(Width + Len(p)) /\ Width + k <= Len(arrived)
        BY <1>0, <2>2, <3>1
      <4> QED
        BY <2>1, <2>4, <4>1, FrameShape
    <3> DEFINE cut == SubSeq(arrived, Width + 1, Width + Len(p))
    <3>4. cut \in Seq(MQ!Bytes) /\ Len(cut) = Len(p) /\ \A k \in 1..Len(p) : cut[k] = arrived[Width + k]
      <4>1. /\ Width + 1 \in Nat /\ Width + Len(p) \in Nat /\ Len(arrived) \in Nat
            /\ Width + 1 \in 1..(Len(arrived) + 1) /\ Width + Len(p) \in Width..Len(arrived)
        BY <1>0, <2>2, <3>1
      <4>2. cut \in Seq(MQ!Bytes)
        BY <1>0, <4>1
      <4>3. Len(cut) = Len(p)
        BY <1>0, <2>2, <4>1
      <4>4. ASSUME NEW k \in 1..Len(p)
            PROVE  cut[k] = arrived[Width + k]
        <5>1. k \in 1..Len(cut) /\ (Width + 1) + k - 1 = Width + k
          BY <1>0, <4>3
        <5> QED
          BY <1>0, <2>2, <4>1, <5>1
      <4> QED
        BY <4>2, <4>3, <4>4
    <3> HIDE DEF cut
    <3>5. cut = p
      BY <2>2, <3>3, <3>4
    <3> QED
      BY <3>2, <3>5 DEF cut
  <2> QED
    BY <1>2, <2>6, <2>7 DEF p
<1> QED
  BY <1>1, <1>2

-----------------------------------------------------------------------------
LEMMA FrameIsAdded ==
  ASSUME NEW stream \in Seq(MQ!Bytes), NEW sent \in Seq(MQ!Payloads), NEW ends,
         FramesFollow(ends, stream, sent), NEW p \in MQ!Payloads
  PROVE  \E e : FramesFollow(e, stream \o MQ!FrameMessage(p), Append(sent, p))
<1> DEFINE n == Len(sent)
           F == MQ!FrameMessage(p)
           longer == stream \o F
           all == Append(sent, p)
           e == [i \in 0..(n + 1) |-> IF i = n + 1 THEN Len(stream) + Width + Len(p) ELSE ends[i]]
<1>1. /\ n \in Nat /\ Len(stream) \in Nat /\ Width \in Nat /\ Len(p) \in Nat
      /\ F \in Seq(MQ!Bytes) /\ Len(F) = Width + Len(p)
  BY FrameAssumption, PayloadIsSequence, FrameShape
<1>2. /\ Len(all) = n + 1 /\ all[n + 1] = p
      /\ \A i \in 1..n : all[i] = sent[i] /\ Len(sent[i]) \in Nat
  <2>1. \A i \in 1..n : sent[i] \in MQ!Payloads
    OBVIOUS
  <2> QED
    BY <2>1, PayloadIsSequence
<1>3. /\ Len(longer) = Len(stream) + Width + Len(p)
      /\ \A k \in 1..Len(stream) : longer[k] = stream[k]
      /\ \A k \in 1..Len(F) : longer[Len(stream) + k] = F[k]
  <2> HIDE DEF F
  <2> QED
    BY <1>1
<1>4. /\ ends \in [0..n -> Nat] /\ ends[0] = 0 /\ ends[n] = Len(stream)
      /\ \A i, j \in 0..n : i <= j => ends[i] <= ends[j]
      /\ \A i \in 1..n : /\ ends[i] = ends[i - 1] + Width + Len(sent[i])
                         /\ \A k \in 1..(Width + Len(sent[i])) :
                              stream[ends[i - 1] + k] = MQ!FrameMessage(sent[i])[k]
  BY DEF FramesFollow
<1> HIDE DEF longer, all, F
<1>5. /\ e \in [0..(n + 1) -> Nat] /\ e[0] = 0 /\ e[n + 1] = Len(longer)
      /\ \A i \in 0..n : e[i] = ends[i] /\ e[i] <= Len(stream) /\ e[i] \in Nat
  <2>1. \A i \in 0..n : i \in 0..(n + 1) /\ i # n + 1 /\ n \in 0..n /\ i <= n
    BY <1>1
  <2>2. \A i \in 0..n : ends[i] <= Len(stream) /\ ends[i] \in Nat
    BY <1>4, <2>1
  <2>3. \A i \in 0..n : e[i] = ends[i]
    BY <2>1
  <2>4. e[n + 1] = Len(longer) /\ Len(stream) + Width + Len(p) \in Nat
    BY <1>1, <1>3
  <2>5. e \in [0..(n + 1) -> Nat]
    BY <1>1, <2>2, <2>4
  <2>6. 0 \in 0..n
    BY <1>1
  <2> HIDE DEF e
  <2> QED
    BY <1>4, <2>2, <2>3, <2>4, <2>5, <2>6
<1> HIDE DEF e
<1>6. \A i, j \in 0..(n + 1) : i <= j => e[i] <= e[j]
  <2> SUFFICES ASSUME NEW i \in 0..(n + 1), NEW j \in 0..(n + 1), i <= j
               PROVE  e[i] <= e[j]
    OBVIOUS
  <2>1. CASE j = n + 1
    BY <1>1, <1>3, <1>5, <2>1
  <2>2. CASE j # n + 1
    <3>1. i \in 0..n /\ j \in 0..n
      BY <1>1, <2>2
    <3> QED
      BY <1>4, <1>5, <3>1
  <2> QED
    BY <2>1, <2>2
<1>7. ASSUME NEW i \in 1..(n + 1)
      PROVE  /\ e[i] = e[i - 1] + Width + Len(all[i])
             /\ \A k \in 1..(Width + Len(all[i])) :
                  longer[e[i - 1] + k] = MQ!FrameMessage(all[i])[k]
  <2>1. CASE i = n + 1
    <3>1. i - 1 = n /\ e[i - 1] = Len(stream) /\ e[i] = Len(longer) /\ all[i] = p
      BY <1>1, <1>2, <1>4, <1>5, <2>1
    <3> QED
      BY <1>1, <1>3, <3>1 DEF F
  <2>2. CASE i # n + 1
    <3>1. i \in 1..n /\ i - 1 \in 0..n /\ i \in 0..n
      BY <1>1, <2>2
    <3>2. /\ e[i] = ends[i] /\ e[i - 1] = ends[i - 1] /\ all[i] = sent[i]
          /\ Len(sent[i]) \in Nat /\ ends[i - 1] \in Nat /\ ends[i] <= Len(stream)
          /\ ends[i] = ends[i - 1] + Width + Len(sent[i])
      BY <1>2, <1>4, <1>5, <3>1
    <3>3. ASSUME NEW k \in 1..(Width + Len(sent[i]))
          PROVE  longer[ends[i - 1] + k] = MQ!FrameMessage(sent[i])[k]
      <4>1. ends[i - 1] + k \in 1..Len(stream)
        <5> DEFINE a == ends[i - 1]
                   l == Len(sent[i])
        <5>1. a \in Nat /\ l \in Nat /\ k \in 1..(Width + l) /\ a + Width + l <= Len(stream)
          BY <3>2
        <5> HIDE DEF a, l
        <5>2. a + k \in 1..Len(stream)
          BY <1>1, <5>1
        <5> QED
          BY <5>2 DEF a
      <4> QED
        BY <1>3, <1>4, <3>1, <4>1
    <3> QED
      BY <3>2, <3>3
  <2> QED
    BY <2>1, <2>2
<1>8. FramesFollow(e, longer, all)
  BY <1>2, <1>5, <1>6, <1>7 DEF FramesFollow
<1> QED
  BY <1>8 DEF longer, all, F

(* b is a without its first n elements.                                    *)
Behind(b, a, n) ==
  /\ Len(b) = Len(a) - n
  /\ \A k \in 1..Len(b) : b[k] = a[n + k]

LEMMA FrameIsTaken ==
  ASSUME NEW stream \in Seq(MQ!Bytes), NEW sent \in Seq(MQ!Payloads), NEW ends,
         FramesFollow(ends, stream, sent), sent # <<>>,
         NEW rest \in Seq(MQ!Bytes), Behind(rest, stream, ends[1])
  PROVE  \E e : FramesFollow(e, rest, Tail(sent))
<1> USE DEF Behind
<1> DEFINE n == Len(sent)
           e == [i \in 0..(n - 1) |-> ends[i + 1] - ends[1]]
<1>1. n \in Nat \ {0} /\ Len(stream) \in Nat /\ Width \in Nat /\ Len(rest) \in Nat
  BY FrameAssumption
<1>2. /\ Len(Tail(sent)) = n - 1
      /\ \A i \in 1..(n - 1) : Tail(sent)[i] = sent[i + 1] /\ Len(sent[i + 1]) \in Nat
  <2>1. \A i \in 1..(n - 1) : sent[i + 1] \in MQ!Payloads
    BY <1>1
  <2> QED
    BY <1>1, <2>1, PayloadIsSequence
<1>3. /\ ends \in [0..n -> Nat] /\ ends[n] = Len(stream)
      /\ \A i, j \in 0..n : i <= j => ends[i] <= ends[j]
      /\ \A i \in 1..n : /\ ends[i] = ends[i - 1] + Width + Len(sent[i])
                         /\ \A k \in 1..(Width + Len(sent[i])) :
                              stream[ends[i - 1] + k] = MQ!FrameMessage(sent[i])[k]
  BY DEF FramesFollow
<1>4. \A i \in 0..(n - 1) : /\ i + 1 \in 0..n /\ ends[i + 1] \in Nat /\ ends[1] \in Nat
                            /\ ends[1] <= ends[i + 1]
                            /\ e[i] = ends[i + 1] - ends[1]
  <2>1. \A i \in 0..(n - 1) : i + 1 \in 0..n /\ 1 \in 0..n /\ 1 <= i + 1
    BY <1>1
  <2> QED
    BY <1>3, <2>1
<1>5. e \in [0..(n - 1) -> Nat]
  <2>1. \A i \in 0..(n - 1) : ends[i + 1] - ends[1] \in Nat
    BY <1>4
  <2> QED
    BY <2>1
<1>6. e[0] = 0 /\ e[n - 1] = Len(rest)
  BY <1>1, <1>3, <1>4
<1> HIDE DEF e
<1>7. \A i, j \in 0..(n - 1) : i <= j => e[i] <= e[j]
  <2> SUFFICES ASSUME NEW i \in 0..(n - 1), NEW j \in 0..(n - 1), i <= j
               PROVE  e[i] <= e[j]
    OBVIOUS
  <2>1. i + 1 \in 0..n /\ j + 1 \in 0..n /\ i + 1 <= j + 1
    BY <1>1
  <2>2. ends[i + 1] <= ends[j + 1]
    BY <1>3, <2>1
  <2> QED
    BY <1>4, <2>2
<1>8. ASSUME NEW i \in 1..(n - 1)
      PROVE  /\ e[i] = e[i - 1] + Width + Len(Tail(sent)[i])
             /\ \A k \in 1..(Width + Len(Tail(sent)[i])) :
                  rest[e[i - 1] + k] = MQ!FrameMessage(Tail(sent)[i])[k]
  <2>1. i + 1 \in 1..n /\ i + 1 \in 0..n /\ (i + 1) - 1 = i /\ i \in 0..n /\ i \in 0..(n - 1)
        /\ i - 1 \in 0..(n - 1) /\ (i - 1) + 1 = i
    BY <1>1
  <2>2. /\ ends[i + 1] = ends[i] + Width + Len(sent[i + 1])
        /\ Tail(sent)[i] = sent[i + 1] /\ Len(sent[i + 1]) \in Nat
        /\ e[i] = ends[i + 1] - ends[1] /\ e[i - 1] = ends[i] - ends[1]
        /\ ends[i + 1] \in Nat /\ ends[1] \in Nat /\ ends[i] \in Nat /\ ends[1] <= ends[i]
        /\ ends[i + 1] <= Len(stream)
    <3>1. ends[i + 1] <= Len(stream)
      BY <1>1, <1>3, <2>1
    <3> QED
      BY <1>2, <1>3, <1>4, <2>1, <3>1
  <2>3. ASSUME NEW k \in 1..(Width + Len(sent[i + 1]))
        PROVE  rest[e[i - 1] + k] = MQ!FrameMessage(sent[i + 1])[k]
    <3>1. e[i - 1] + k \in 1..Len(rest) /\ ends[1] + (e[i - 1] + k) = ends[i] + k
      <4> DEFINE a == ends[i]
                 b == ends[1]
                 l == Len(sent[i + 1])
      <4>1. /\ a \in Nat /\ b \in Nat /\ l \in Nat /\ b <= a /\ k \in 1..(Width + l)
            /\ a + Width + l <= Len(stream) /\ e[i - 1] = a - b /\ Len(rest) = Len(stream) - b
        BY <2>2
      <4> HIDE DEF a, b, l
      <4>2. e[i - 1] + k \in 1..Len(rest) /\ b + (e[i - 1] + k) = a + k
        BY <1>1, <4>1
      <4> QED
        BY <4>2 DEF a, b
    <3>2. stream[ends[i] + k] = MQ!FrameMessage(sent[i + 1])[k]
      BY <1>3, <2>1
    <3> QED
      BY <3>1, <3>2
  <2>4. e[i] = e[i - 1] + Width + Len(sent[i + 1])
    <3> DEFINE a == ends[i]
               b == ends[1]
               l == Len(sent[i + 1])
    <3>1. /\ a \in Nat /\ b \in Nat /\ l \in Nat
          /\ e[i - 1] = a - b /\ e[i] = (a + Width + l) - b
      BY <2>2
    <3> HIDE DEF a, b, l
    <3>2. e[i] = e[i - 1] + Width + l
      BY <1>1, <3>1
    <3> QED
      BY <3>2 DEF l
  <2> QED
    BY <2>2, <2>3, <2>4
<1>9. FramesFollow(e, rest, Tail(sent))
  BY <1>2, <1>5, <1>6, <1>7, <1>8 DEF FramesFollow
<1> QED
  BY <1>9

(* A byte that moves from the front of b to the end of a.                  *)
LEMMA ByteMoves ==
  ASSUME NEW B, NEW a \in Seq(B), NEW b \in Seq(B), b # <<>>
  PROVE  Append(a, Head(b)) \o Tail(b) = a \o b
<1> DEFINE c == Append(a, Head(b))
<1>1. /\ c \in Seq(B) /\ Len(c) = Len(a) + 1 /\ c[Len(a) + 1] = b[1]
      /\ \A k \in 1..Len(a) : c[k] = a[k]
      /\ Tail(b) \in Seq(B) /\ Len(Tail(b)) = Len(b) - 1
      /\ \A k \in 1..(Len(b) - 1) : Tail(b)[k] = b[k + 1]
      /\ Len(a) \in Nat /\ Len(b) \in Nat \ {0}
  OBVIOUS
<1> DEFINE t == Tail(b)
<1> HIDE DEF c, t
<1>2. /\ c \o t \in Seq(B) /\ Len(c \o t) = Len(a) + Len(b)
      /\ a \o b \in Seq(B) /\ Len(a \o b) = Len(a) + Len(b)
  BY <1>1 DEF t
<1>3. ASSUME NEW k \in 1..(Len(a) + Len(b))
      PROVE  (c \o t)[k] = (a \o b)[k]
  <2>1. CASE k <= Len(a)
    BY <1>1, <2>1 DEF t
  <2>2. CASE k = Len(a) + 1
    BY <1>1, <2>2 DEF t
  <2>3. CASE k > Len(a) + 1
    <3>1. (c \o t)[k] = t[k - (Len(a) + 1)]
      <4>1. t \in Seq(B) /\ Len(t) = Len(b) - 1
        BY <1>1 DEF t
      <4>2. k \in 1..(Len(c) + Len(t)) /\ ~(k <= Len(c)) /\ k - Len(c) = k - (Len(a) + 1)
        BY <1>1, <2>3, <4>1
      <4>3. (c \o t)[k] = t[k - Len(c)]
        BY <1>1, <4>1, <4>2
      <4> QED
        BY <4>2, <4>3
    <3>2. k - (Len(a) + 1) \in 1..(Len(b) - 1) /\ (k - (Len(a) + 1)) + 1 = k - Len(a)
      BY <1>1, <2>3
    <3>3. (a \o b)[k] = b[k - Len(a)]
      BY <1>1, <2>3
    <3> QED
      BY <1>1, <3>1, <3>2, <3>3 DEF t
  <2>4. k \in Nat /\ Len(a) \in Nat
    BY <1>1
  <2>5. k <= Len(a) \/ k = Len(a) + 1 \/ k > Len(a) + 1
    BY <2>4
  <2> QED
    BY <2>1, <2>2, <2>3, <2>5
<1>4. c \o t = a \o b
  BY <1>2, <1>3
<1> QED
  BY <1>4 DEF c, t

LEMMA ConcatLength ==
  ASSUME NEW B, NEW a \in Seq(B), NEW b \in Seq(B)
  PROVE  /\ a \o b \in Seq(B) /\ Len(a \o b) = Len(a) + Len(b)
         /\ Len(a) \in Nat /\ Len(b) \in Nat
OBVIOUS

LEMMA ConcatAssociates ==
  ASSUME NEW B, NEW a \in Seq(B), NEW b \in Seq(B), NEW c \in Seq(B)
  PROVE  a \o (b \o c) = (a \o b) \o c
OBVIOUS

(* The front of a that is dropped is one of a \o w.                        *)
LEMMA FrontIsDropped ==
  ASSUME NEW B, NEW a \in Seq(B), NEW w \in Seq(B), NEW b \in Seq(B), NEW n \in Nat,
         n <= Len(a), Behind(b, a, n)
  PROVE  b \o w \in Seq(B) /\ Behind(b \o w, a \o w, n)
<1>0. Len(b) = Len(a) - n /\ \A k \in 1..Len(b) : b[k] = a[n + k]
  BY DEF Behind
<1>1. /\ b \o w \in Seq(B) /\ Len(b \o w) = Len(b) + Len(w)
      /\ Len(a \o w) = Len(a) + Len(w)
      /\ Len(a) \in Nat /\ Len(b) \in Nat /\ Len(w) \in Nat
  BY ConcatLength
<1>2. ASSUME NEW k \in 1..(Len(b) + Len(w))
      PROVE  (b \o w)[k] = (a \o w)[n + k]
  <2>1. CASE k <= Len(b)
    <3>1. n + k \in 1..Len(a)
      BY <1>0, <1>1, <2>1
    <3>2. (b \o w)[k] = b[k] /\ (a \o w)[n + k] = a[n + k]
      BY <1>1, <2>1, <3>1
    <3> QED
      BY <1>0, <2>1, <3>2
  <2>2. CASE k > Len(b)
    <3>1. n + k \in 1..(Len(a) + Len(w)) /\ n + k > Len(a) /\ (n + k) - Len(a) = k - Len(b)
      BY <1>0, <1>1, <2>2
    <3>2. (b \o w)[k] = w[k - Len(b)]
      BY <1>1, <2>2
    <3>3. (a \o w)[n + k] = w[(n + k) - Len(a)]
      BY <1>1, <3>1
    <3> QED
      BY <3>1, <3>2, <3>3
  <2>3. k <= Len(b) \/ k > Len(b)
    BY <1>1
  <2> QED
    BY <2>1, <2>2, <2>3
<1>3. Len(b \o w) = Len(a \o w) - n
  BY <1>0, <1>1
<1> QED
  BY <1>1, <1>2, <1>3 DEF Behind

-----------------------------------------------------------------------------
LEMMA TransportInitInv == MQ!Init => TransportInv
<1> SUFFICES ASSUME MQ!Init PROVE TransportInv
  OBVIOUS
<1>1. /\ connection = [c \in Clients |-> 0] /\ connects = 0 /\ live = {}
      /\ onWire = <<>> /\ arrived = <<>> /\ unreceived = <<>> /\ noise = FALSE
  BY DEF MQ!Init
<1>2. TransportTypeOK /\ MQ!OneOwner
  <2>1. connection \in [Clients -> 0..0] /\ connects \in Nat
    BY <1>1
  <2>2. {connection[c] : c \in Clients} \ {0} = {}
    BY <1>1
  <2>3. MQ!OneOwner
    BY <1>1, <2>2 DEF MQ!OneOwner
  <2>4. onWire \in Seq(MQ!Bytes) /\ arrived \in Seq(MQ!Bytes) /\ unreceived \in Seq(MQ!Payloads)
    BY <1>1
  <2> QED
    BY <1>1, <2>1, <2>3, <2>4 DEF TransportTypeOK
<1>3. FramesFollow([i \in 0..0 |-> 0], arrived \o onWire, unreceived)
  <2>1. Len(unreceived) = 0 /\ Len(arrived \o onWire) = 0
    BY <1>1
  <2> QED
    BY <2>1 DEF FramesFollow
<1> QED
  BY <1>2, <1>3 DEF TransportInv, StreamOfFrames

(* A step that changes no stream. *)
LEMMA ClientsKeep ==
  ASSUME TransportInv, UNCHANGED <<onWire, arrived, unreceived, noise>>,
         connects' \in Nat, connection' \in [Clients -> 0..connects'], MQ!OneOwner'
  PROVE  TransportInv'
BY DEF TransportInv, TransportTypeOK, StreamOfFrames

LEMMA TransportStep == TransportInv /\ [MQ!Next]_mqVars => TransportInv'
<1> SUFFICES ASSUME TransportInv, [MQ!Next]_mqVars
             PROVE  TransportInv'
  OBVIOUS
<1>0. /\ connects \in Nat /\ connection \in [Clients -> 0..connects]
      /\ onWire \in Seq(MQ!Bytes) /\ arrived \in Seq(MQ!Bytes)
      /\ unreceived \in Seq(MQ!Payloads) /\ noise \in BOOLEAN
      /\ live = {connection[c] : c \in Clients} \ {0}
      /\ \A c, d \in Clients : connection[c] = connection[d] /\ c # d => connection[c] = 0
  BY DEF TransportInv, TransportTypeOK, MQ!OneOwner
<1>1. ASSUME NEW c \in Clients, MQ!Connect(c)
      PROVE  TransportInv'
  <2>1. /\ connects' = connects + 1 /\ live' = live \cup {connects + 1}
        /\ connection[c] = 0 /\ connection' = [connection EXCEPT ![c] = connects + 1]
        /\ UNCHANGED <<onWire, arrived, unreceived, noise>>
    BY <1>1 DEF MQ!Connect
  <2>2. connection' \in [Clients -> 0..connects'] /\ connects' \in Nat
    BY <1>0, <2>1
  <2>3. \A d \in Clients : connection[d] # connects + 1
    BY <1>0
  <2>4. MQ!OneOwner'
    BY <1>0, <2>1, <2>3 DEF MQ!OneOwner
  <2> QED
    BY <2>1, <2>2, <2>4, ClientsKeep
<1>2. ASSUME NEW c \in Clients, MQ!Disconnect(c)
      PROVE  TransportInv'
  <2>1. /\ live' = live \ {connection[c]} /\ connects' = connects
        /\ connection' = [connection EXCEPT ![c] = 0]
        /\ UNCHANGED <<onWire, arrived, unreceived, noise>>
    BY <1>2 DEF MQ!Disconnect
  <2>2. connection' \in [Clients -> 0..connects'] /\ connects' \in Nat
    BY <1>0, <2>1
  <2>3. MQ!OneOwner'
    BY <1>0, <2>1 DEF MQ!OneOwner
  <2> QED
    BY <2>1, <2>2, <2>3, ClientsKeep
<1>3. ASSUME NEW c \in Clients, NEW d \in Clients, MQ!Move(c, d)
      PROVE  TransportInv'
  <2>1. /\ c # d /\ live' = live \ {connection[c]} /\ connects' = connects
        /\ connection' = [connection EXCEPT ![c] = connection[d], ![d] = 0]
        /\ UNCHANGED <<onWire, arrived, unreceived, noise>>
    BY <1>3 DEF MQ!Move
  <2>2. connection' \in [Clients -> 0..connects'] /\ connects' \in Nat
    BY <1>0, <2>1
  <2>3. MQ!OneOwner'
    BY <1>0, <2>1 DEF MQ!OneOwner
  <2> QED
    BY <2>1, <2>2, <2>3, ClientsKeep
<1>4. ASSUME NEW c \in Clients, NEW p \in MQ!Payloads, MQ!SendMessage(c, p)
      PROVE  TransportInv'
  <2>1. /\ onWire' = onWire \o MQ!FrameMessage(p) /\ unreceived' = Append(unreceived, p)
        /\ UNCHANGED <<connection, connects, live, arrived, noise>>
    BY <1>4 DEF MQ!SendMessage
  <2>2. MQ!FrameMessage(p) \in Seq(MQ!Bytes)
    BY FrameShape
  <2>3. TransportTypeOK'
    BY <1>0, <2>1, <2>2 DEF TransportTypeOK
  <2>4. MQ!OneOwner'
    BY <1>0, <2>1 DEF MQ!OneOwner
  <2>5. ASSUME ~noise
        PROVE  \E e : FramesFollow(e, arrived' \o onWire', unreceived')
    <3>1. PICK ends : FramesFollow(ends, arrived \o onWire, unreceived)
      BY <2>5 DEF TransportInv, StreamOfFrames
    <3>2. arrived \o onWire \in Seq(MQ!Bytes)
      BY <1>0
    <3>3. \E e : FramesFollow(e, (arrived \o onWire) \o MQ!FrameMessage(p), Append(unreceived, p))
      BY <1>0, <3>1, <3>2, FrameIsAdded
    <3>4. arrived' \o onWire' = (arrived \o onWire) \o MQ!FrameMessage(p)
      <4>1. arrived' = arrived /\ onWire' = onWire \o MQ!FrameMessage(p)
        BY <2>1
      <4>2. arrived \in Seq(MQ!Bytes) /\ onWire \in Seq(MQ!Bytes)
        BY <1>0
      <4>3. arrived \o (onWire \o MQ!FrameMessage(p)) = (arrived \o onWire) \o MQ!FrameMessage(p)
        BY <2>2, <4>2, ConcatAssociates
      <4> QED
        BY <4>1, <4>3
    <3> QED
      BY <2>1, <3>3, <3>4
  <2> QED
    BY <2>1, <2>3, <2>4, <2>5 DEF TransportInv, StreamOfFrames
<1>5. CASE MQ!Arrive
  <2>1. /\ onWire # <<>> /\ arrived' = Append(arrived, Head(onWire)) /\ onWire' = Tail(onWire)
        /\ UNCHANGED <<connection, connects, live, unreceived, noise>>
    BY <1>5 DEF MQ!Arrive
  <2>2. TransportTypeOK'
    BY <1>0, <2>1 DEF TransportTypeOK
  <2>3. MQ!OneOwner'
    BY <1>0, <2>1 DEF MQ!OneOwner
  <2>4. arrived' \o onWire' = arrived \o onWire
    BY <1>0, <2>1, ByteMoves
  <2> QED
    BY <2>1, <2>2, <2>3, <2>4 DEF TransportInv, StreamOfFrames
<1>6. CASE MQ!Receive
  <2>1. /\ MQ!Parses(arrived) /\ ~noise
        /\ arrived' = SubSeq(arrived, Width + Len(MQ!Payload(arrived)) + 1, Len(arrived))
        /\ unreceived' = Tail(unreceived)
        /\ UNCHANGED <<connection, connects, live, onWire, noise>>
    BY <1>6 DEF MQ!Receive
  <2>2. PICK ends : FramesFollow(ends, arrived \o onWire, unreceived)
    BY <2>1 DEF TransportInv, StreamOfFrames
  <2> DEFINE p == Head(unreceived)
             K == Width + Len(p)
  <2>3. /\ unreceived # <<>> /\ Len(arrived) >= K /\ MQ!Payload(arrived) = p
    BY <2>1, <2>2, HeadIsParsed DEF TransportInv
  <2>4. p \in MQ!Payloads /\ ends[1] = K
    BY <2>2, <2>3, HeadOfStream DEF TransportInv
  <2> HIDE DEF p
  <2>5. K \in Nat
    BY <2>4, FrameAssumption, PayloadIsSequence
  <2> HIDE DEF K
  <2>6. arrived' = SubSeq(arrived, K + 1, Len(arrived))
    BY <2>1, <2>3 DEF K
  <2>7. /\ arrived' \in Seq(MQ!Bytes) /\ Len(arrived') = Len(arrived) - K
        /\ \A k \in 1..Len(arrived') : arrived'[k] = arrived[K + k]
    <3>1. Len(arrived) \in Nat /\ K + 1 \in 1..(Len(arrived) + 1)
      BY <1>0, <2>3, <2>5
    <3>2. arrived' \in Seq(MQ!Bytes)
      BY <1>0, <2>6, <3>1
    <3>3. Len(arrived') = Len(arrived) - K
      BY <1>0, <2>5, <2>6, <3>1
    <3>4. ASSUME NEW k \in 1..Len(arrived')
          PROVE  arrived'[k] = arrived[K + k]
      <4>1. (K + 1) + k - 1 = K + k
        BY <2>5
      <4> QED
        BY <1>0, <2>5, <2>6, <3>1, <3>3, <4>1
    <3> QED
      BY <3>2, <3>3, <3>4
  <2>8. TransportTypeOK' /\ MQ!OneOwner'
    <3>1. unreceived' \in Seq(MQ!Payloads)
      BY <1>0, <2>1, <2>3
    <3> QED
      BY <1>0, <2>1, <2>7, <3>1 DEF TransportTypeOK, MQ!OneOwner
  <2> DEFINE stream == arrived \o onWire
             rest == arrived' \o onWire
  <2>9. stream \in Seq(MQ!Bytes)
    BY <1>0
  <2>10. rest \in Seq(MQ!Bytes) /\ Behind(rest, stream, K)
    <3>1. Behind(arrived', arrived, K) /\ K <= Len(arrived)
      BY <2>3, <2>7 DEF Behind, K
    <3> QED
      BY <1>0, <2>5, <2>7, <3>1, FrontIsDropped
  <2> HIDE DEF stream, rest
  <2>11. FramesFollow(ends, stream, unreceived)
    BY <2>2 DEF stream
  <2>12. \E e : FramesFollow(e, rest, Tail(unreceived))
    BY <1>0, <2>3, <2>4, <2>9, <2>10, <2>11, FrameIsTaken
  <2> QED
    BY <2>1, <2>8, <2>12 DEF TransportInv, StreamOfFrames, rest
<1>7. ASSUME NEW bytes \in [1..(Width + MaxPayload) -> MQ!Bytes], MQ!Noise(bytes)
      PROVE  TransportInv'
  <2>1. /\ noise' = TRUE /\ arrived' = bytes
        /\ UNCHANGED <<connection, connects, live, onWire, unreceived>>
    BY <1>7 DEF MQ!Noise
  <2>2. bytes \in Seq(MQ!Bytes)
    BY FrameAssumption
  <2>3. TransportTypeOK'
    BY <1>0, <2>1, <2>2 DEF TransportTypeOK
  <2>4. MQ!OneOwner'
    BY <1>0, <2>1 DEF MQ!OneOwner
  <2> QED
    BY <2>1, <2>3, <2>4 DEF TransportInv, StreamOfFrames
<1>8. CASE UNCHANGED mqVars
  <2>1. UNCHANGED <<connection, connects, live, onWire, arrived, unreceived, noise>>
    BY <1>8 DEF mqVars
  <2>2. MQ!OneOwner'
    BY <1>0, <2>1 DEF MQ!OneOwner
  <2> QED
    BY <1>0, <2>1, <2>2, ClientsKeep
<1> QED
  BY <1>1, <1>2, <1>3, <1>4, <1>5, <1>6, <1>7, <1>8 DEF MQ!Next

(* Connections have one owner, and frames are found whole, wherever they   *)
(* are cut on the way, for any width and base of a length.                 *)
THEOREM TransportSound == Spec => []TransportIsSound
<1>1. TransportInv => MQ!TransportIsSound
  <2> SUFFICES ASSUME TransportInv
               PROVE  MQ!FramesArriveWhole
    BY DEF TransportInv, MQ!TransportIsSound
  <2>0. TransportTypeOK /\ arrived \in Seq(MQ!Bytes) /\ Width \in Nat
    BY FrameAssumption DEF TransportInv, TransportTypeOK
  <2>1. MQ!Parses(arrived) => Len(arrived) >= Width + MQ!ReadBE(arrived)
    BY <2>0, ParsesWhole
  <2>2. ASSUME ~noise
        PROVE  /\ MQ!Parses(arrived) <=>
                    /\ unreceived # <<>>
                    /\ MQ!IsPrefix(MQ!FrameMessage(Head(unreceived)), arrived)
               /\ MQ!Parses(arrived) => MQ!Payload(arrived) = Head(unreceived)
    <3>1. PICK ends : FramesFollow(ends, arrived \o onWire, unreceived)
      BY <2>2 DEF TransportInv, StreamOfFrames
    <3>2. /\ MQ!Parses(arrived) <=>
              /\ unreceived # <<>>
              /\ Len(arrived) >= Width + Len(Head(unreceived))
          /\ MQ!Parses(arrived) => MQ!Payload(arrived) = Head(unreceived)
      BY <2>0, <3>1, HeadIsParsed
    <3>3. ASSUME unreceived # <<>>
          PROVE  MQ!IsPrefix(MQ!FrameMessage(Head(unreceived)), arrived)
                   <=> Len(arrived) >= Width + Len(Head(unreceived))
      <4> DEFINE p == Head(unreceived)
                 F == MQ!FrameMessage(p)
                 K == Width + Len(p)
      <4>1. /\ p \in MQ!Payloads /\ \A k \in 1..K : (arrived \o onWire)[k] = F[k]
        BY <2>0, <3>1, <3>3, HeadOfStream
      <4> HIDE DEF p
      <4>2. F \in Seq(MQ!Bytes) /\ Len(F) = K /\ K \in Nat
        BY <2>0, <4>1, FrameShape, PayloadIsSequence
      <4> HIDE DEF F, K
      <4>3. MQ!IsPrefix(F, arrived) => Len(arrived) >= K
        BY <2>0, <4>2 DEF MQ!IsPrefix
      <4>4. ASSUME Len(arrived) >= K
            PROVE  MQ!IsPrefix(F, arrived)
        <5>1. \A k \in 1..K : arrived[k] = F[k]
          <6>1. onWire \in Seq(MQ!Bytes)
            BY <2>0 DEF TransportTypeOK
          <6>2. \A k \in 1..K : k \in 1..Len(arrived) /\ (arrived \o onWire)[k] = arrived[k]
            BY <2>0, <4>2, <4>4, <6>1
          <6> QED
            BY <4>1, <6>2
        <5>2. SubSeq(F, 1, K) = SubSeq(arrived, 1, K)
          BY <2>0, <4>2, <4>4, <5>1
        <5> QED
          BY <2>0, <4>2, <4>4, <5>2 DEF MQ!IsPrefix
      <4> QED
        BY <4>3, <4>4 DEF F, K, p
    <3> QED
      BY <3>2, <3>3
  <2> QED
    BY <2>1, <2>2 DEF MQ!FramesArriveWhole
<1>2. Spec => []TransportInv
  BY TransportInitInv, TransportStep, ServicesStep, PTL DEF Spec, Init
<1> QED
  BY <1>1, <1>2, PTL DEF TransportIsSound

(***************************************************************************)
(* KeySpacePartitioner.  Keys are compared byte by byte; behind its end a  *)
(* key has a byte that is below all others.                                *)
(***************************************************************************)

At(key, n) == IF n <= Len(key) THEN key[n] ELSE -1

DiffersAt(k, l, n) == At(k, n) < At(l, n) /\ \A m \in 1..(n - 1) : At(k, m) = At(l, m)

LEMMA AtIsNumber ==
  ASSUME NEW k \in Seq(Nat), NEW n \in Nat \ {0}
  PROVE  At(k, n) \in Int /\ At(k, n) >= -1 /\ (n <= Len(k) <=> At(k, n) >= 0)
BY DEF At

LEMMA KeysDiffer ==
  ASSUME NEW k \in Seq(Nat), NEW l \in Seq(Nat), k # l
  PROVE  \E n \in Nat \ {0} : At(k, n) # At(l, n)
<1>1. SUFFICES ASSUME \A n \in Nat \ {0} : At(k, n) = At(l, n)
               PROVE  FALSE
  OBVIOUS
<1>2. \A n \in Nat \ {0} : n <= Len(k) <=> n <= Len(l)
  BY <1>1, AtIsNumber
<1>3. Len(k) \in Nat /\ Len(l) \in Nat
  OBVIOUS
<1>4. Len(k) = Len(l)
  <2> DEFINE a == Len(k)
             b == Len(l)
  <2> HIDE DEF a, b
  <2>1. a \in Nat /\ b \in Nat /\ \A n \in Nat \ {0} : n <= a <=> n <= b
    BY <1>2, <1>3 DEF a, b
  <2>2. (a # 0 => a <= b) /\ (b # 0 => b <= a)
    <3>1. (a # 0 => a \in Nat \ {0} /\ a <= a) /\ (b # 0 => b \in Nat \ {0} /\ b <= b)
      BY <2>1
    <3>. QED
      BY <2>1, <3>1
  <2>3. a = b
    BY <2>1, <2>2
  <2>. QED
    BY <2>3 DEF a, b
<1>5. \A n \in 1..Len(k) : k[n] = l[n]
  BY <1>1, <1>4 DEF At
<1>. QED
  BY <1>4, <1>5

(* Less is the order of the first byte that differs. *)
LEMMA LessAtSomeByte ==
  ASSUME NEW k \in Seq(Nat), NEW l \in Seq(Nat)
  PROVE  KP!Less(k, l) <=> \E n \in Nat \ {0} : DiffersAt(k, l, n)
<1>1. Len(k) \in Nat /\ Len(l) \in Nat
  OBVIOUS
<1>2. ASSUME NEW n \in 1..Len(l), n <= Len(k), k[n] < l[n], \A m \in 1..(n - 1) : k[m] = l[m]
      PROVE  DiffersAt(k, l, n)
  BY <1>2 DEF DiffersAt, At
<1>3. ASSUME KP!IsStrictPrefix(k, l)
      PROVE  DiffersAt(k, l, Len(k) + 1)
  <2>1. Len(k) <= Len(l) /\ k # l /\ SubSeq(k, 1, Len(k)) = SubSeq(l, 1, Len(k))
    BY <1>3 DEF KP!IsStrictPrefix, KP!IsPrefix
  <2>2. \A m \in 1..Len(k) : k[m] = l[m]
    <3>1. \A m \in 1..Len(k) : SubSeq(k, 1, Len(k))[m] = k[m] /\ SubSeq(l, 1, Len(k))[m] = l[m]
      BY <2>1
    <3>. QED
      BY <2>1, <3>1
  <2>3. Len(k) # Len(l)
    BY <2>1, <2>2
  <2>4. Len(k) + 1 \in Nat \ {0} /\ Len(k) + 1 <= Len(l) /\ ~(Len(k) + 1 <= Len(k))
    BY <1>1, <2>1, <2>3
  <2>5. At(k, Len(k) + 1) = -1 /\ At(l, Len(k) + 1) >= 0
    BY <2>4, AtIsNumber DEF At
  <2>6. \A m \in 1..((Len(k) + 1) - 1) : At(k, m) = At(l, m)
    BY <1>1, <2>1, <2>2 DEF At
  <2>. QED
    BY <2>4, <2>5, <2>6, AtIsNumber DEF DiffersAt
<1>4. ASSUME NEW n \in Nat \ {0}, DiffersAt(k, l, n)
      PROVE  KP!Less(k, l)
  <2>1. /\ At(k, n) \in Int /\ At(l, n) \in Int /\ At(k, n) >= -1 /\ At(k, n) < At(l, n)
        /\ n <= Len(l)
    BY <1>4, AtIsNumber DEF DiffersAt
  <2>2. \A m \in 1..(n - 1) : At(k, m) = At(l, m) /\ m \in Nat \ {0} /\ m <= Len(l)
    BY <1>1, <1>4, <2>1 DEF DiffersAt
  <2>3. \A m \in 1..(n - 1) : m <= Len(k) /\ k[m] = l[m]
    <3>1. \A m \in 1..(n - 1) : At(k, m) >= 0 /\ m <= Len(k)
      BY <2>2, AtIsNumber
    <3>. QED
      BY <2>2, <3>1 DEF At
  <2>4. CASE n <= Len(k)
    <3>1. k[n] < l[n]
      BY <2>1, <2>4 DEF At
    <3>. QED
      BY <1>1, <2>1, <2>3, <2>4, <3>1 DEF KP!Less
  <2>5. CASE ~(n <= Len(k))
    <3>1. Len(k) = n - 1
      <4> DEFINE a == Len(k)
      <4> HIDE DEF a
      <4>1. a \in Nat /\ ~(n <= a) /\ \A m \in 1..(n - 1) : m <= a
        BY <1>1, <2>3, <2>5 DEF a
      <4>2. n - 1 # 0 => n - 1 \in 1..(n - 1)
        OBVIOUS
      <4>. QED
        BY <4>1, <4>2 DEF a
    <3>2. Len(k) < Len(l)
      BY <1>1, <2>1, <3>1
    <3>3. \A m \in 1..Len(k) : k[m] = l[m]
      BY <2>3, <3>1
    <3>4. SubSeq(k, 1, Len(k)) = SubSeq(l, 1, Len(k))
      <4>1. /\ SubSeq(k, 1, Len(k)) = k
            /\ SubSeq(l, 1, Len(k)) \in Seq(Nat) /\ Len(SubSeq(l, 1, Len(k))) = Len(k)
            /\ \A m \in 1..Len(k) : SubSeq(l, 1, Len(k))[m] = l[m]
        BY <1>1, <3>2
      <4>. QED
        BY <3>3, <4>1
    <3>. QED
      BY <1>1, <3>2, <3>4 DEF KP!Less, KP!IsStrictPrefix, KP!IsPrefix
  <2>. QED
    BY <2>4, <2>5
<1>5. KP!Less(k, l) => \E n \in Nat \ {0} : DiffersAt(k, l, n)
  <2>1. Len(k) + 1 \in Nat \ {0}
    BY <1>1
  <2>. QED
    BY <1>2, <1>3, <2>1 DEF KP!Less
<1>. QED
  BY <1>4, <1>5

LEMMA KeysAreConnected ==
  ASSUME NEW k \in Seq(Nat), NEW l \in Seq(Nat), k # l
  PROVE  KP!Less(k, l) \/ KP!Less(l, k)
<1> DEFINE Differ == {n \in Nat \ {0} : At(k, n) # At(l, n)}
<1>1. Differ # {} /\ Differ \in SUBSET Nat
  BY KeysDiffer
<1>2. PICK n \in Differ : \A m \in Differ : n <= m
  BY <1>1, LeastOf
<1>3. \A m \in 1..(n - 1) : At(k, m) = At(l, m) /\ At(l, m) = At(k, m)
  BY <1>2
<1>4. n \in Nat \ {0} /\ At(k, n) \in Int /\ At(l, n) \in Int /\ At(k, n) # At(l, n)
  BY AtIsNumber
<1>5. DiffersAt(k, l, n) \/ DiffersAt(l, k, n)
  BY <1>3, <1>4 DEF DiffersAt
<1>. QED
  BY <1>4, <1>5, LessAtSomeByte

LEMMA LessIsTransitive ==
  ASSUME NEW j \in Seq(Nat), NEW k \in Seq(Nat), NEW l \in Seq(Nat),
         KP!Less(j, k), KP!Less(k, l)
  PROVE  KP!Less(j, l)
<1>1. PICK n \in Nat \ {0} : DiffersAt(j, k, n)
  BY LessAtSomeByte
<1>2. PICK m \in Nat \ {0} : DiffersAt(k, l, m)
  BY LessAtSomeByte
<1> DEFINE first == IF n <= m THEN n ELSE m
<1>3. first \in Nat \ {0} /\ first <= n /\ first <= m /\ first \in {n, m}
  OBVIOUS
<1> HIDE DEF first
<1>4. \A p \in 1..(first - 1) : At(j, p) = At(k, p) /\ At(k, p) = At(l, p)
  BY <1>1, <1>2, <1>3 DEF DiffersAt
<1>5. /\ At(j, first) \in Int /\ At(k, first) \in Int /\ At(l, first) \in Int
      /\ first = n \/ At(j, first) = At(k, first)
      /\ first = m \/ At(k, first) = At(l, first)
  <2>1. (first # n => first \in 1..(n - 1)) /\ (first # m => first \in 1..(m - 1))
    BY <1>3
  <2>. QED
    BY <1>1, <1>2, <1>3, <2>1, AtIsNumber DEF DiffersAt
<1>6. At(j, first) < At(l, first)
  <2>1. (first = n => At(j, first) < At(k, first)) /\ (first = m => At(k, first) < At(l, first))
    BY <1>1, <1>2 DEF DiffersAt
  <2>. QED
    BY <1>3, <1>5, <2>1
<1>7. DiffersAt(j, l, first)
  BY <1>4, <1>6 DEF DiffersAt
<1>. QED
  BY <1>3, <1>7, LessAtSomeByte

LEMMA LessIsStrict ==
  ASSUME NEW k \in Seq(Nat)
  PROVE  ~KP!Less(k, k)
<1>1. SUFFICES ASSUME NEW n \in Nat \ {0}, At(k, n) < At(k, n)
               PROVE  FALSE
  BY LessAtSomeByte DEF DiffersAt
<1>. QED
  BY <1>1, AtIsNumber

(* A key whose bytes are nowhere below another's is not below it. *)
LEMMA BytesOrderKeys ==
  ASSUME NEW k \in Seq(Nat), NEW l \in Seq(Nat), \A n \in Nat \ {0} : At(k, n) <= At(l, n)
  PROVE  KP!LessEq(k, l)
<1>1. SUFFICES ASSUME k # l, KP!Less(l, k)
               PROVE  FALSE
  BY KeysAreConnected DEF KP!LessEq
<1>2. PICK n \in Nat \ {0} : At(l, n) < At(k, n)
  BY <1>1, LessAtSomeByte DEF DiffersAt
<1>. QED
  BY <1>2, AtIsNumber

LEMMA GreatestUpTo ==
  ASSUME NEW n \in Nat, NEW S \in SUBSET (0..n), S # {}
  PROVE  KP!Max(S) \in S /\ \A m \in S : KP!Max(S) >= m
<1> DEFINE Upper == {b \in Nat : \A m \in S : b >= m}
<1>1. Upper \in SUBSET Nat /\ n \in Upper
  OBVIOUS
<1> HIDE DEF Upper
<1>2. PICK b \in Upper : \A c \in Upper : b <= c
  BY <1>1, LeastOf
<1> USE DEF Upper
<1>3. b \in S
  <2>1. SUFFICES ASSUME b \notin S PROVE FALSE
    OBVIOUS
  <2>2. \A m \in S : m \in Nat /\ b >= m /\ m # b
    BY <2>1
  <2>3. b # 0
    <3>1. PICK m \in S : TRUE
      OBVIOUS
    <3>. QED
      BY <2>2, <3>1
  <2>4. b - 1 \in Upper
    BY <2>2, <2>3
  <2>. QED
    BY <1>2, <2>4
<1>4. \E x \in S : \A m \in S : x >= m
  BY <1>3
<1>. QED
  BY <1>4 DEF KP!Max

LEMMA KeysAreBytes ==
  ASSUME NEW k \in KP!Keys
  PROVE  k \in Seq(Nat) /\ Len(k) \in 0..MaxKeyLength
<1>1. PICK m \in 0..MaxKeyLength : k \in [1..m -> KP!Bytes]
  BY DEF KP!Keys, KP!BoundedSeq, KP!SeqOf
<1>2. KP!Bytes \subseteq Nat
  BY PartitionAssumption DEF KP!Bytes
<1>3. k \in [1..m -> Nat] /\ m \in Nat
  <2>1. \A i \in 1..m : k[i] \in Nat
    BY <1>1, <1>2
  <2>. QED
    BY <1>1, <2>1, PartitionAssumption
<1>. QED
  BY <1>3

(* How many bytes a key has left when it is trimmed. *)
Kept(key) == KP!Max({1} \cup {n \in 1..Len(key) : key[n] # 0})

LEMMA TrimmedKeeps ==
  ASSUME NEW key \in Seq(Nat), key # <<>>
  PROVE  /\ Kept(key) \in 1..Len(key)
         /\ \A n \in 1..Len(key) : key[n] # 0 => n <= Kept(key)
         /\ Kept(key) = 1 \/ key[Kept(key)] # 0
         /\ KP!Trimmed(key) \in Seq(Nat)
         /\ Len(KP!Trimmed(key)) = Kept(key)
         /\ \A n \in 1..Kept(key) : KP!Trimmed(key)[n] = key[n]
<1> DEFINE S == {1} \cup {n \in 1..Len(key) : key[n] # 0}
<1>1. Len(key) \in Nat /\ Len(key) >= 1
  OBVIOUS
<1>2. S \in SUBSET (0..Len(key)) /\ S # {} /\ \A n \in S : n \in 1..Len(key)
  BY <1>1
<1>3. Kept(key) \in S /\ \A n \in S : Kept(key) >= n
  <2> HIDE DEF S
  <2>1. KP!Max(S) \in S /\ \A n \in S : KP!Max(S) >= n
    BY <1>1, <1>2, GreatestUpTo
  <2>. QED
    BY <2>1 DEF Kept, S
<1>4. /\ Kept(key) \in 1..Len(key)
      /\ \A n \in 1..Len(key) : key[n] # 0 => n <= Kept(key)
      /\ Kept(key) = 1 \/ key[Kept(key)] # 0
  BY <1>2, <1>3
<1>5. KP!Trimmed(key) = SubSeq(key, 1, Kept(key))
  BY DEF KP!Trimmed, Kept
<1>6. /\ SubSeq(key, 1, Kept(key)) \in Seq(Nat)
      /\ Len(SubSeq(key, 1, Kept(key))) = Kept(key)
      /\ \A n \in 1..Kept(key) : SubSeq(key, 1, Kept(key))[n] = key[n]
  BY <1>1, <1>4
<1>. QED
  BY <1>4, <1>5, <1>6

(* Trimming keeps the order of the bytes. *)
LEMMA TrimmedInOrder ==
  ASSUME NEW k \in Seq(Nat), NEW l \in Seq(Nat), Len(k) = Len(l), k # <<>>,
         \A n \in 1..Len(k) : k[n] <= l[n]
  PROVE  KP!LessEq(KP!Trimmed(k), KP!Trimmed(l))
<1> DEFINE a == Kept(k)
           b == Kept(l)
<1>1. l # <<>>
  OBVIOUS
<1>2. /\ a \in 1..Len(k) /\ (a = 1 \/ k[a] # 0)
      /\ b \in 1..Len(k) /\ \A n \in 1..Len(k) : l[n] # 0 => n <= b
      /\ KP!Trimmed(k) \in Seq(Nat) /\ Len(KP!Trimmed(k)) = a
      /\ KP!Trimmed(l) \in Seq(Nat) /\ Len(KP!Trimmed(l)) = b
      /\ \A n \in 1..a : KP!Trimmed(k)[n] = k[n]
      /\ \A n \in 1..b : KP!Trimmed(l)[n] = l[n]
  <2>1. a \in 1..Len(k) /\ (a = 1 \/ k[a] # 0)
    BY TrimmedKeeps
  <2>2. b \in 1..Len(k) /\ \A n \in 1..Len(k) : l[n] # 0 => n <= b
    BY <1>1, TrimmedKeeps
  <2>3. KP!Trimmed(k) \in Seq(Nat) /\ Len(KP!Trimmed(k)) = a /\ \A n \in 1..a : KP!Trimmed(k)[n] = k[n]
    BY TrimmedKeeps
  <2>4. KP!Trimmed(l) \in Seq(Nat) /\ Len(KP!Trimmed(l)) = b /\ \A n \in 1..b : KP!Trimmed(l)[n] = l[n]
    BY <1>1, TrimmedKeeps
  <2> HIDE DEF a, b
  <2>. QED
    BY <2>1, <2>2, <2>3, <2>4
<1> DEFINE s == KP!Trimmed(k)
           t == KP!Trimmed(l)
<1> HIDE DEF a, b, s, t
<1>3. a <= b
  <2>1. k[a] \in Nat /\ l[a] \in Nat /\ k[a] <= l[a]
    <3>1. a \in 1..Len(k) /\ a \in 1..Len(l)
      BY <1>2
    <3>. QED
      BY <3>1
  <2>2. a \in Nat /\ b \in Nat /\ b >= 1
    BY <1>2
  <2>. QED
    BY <1>2, <2>1, <2>2
<1>4. s \in Seq(Nat) /\ Len(s) = a /\ t \in Seq(Nat) /\ Len(t) = b
  BY <1>2 DEF s, t
<1>5. ASSUME NEW n \in Nat \ {0}
      PROVE  At(s, n) <= At(t, n)
  <2>1. CASE n <= a
    <3>1. n \in 1..a /\ n \in 1..b /\ n \in 1..Len(k)
      BY <1>2, <1>3, <2>1
    <3>2. s[n] = k[n] /\ t[n] = l[n] /\ k[n] <= l[n]
      BY <1>2, <3>1 DEF s, t
    <3>. QED
      BY <1>4, <3>1, <3>2 DEF At
  <2>2. CASE ~(n <= a)
    BY <1>4, <2>2, AtIsNumber DEF At
  <2>. QED
    BY <2>1, <2>2
<1>6. KP!LessEq(s, t)
  BY <1>4, <1>5, BytesOrderKeys
<1>. QED
  BY <1>6 DEF s, t

(* A byte of a key that is not trimmed yet. *)
Between(lower, upper, i, n, m) ==
  (KP!ByteAt(lower, m) * (n - i) + KP!ByteAt(upper, m) * i) \div n

LEMMA BetweenIsByte ==
  ASSUME NEW l \in Seq(Nat), NEW u \in Seq(Nat), NEW n \in Nat \ {0}, NEW i \in 0..n,
         NEW m \in Nat \ {0}
  PROVE  /\ KP!ByteAt(l, m) \in Nat /\ KP!ByteAt(u, m) \in Nat
         /\ KP!ByteAt(l, m) * (n - i) + KP!ByteAt(u, m) * i \in Nat
         /\ Between(l, u, i, n, m) \in Nat
<1>1. KP!ByteAt(l, m) \in Nat /\ KP!ByteAt(u, m) \in Nat
  BY DEF KP!ByteAt
<1> DEFINE x == KP!ByteAt(l, m)
           y == KP!ByteAt(u, m)
           z == x * (n - i) + y * i
<1>2. z \in Nat
  <2> HIDE DEF x, y
  <2>1. x \in Nat /\ y \in Nat /\ n - i \in Nat /\ i \in Nat
    BY <1>1 DEF x, y
  <2>2. x * (n - i) \in Nat /\ y * i \in Nat
    BY <2>1
  <2>. QED
    BY <2>2
<1>3. Between(l, u, i, n, m) = z \div n
  BY DEF Between
<1> HIDE DEF z
<1>4. z \div n \in Nat
  BY <1>2, DivisionLaw
<1>. QED
  BY <1>1, <1>2, <1>3, <1>4 DEF z

LEMMA BetweenInOrder ==
  ASSUME NEW l \in Seq(Nat), NEW u \in Seq(Nat), NEW n \in Nat \ {0},
         NEW i \in 0..n, NEW j \in 0..n, i <= j,
         NEW m \in Nat \ {0}, KP!ByteAt(l, m) <= KP!ByteAt(u, m)
  PROVE  Between(l, u, i, n, m) <= Between(l, u, j, n, m)
<1> DEFINE x == KP!ByteAt(l, m)
           y == KP!ByteAt(u, m)
           a == x * (n - i) + y * i
           b == x * (n - j) + y * j
<1>1. x \in Nat /\ y \in Nat /\ a \in Nat /\ b \in Nat /\ x <= y
  BY BetweenIsByte
<1>2. a <= b
  <2> HIDE DEF x, y
  <2>1. PICK d \in Nat : y = x + d
    <3>1. y - x \in Nat /\ y = x + (y - x)
      BY <1>1
    <3>. QED
      BY <3>1
  <2>2. i \in Nat /\ j \in Nat /\ n - i \in Nat /\ n - j \in Nat
    OBVIOUS
  <2>3. a = x * n + d * i /\ b = x * n + d * j
    <3>1. y * i = x * i + d * i /\ y * j = x * j + d * j
      BY <1>1, <2>1, <2>2
    <3>2. x * (n - i) = x * n - x * i /\ x * (n - j) = x * n - x * j
      BY <1>1, <2>2
    <3>3. x * i \in Nat /\ x * j \in Nat /\ d * i \in Nat /\ d * j \in Nat /\ x * n \in Nat
      BY <1>1, <2>2
    <3>. QED
      BY <3>1, <3>2, <3>3
  <2>4. d * i <= d * j
    BY <2>1, <2>2
  <2>5. d * i \in Nat /\ d * j \in Nat /\ x * n \in Nat
    BY <1>1, <2>2
  <2> DEFINE p == d * i
             q == d * j
             r == x * n
  <2> HIDE DEF a, b, p, q, r
  <2>6. a = r + p /\ b = r + q /\ p <= q /\ p \in Nat /\ q \in Nat /\ r \in Nat
    BY <2>3, <2>4, <2>5 DEF p, q, r
  <2>. QED
    BY <2>6
<1>3. Between(l, u, i, n, m) = a \div n /\ Between(l, u, j, n, m) = b \div n
  BY DEF Between
<1> HIDE DEF a, b
<1>. QED
  BY <1>1, <1>2, <1>3, DivisionInOrder

(* The interpolated bytes before they are trimmed. *)
Interpolated(l, u, i, n) ==
  [m \in 1..KP!Max({Len(l), Len(u)}) |-> Between(l, u, i, n, m)]

HasBytesBetween(k, size, l, u, i, n) ==
  /\ k \in Seq(Nat) /\ k # <<>> /\ Len(k) = size /\ size \in {Len(l), Len(u)}
  /\ \A m \in 1..size : k[m] = Between(l, u, i, n, m)

LEMMA InterpolatedBytes ==
  ASSUME NEW l \in Seq(Nat), NEW u \in Seq(Nat), u # <<>>, NEW n \in Nat \ {0}, NEW i \in 0..n
  PROVE  /\ KP!InterpolateKey(l, u, i, n) = KP!Trimmed(Interpolated(l, u, i, n))
         /\ HasBytesBetween(Interpolated(l, u, i, n), KP!Max({Len(l), Len(u)}), l, u, i, n)
<1> DEFINE size == KP!Max({Len(l), Len(u)})
           k == Interpolated(l, u, i, n)
<1>1. size \in {Len(l), Len(u)} /\ size >= Len(u)
  <2> DEFINE top == Len(l) + Len(u)
  <2>1. Len(l) \in Nat /\ Len(u) \in Nat
    OBVIOUS
  <2>2. top \in Nat /\ {Len(l), Len(u)} \in SUBSET (0..top) /\ {Len(l), Len(u)} # {}
    BY <2>1
  <2>3. size \in {Len(l), Len(u)} /\ \A m \in {Len(l), Len(u)} : size >= m
    <3> HIDE DEF top
    <3>. QED
      BY <2>2, GreatestUpTo
  <2>. QED
    BY <2>3
<1>2. Len(l) \in Nat /\ Len(u) \in Nat \ {0}
  OBVIOUS
<1>3. size \in Nat \ {0}
  BY <1>1, <1>2
<1>4. KP!InterpolateKey(l, u, i, n) = KP!Trimmed(k)
  BY DEF KP!InterpolateKey, Interpolated, Between
<1>5. k = [m \in 1..size |-> Between(l, u, i, n, m)]
  BY DEF Interpolated
<1> HIDE DEF size
<1>6. ASSUME NEW m \in 1..size
      PROVE  Between(l, u, i, n, m) \in Nat
  <2>1. m \in Nat \ {0}
    BY <1>3
  <2>. QED
    BY <2>1, BetweenIsByte
<1>7. k \in [1..size -> Nat] /\ \A m \in 1..size : k[m] = Between(l, u, i, n, m)
  BY <1>5, <1>6
<1> HIDE DEF k
<1>8. k \in Seq(Nat) /\ Len(k) = size
  <2>1. size \in Nat /\ k \in [1..size -> Nat]
    BY <1>3, <1>7
  <2>. QED
    BY <2>1
<1>9. HasBytesBetween(k, size, l, u, i, n)
  BY <1>1, <1>3, <1>7, <1>8 DEF HasBytesBetween
<1>. QED
  BY <1>4, <1>9 DEF k, size

LEMMA SplitKeyIsKey ==
  ASSUME NEW l \in Seq(Nat), NEW u \in Seq(Nat), NEW n \in Nat \ {0}, NEW i \in 0..n
  PROVE  KP!SplitKey(l, u, i, n) \in Seq(Nat) /\ KP!SplitKey(l, u, i, n) # <<>>
<1>1. CASE u = <<>>
  <2>1. i * MaxByte \in Nat
    BY PartitionAssumption
  <2>2. (i * MaxByte) \div n \in Nat
    <3> DEFINE a == i * MaxByte
    <3> HIDE DEF a
    <3>. QED
      BY <2>1, DivisionLaw DEF a
  <2>3. KP!SplitKey(l, u, i, n) = Append(l, (i * MaxByte) \div n)
    BY <1>1 DEF KP!SplitKey
  <2> DEFINE b == (i * MaxByte) \div n
  <2> HIDE DEF b
  <2>. QED
    BY <2>2, <2>3 DEF b
<1>2. CASE u # <<>>
  <2> DEFINE k == Interpolated(l, u, i, n)
  <2>1. k \in Seq(Nat) /\ k # <<>> /\ KP!SplitKey(l, u, i, n) = KP!Trimmed(k)
    <3>1. KP!SplitKey(l, u, i, n) = KP!InterpolateKey(l, u, i, n)
      BY <1>2 DEF KP!SplitKey
    <3>2. /\ KP!InterpolateKey(l, u, i, n) = KP!Trimmed(k)
          /\ HasBytesBetween(k, KP!Max({Len(l), Len(u)}), l, u, i, n)
      BY <1>2, InterpolatedBytes
    <3> HIDE DEF k
    <3>. QED
      BY <3>1, <3>2 DEF HasBytesBetween
  <2> HIDE DEF k
  <2>. QED
    BY <2>1, TrimmedKeeps
<1>. QED
  BY <1>1, <1>2

(* If no byte of the lower bound is above the upper bound's, split points  *)
(* ascend.                                                                 *)
LEMMA SplitKeysAscend ==
  ASSUME NEW l \in Seq(Nat), NEW u \in Seq(Nat), NEW n \in Nat \ {0},
         NEW i \in 0..n, NEW j \in 0..n, i <= j,
         u = <<>> \/ \A m \in 1..KP!Max({Len(l), Len(u)}) : KP!ByteAt(l, m) <= KP!ByteAt(u, m)
  PROVE  KP!LessEq(KP!SplitKey(l, u, i, n), KP!SplitKey(l, u, j, n))
<1>1. CASE u = <<>>
  <2> DEFINE x == (i * MaxByte) \div n
             y == (j * MaxByte) \div n
  <2>1. KP!SplitKey(l, u, i, n) = Append(l, x) /\ KP!SplitKey(l, u, j, n) = Append(l, y)
    BY <1>1 DEF KP!SplitKey
  <2>2. i * MaxByte \in Nat /\ j * MaxByte \in Nat /\ i * MaxByte <= j * MaxByte
    BY PartitionAssumption
  <2>3. x \in Nat /\ y \in Nat /\ x <= y
    <3> DEFINE a == i * MaxByte
               b == j * MaxByte
    <3> HIDE DEF a, b
    <3>. QED
      BY <2>2, DivisionInOrder DEF a, b
  <2> HIDE DEF x, y
  <2>4. ASSUME NEW m \in Nat \ {0}
        PROVE  At(Append(l, x), m) <= At(Append(l, y), m)
    <3>1. Len(Append(l, x)) = Len(l) + 1 /\ Len(Append(l, y)) = Len(l) + 1 /\ Len(l) \in Nat
      BY <2>3
    <3>2. CASE m <= Len(l)
      <4>1. Append(l, x)[m] = l[m] /\ Append(l, y)[m] = l[m] /\ l[m] \in Nat
        BY <2>3, <3>2
      <4>. QED
        BY <3>1, <3>2, <4>1 DEF At
    <3>3. CASE m = Len(l) + 1
      <4>1. Append(l, x)[m] = x /\ Append(l, y)[m] = y
        BY <2>3, <3>3
      <4>. QED
        BY <2>3, <3>1, <3>3, <4>1 DEF At
    <3>4. CASE ~(m <= Len(l)) /\ m # Len(l) + 1
      BY <3>1, <3>4 DEF At
    <3>. QED
      BY <3>2, <3>3, <3>4
  <2>5. Append(l, x) \in Seq(Nat) /\ Append(l, y) \in Seq(Nat)
    BY <2>3
  <2>6. KP!LessEq(Append(l, x), Append(l, y))
    BY <2>4, <2>5, BytesOrderKeys
  <2>. QED
    BY <2>1, <2>6
<1>2. CASE u # <<>>
  <2> DEFINE k == Interpolated(l, u, i, n)
             q == Interpolated(l, u, j, n)
             size == KP!Max({Len(l), Len(u)})
  <2>1. /\ k \in Seq(Nat) /\ k # <<>> /\ Len(k) = size
        /\ \A m \in 1..size : k[m] = Between(l, u, i, n, m)
        /\ KP!SplitKey(l, u, i, n) = KP!Trimmed(k)
    <3>1. KP!SplitKey(l, u, i, n) = KP!InterpolateKey(l, u, i, n)
      BY <1>2 DEF KP!SplitKey
    <3>2. KP!InterpolateKey(l, u, i, n) = KP!Trimmed(k) /\ HasBytesBetween(k, size, l, u, i, n)
      BY <1>2, InterpolatedBytes
    <3> HIDE DEF k, size
    <3>. QED
      BY <3>1, <3>2 DEF HasBytesBetween
  <2>2. /\ q \in Seq(Nat) /\ q # <<>> /\ Len(q) = size
        /\ \A m \in 1..size : q[m] = Between(l, u, j, n, m)
        /\ KP!SplitKey(l, u, j, n) = KP!Trimmed(q)
    <3>1. KP!SplitKey(l, u, j, n) = KP!InterpolateKey(l, u, j, n)
      BY <1>2 DEF KP!SplitKey
    <3>2. KP!InterpolateKey(l, u, j, n) = KP!Trimmed(q) /\ HasBytesBetween(q, size, l, u, j, n)
      BY <1>2, InterpolatedBytes
    <3> HIDE DEF q, size
    <3>. QED
      BY <3>1, <3>2 DEF HasBytesBetween
  <2>3. \A m \in 1..size : KP!ByteAt(l, m) <= KP!ByteAt(u, m)
    BY <1>2
  <2> HIDE DEF k, q, size
  <2>4. \A m \in 1..Len(k) : k[m] <= q[m]
    BY <2>1, <2>2, <2>3, BetweenInOrder
  <2>. QED
    BY <2>1, <2>2, <2>4, TrimmedInOrder
<1>. QED
  BY <1>1, <1>2

LEMMA OrderOfKeys ==
  ASSUME NEW j \in Seq(Nat), NEW k \in Seq(Nat), NEW l \in Seq(Nat)
  PROVE  /\ KP!LessEq(k, l) \/ KP!Less(l, k)
         /\ ~(KP!LessEq(k, l) /\ KP!Less(l, k))
         /\ KP!LessEq(j, k) /\ KP!LessEq(k, l) => KP!LessEq(j, l)
BY KeysAreConnected, LessIsTransitive, LessIsStrict DEF KP!LessEq

(* Bytes are in order up to the end of the longer bound. *)
LEMMA BoundsInOrder ==
  ASSUME NEW l \in KP!Keys, NEW u \in KP!Keys,
         u = <<>> \/ \A n \in 1..MaxKeyLength : KP!ByteAt(l, n) <= KP!ByteAt(u, n)
  PROVE  u = <<>> \/ \A m \in 1..KP!Max({Len(l), Len(u)}) : KP!ByteAt(l, m) <= KP!ByteAt(u, m)
<1>1. /\ l \in Seq(Nat) /\ Len(l) \in 0..MaxKeyLength
      /\ u \in Seq(Nat) /\ Len(u) \in 0..MaxKeyLength
  BY KeysAreBytes
<1> DEFINE size == KP!Max({Len(l), Len(u)})
<1>2. CASE u # <<>>
  <2>1. 1 \in Nat \ {0} /\ 0 \in 0..1
    OBVIOUS
  <2>2. size \in {Len(l), Len(u)}
    <3>1. HasBytesBetween(Interpolated(l, u, 0, 1), size, l, u, 0, 1)
      BY <1>1, <1>2, <2>1, InterpolatedBytes
    <3> HIDE DEF size
    <3>. QED
      BY <3>1 DEF HasBytesBetween
  <2> HIDE DEF size
  <2>3. size \in 0..MaxKeyLength
    BY <1>1, <2>2
  <2>4. \A m \in 1..size : m \in 1..MaxKeyLength
    BY <2>3, PartitionAssumption
  <2>5. \A m \in 1..size : KP!ByteAt(l, m) <= KP!ByteAt(u, m)
    BY <1>2, <2>4
  <2>. QED
    BY <2>5 DEF size
<1>. QED
  BY <1>2

(* The ranges between two bounds have every key, and if the bounds' bytes  *)
(* are in order, no key twice.                                             *)
LEMMA RangesHaveKeys ==
  ASSUME NEW l \in KP!Keys, NEW u \in KP!Keys, NEW n \in Nat \ {0}, NEW key \in KP!Keys,
         KP!LessEq(l, key), u = <<>> \/ KP!Less(key, u)
  PROVE  LET by == {i \in 1..n : KP!Within(key, KP!Ranges(l, u, n)[i])}
         IN  /\ by # {}
             /\ (u = <<>> \/ \A m \in 1..MaxKeyLength : KP!ByteAt(l, m) <= KP!ByteAt(u, m))
                  => \E i \in by : by = {i}
<1> DEFINE Split(i) == KP!SplitKey(l, u, i, n)
           upper(i) == IF i = n THEN u ELSE Split(i)
           lower(i) == IF i = 1 THEN l ELSE Split(i - 1)
           by == {i \in 1..n : KP!Within(key, KP!Ranges(l, u, n)[i])}
           Under(i) == upper(i) = <<>> \/ KP!Less(key, upper(i))
<1>1. l \in Seq(Nat) /\ u \in Seq(Nat) /\ key \in Seq(Nat)
  BY KeysAreBytes
<1>2. \A i \in 0..n : Split(i) \in Seq(Nat) /\ Split(i) # <<>>
  BY <1>1, SplitKeyIsKey
<1>3. \A i \in 1..n : i \in by <=> KP!LessEq(lower(i), key) /\ Under(i)
  BY DEF KP!Within, KP!Ranges
<1>4. by # {}
  <2> DEFINE S == {i \in 1..n : Under(i)}
  <2>1. S \in SUBSET Nat /\ n \in S
    OBVIOUS
  <2>2. PICK i \in S : \A j \in S : i <= j
    <3> HIDE DEF S
    <3>. QED
      BY <2>1, LeastOf
  <2>3. i \in 1..n /\ Under(i)
    BY <2>2
  <2>4. CASE i = 1
    <3>1. KP!LessEq(lower(i), key)
      BY <2>4
    <3> HIDE DEF by, lower, Under
    <3>. QED
      BY <1>3, <2>3, <3>1
  <2>5. CASE i # 1
    <3>1. i - 1 \in 1..n /\ i - 1 # n /\ i - 1 \notin S /\ i - 1 \in 0..n
      BY <2>2, <2>5
    <3>2. ~Under(i - 1) /\ upper(i - 1) = Split(i - 1) /\ lower(i) = Split(i - 1)
      BY <2>5, <3>1
    <3>3. Split(i - 1) \in Seq(Nat) /\ ~KP!Less(key, Split(i - 1))
      BY <1>2, <3>1, <3>2
    <3> HIDE DEF Split
    <3>4. KP!LessEq(lower(i), key)
      BY <1>1, <3>2, <3>3, OrderOfKeys
    <3> HIDE DEF by, lower, Under
    <3>. QED
      BY <1>3, <2>3, <3>4
  <2>. QED
    BY <2>4, <2>5
<1>5. ASSUME u = <<>> \/ \A m \in 1..MaxKeyLength : KP!ByteAt(l, m) <= KP!ByteAt(u, m),
             NEW i \in by, NEW j \in by, i < j
      PROVE  FALSE
  <2>1. i \in 1..n /\ j \in 1..n /\ i # n /\ j # 1 /\ i \in 0..n /\ j - 1 \in 0..n /\ i <= j - 1
    BY <1>5
  <2>2. upper(i) = Split(i) /\ lower(j) = Split(j - 1)
    BY <2>1
  <2>3. Under(i) /\ KP!LessEq(lower(j), key)
    <3> HIDE DEF by, lower, Under
    <3>. QED
      BY <1>3, <2>1
  <2>4. KP!Less(key, Split(i)) /\ Split(i) \in Seq(Nat) /\ Split(j - 1) \in Seq(Nat)
    BY <1>2, <2>1, <2>2, <2>3
  <2>5. KP!LessEq(Split(i), Split(j - 1))
    BY <1>1, <1>5, <2>1, BoundsInOrder, SplitKeysAscend
  <2>6. KP!LessEq(Split(j - 1), key)
    BY <2>2, <2>3
  <2> HIDE DEF Split
  <2>7. KP!LessEq(Split(i), key)
    BY <1>1, <2>4, <2>5, <2>6, OrderOfKeys
  <2>. QED
    BY <1>1, <2>4, <2>7, OrderOfKeys
<1>6. ASSUME u = <<>> \/ \A m \in 1..MaxKeyLength : KP!ByteAt(l, m) <= KP!ByteAt(u, m)
      PROVE  \E i \in by : by = {i}
  <2>1. \A i \in by : i \in Nat
    OBVIOUS
  <2>2. \A i, j \in by : ~(i < j)
    BY <1>5, <1>6
  <2> HIDE DEF by
  <2>3. PICK i \in by : TRUE
    BY <1>4
  <2>4. \A j \in by : j = i
    BY <2>1, <2>2
  <2>. QED
    BY <2>3, <2>4
<1>. QED
  BY <1>4, <1>6

(* What a split point adds to the one before.                              *)
LEMMA NextMultiple ==
  ASSUME NEW a \in Nat, NEW b \in Nat, NEW size \in Nat, NEW n \in Nat \ {0},
         a <= b, b <= a + size + 1
  PROVE  /\ a \div n \in Nat /\ b \div n \in Nat /\ size \div n \in Nat
         /\ a \div n <= b \div n
         /\ b \div n - a \div n <= size \div n + 1
<1> DEFINE q == a \div n
           r == a % n
           s == size \div n
           t == size % n
<1>1. /\ q \in Nat /\ r \in 0..(n - 1) /\ a = q * n + r
      /\ s \in Nat /\ t \in 0..(n - 1) /\ size = s * n + t
  BY DivisionLaw
<1> HIDE DEF q, r, s, t
<1>2. b < (q + s + 2) * n /\ q + s + 2 \in Nat
  <2>1. (q + s + 2) * n = q * n + s * n + 2 * n
    BY <1>1
  <2>2. q * n \in Nat /\ s * n \in Nat
    BY <1>1
  <2> DEFINE x == q * n
             y == s * n
             z == (q + s + 2) * n
  <2>3. a = x + r /\ size = y + t /\ z = x + y + 2 * n /\ x \in Nat /\ y \in Nat
    BY <1>1, <2>1, <2>2
  <2> HIDE DEF x, y, z
  <2>4. b < z
    BY <1>1, <2>3
  <2>. QED
    BY <1>1, <2>4 DEF z
<1>3. b \div n < q + s + 2
  BY <1>2, DivisionBound
<1>4. a \div n \in Nat /\ b \div n \in Nat /\ a \div n <= b \div n
  BY DivisionInOrder
<1> DEFINE p == b \div n
<1>5. p \in Nat /\ p < q + s + 2
  BY <1>3, <1>4
<1> HIDE DEF p
<1>6. p - q <= s + 1
  BY <1>1, <1>5
<1>. QED
  BY <1>1, <1>4, <1>6 DEF p, q, s

LEMMA EndsOf ==
  ASSUME NEW answer0 \in Seq(Int), NEW last \in Int
  PROVE  LET ends == <<1>> \o answer0 \o <<last>> IN
         /\ Len(ends) = Len(answer0) + 2 /\ Len(answer0) \in Nat
         /\ ends[1] = 1
         /\ \A i \in 1..Len(answer0) : ends[i + 1] = answer0[i]
         /\ ends[Len(answer0) + 2] = last
<1>1. Len(answer0) \in Nat
  OBVIOUS
<1> DEFINE front == <<1>> \o answer0
<1>2. /\ front \in Seq(Int) /\ Len(front) = Len(answer0) + 1 /\ front[1] = 1
      /\ \A i \in 1..Len(answer0) : front[i + 1] = answer0[i]
  OBVIOUS
<1> DEFINE ends == front \o <<last>>
<1> HIDE DEF front
<1>3. /\ Len(ends) = Len(front) + 1
      /\ \A i \in 1..Len(front) : ends[i] = front[i]
      /\ ends[Len(front) + 1] = last
  BY <1>2
<1> HIDE DEF ends
<1>4. ends[1] = 1 /\ \A i \in 1..Len(answer0) : ends[i + 1] = answer0[i]
  BY <1>1, <1>2, <1>3
<1>. QED
  BY <1>1, <1>2, <1>3, <1>4 DEF ends, front

(* The ends ascend in steps of the share. *)
EndsSpread(ends, size, n) ==
  \A i \in 2..Len(ends) :
    /\ ends[i - 1] <= ends[i]
    /\ n \in 1..size => ends[i] - ends[i - 1] <= size \div n + 1

LEMMA SplitsAreSpread ==
  ASSUME NEW size \in Nat, NEW n \in Nat, NEW rounded
  PROVE  EndsSpread(<<1>> \o KP!ComputeSplitPoints(size, n, rounded) \o <<size + 1>>, size, n)
<1> DEFINE points == KP!ComputeSplitPoints(size, n, rounded)
           ends == <<1>> \o points \o <<size + 1>>
<1>1. CASE n <= 1
  <2>1. points = <<>>
    BY <1>1 DEF KP!ComputeSplitPoints
  <2>2. Len(ends) = 2 /\ ends[1] = 1 /\ ends[2] = size + 1
    BY <2>1
  <2> HIDE DEF ends
  <2>3. n \in 1..size => n = 1 /\ size \div n = size
    <3>1. size \div 1 = size
      OBVIOUS
    <3>. QED
      BY <1>1, <3>1
  <2>4. \A i \in 2..Len(ends) : i = 2
    BY <2>2
  <2>. QED
    BY <2>2, <2>3, <2>4 DEF EndsSpread, ends
<1>2. CASE n > 1 /\ size < n
  <2>1. points = [i \in 1..size |-> i]
    BY <1>2 DEF KP!ComputeSplitPoints
  <2>2. points \in Seq(Int) /\ Len(points) = size /\ \A i \in 1..size : points[i] = i
    BY <2>1
  <2> HIDE DEF points
  <2>3. /\ Len(ends) = size + 2 /\ ends[1] = 1 /\ ends[size + 2] = size + 1
        /\ \A i \in 1..size : ends[i + 1] = i
    BY <2>2, EndsOf
  <2> HIDE DEF ends
  <2>4. \A i \in 2..(size + 2) : ends[i] = i - 1
    <3>1. \A i \in 2..(size + 1) : i - 1 \in 1..size /\ (i - 1) + 1 = i
      OBVIOUS
    <3>2. \A i \in 2..(size + 1) : ends[i] = i - 1
      BY <2>3, <3>1
    <3>. QED
      BY <2>3, <3>2
  <2>5. \A i \in 2..(size + 2) : ends[i - 1] <= ends[i]
    <3>1. \A i \in 2..(size + 2) : i - 1 = 1 \/ i - 1 \in 2..(size + 2)
      OBVIOUS
    <3>. QED
      BY <2>3, <2>4, <3>1
  <2>6. n \notin 1..size
    BY <1>2
  <2>7. EndsSpread(ends, size, n)
    BY <2>3, <2>5, <2>6 DEF EndsSpread
  <2>. QED
    BY <2>7 DEF ends, points
<1>3. CASE n > 1 /\ size >= n
  <2> DEFINE off(i) == IF i \in 1..(n - 1) /\ i \in rounded THEN 1 ELSE 0
             top(i) == i * size - off(i)
  <2>1. points = [i \in 1..(n - 1) |->
                    1 + (i * size - (IF i \in rounded THEN 1 ELSE 0)) \div n]
    <3>1. ~(n <= 1) /\ ~(n > 1 /\ size < n)
      BY <1>3
    <3>. QED
      BY <3>1 DEF KP!ComputeSplitPoints
  <2>2. \A i \in 0..n : off(i) \in {0, 1} /\ (i = 0 \/ i = n => off(i) = 0)
    OBVIOUS
  <2>3. \A i \in 0..n : top(i) \in Nat
    <3> HIDE DEF off
    <3>1. ASSUME NEW i \in 0..n
          PROVE  top(i) \in Nat
      <4>1. i * size \in Nat /\ (i = 0 \/ i * size >= size)
        OBVIOUS
      <4>. QED
        BY <1>3, <2>2, <4>1
    <3>. QED
      BY <3>1
  <2>4. \A i \in 1..n : top(i - 1) <= top(i) /\ top(i) <= top(i - 1) + size + 1
    <3> HIDE DEF off
    <3>1. ASSUME NEW i \in 1..n
          PROVE  top(i - 1) <= top(i) /\ top(i) <= top(i - 1) + size + 1
      <4>1. i * size = (i - 1) * size + size /\ (i - 1) * size \in Nat
        OBVIOUS
      <4>2. i \in 0..n /\ i - 1 \in 0..n
        OBVIOUS
      <4>. QED
        BY <1>3, <2>2, <4>1, <4>2
    <3>. QED
      BY <3>1
  <2>5. \A i \in 1..(n - 1) : top(i) \div n \in Nat /\ points[i] = 1 + top(i) \div n
    <3>1. \A i \in 1..(n - 1) : points[i] = 1 + top(i) \div n
      BY <2>1
    <3>2. ASSUME NEW i \in 1..(n - 1)
          PROVE  top(i) \div n \in Nat
      <4>1. top(i) \in Nat
        BY <2>3
      <4> HIDE DEF top
      <4>. QED
        BY <4>1, DivisionLaw
    <3>. QED
      BY <3>1, <3>2
  <2>6. points \in Seq(Int) /\ Len(points) = n - 1
    <3>1. DOMAIN points = 1..(n - 1) /\ points = [i \in 1..(n - 1) |-> points[i]]
      BY <2>1
    <3>2. \A i \in 1..(n - 1) : points[i] \in Int
      <4> HIDE DEF points, top
      <4>. QED
        BY <2>5
    <3> HIDE DEF points
    <3>3. n - 1 \in Nat /\ points \in [1..(n - 1) -> Int]
      BY <1>3, <3>1, <3>2
    <3>. QED
      BY <3>3
  <2> HIDE DEF points, top
  <2>7. /\ Len(ends) = n + 1 /\ ends[1] = 1 /\ ends[n + 1] = size + 1
        /\ \A i \in 1..(n - 1) : ends[i + 1] = points[i]
    <3>1. /\ Len(ends) = (n - 1) + 2 /\ ends[1] = 1 /\ ends[(n - 1) + 2] = size + 1
          /\ \A i \in 1..(n - 1) : ends[i + 1] = points[i]
      BY <2>6, EndsOf
    <3>2. (n - 1) + 2 = n + 1
      OBVIOUS
    <3> HIDE DEF ends
    <3>. QED
      BY <3>1, <3>2
  <2> HIDE DEF ends
  <2>8. top(0) \div n = 0 /\ top(n) \div n = size
    <3>1. top(0) = 0 /\ top(n) = n * size /\ n \in Nat \ {0}
      BY <1>3, <2>2 DEF top
    <3>2. 0 \div n = 0
      <4>1. 0 * n = 0
        OBVIOUS
      <4>. QED
        BY <3>1, <4>1, ExactDivision
    <3>3. (n * size) \div n = size
      <4>1. n * size = size * n
        OBVIOUS
      <4>. QED
        BY <3>1, <4>1, ExactDivision
    <3>. QED
      BY <3>1, <3>2, <3>3
  <2>9. \A i \in 0..n : ends[i + 1] = 1 + top(i) \div n
    <3>1. \A i \in 0..n : i = 0 \/ i = n \/ i \in 1..(n - 1)
      OBVIOUS
    <3>. QED
      BY <2>5, <2>7, <2>8, <3>1
  <2>10. ASSUME NEW i \in 2..(n + 1)
         PROVE  ends[i - 1] <= ends[i] /\ ends[i] - ends[i - 1] <= size \div n + 1
    <3> DEFINE a == top(i - 2)
               b == top(i - 1)
    <3>1. i - 2 \in 0..n /\ i - 1 \in 0..n /\ i - 1 \in 1..n /\ (i - 1) - 1 = i - 2
          /\ (i - 2) + 1 = i - 1 /\ (i - 1) + 1 = i
      OBVIOUS
    <3>2. a \in Nat /\ b \in Nat /\ a <= b /\ b <= a + size + 1 /\ n \in Nat \ {0}
      BY <1>3, <2>3, <2>4, <3>1
    <3>3. ends[i - 1] = 1 + a \div n /\ ends[i] = 1 + b \div n
      BY <2>9, <3>1
    <3> HIDE DEF a, b
    <3>4. /\ a \div n \in Nat /\ b \div n \in Nat /\ size \div n \in Nat
          /\ a \div n <= b \div n /\ b \div n - a \div n <= size \div n + 1
      BY <3>2, NextMultiple
    <3> DEFINE x == a \div n
               y == b \div n
               z == size \div n
    <3>5. /\ x \in Nat /\ y \in Nat /\ z \in Nat /\ x <= y /\ y - x <= z + 1
          /\ ends[i - 1] = 1 + x /\ ends[i] = 1 + y
      BY <3>3, <3>4
    <3> HIDE DEF x, y, z
    <3>6. ends[i - 1] <= ends[i] /\ ends[i] - ends[i - 1] <= z + 1
      BY <3>5
    <3>. QED
      BY <3>6 DEF z
  <2>11. EndsSpread(ends, size, n)
    BY <2>7, <2>10 DEF EndsSpread
  <2>. QED
    BY <2>11 DEF ends, points
<1>. QED
  BY <1>1, <1>2, <1>3

(* A call that has returned was answered by the function it was made for.  *)
PartitionInv ==
  /\ asked \in KP!PartitionCalls \cup KP!SampleCalls
  /\ answered =>
       answer = IF asked \in KP!PartitionCalls
                THEN KP!Partition(asked.lower, asked.upper, asked.n)
                ELSE KP!ComputeSplitPoints(asked.size, asked.n, asked.rounded)

LEMMA PartitionInitInv == Init => PartitionInv
<1> SUFFICES ASSUME Init PROVE PartitionInv
  OBVIOUS
<1>1. [size |-> 0, n |-> 0, rounded |-> {}] \in KP!SampleCalls
  BY PartitionAssumption DEF KP!SampleCalls
<1>2. asked \in From("partitioner", KP!PartitionCalls \cup KP!SampleCalls) /\ answered = FALSE
  BY DEF Init, KP!Init
<1> DEFINE calls == KP!PartitionCalls \cup KP!SampleCalls
<1>3. calls # {}
  BY <1>1
<1> HIDE DEF calls
<1>4. asked \in calls
  BY <1>2, <1>3 DEF From, calls
<1>. QED
  BY <1>2, <1>4 DEF PartitionInv, calls

LEMMA AllRangesCover ==
  ASSUME asked \in KP!PartitionCalls, answer = KP!Partition(asked.lower, asked.upper, asked.n)
  PROVE  KP!RangesCover
<1> DEFINE l == asked.lower
           u == asked.upper
           n == asked.n
<1>1. l \in KP!Keys /\ u \in KP!Keys /\ n \in Nat
  BY PartitionAssumption DEF KP!PartitionCalls
<1>2. SUFFICES ASSUME NEW key \in KP!Keys, n > 0, KP!Within(key, asked)
               PROVE  LET by == {i \in DOMAIN answer : KP!Within(key, answer[i])} IN
                      by # {} /\ (KP!BytesOrdered => \E i \in by : by = {i})
  BY DEF KP!RangesCover
<1>3. KP!LessEq(l, key) /\ (u = <<>> \/ KP!Less(key, u))
  BY <1>2 DEF KP!Within
<1>4. l \in Seq(Nat) /\ u \in Seq(Nat) /\ key \in Seq(Nat)
  BY <1>1, KeysAreBytes
<1>5. answer = KP!Ranges(l, u, n) /\ n # 0
  <2>1. u # <<>> => ~KP!LessEq(u, l)
    <3> HIDE DEF l, u
    <3>. QED
      BY <1>3, <1>4, OrderOfKeys
  <2>. QED
    BY <1>1, <1>2, <2>1 DEF KP!Partition
<1>6. DOMAIN answer = 1..n
  BY <1>5 DEF KP!Ranges
<1>7. KP!BytesOrdered <=>
        (u = <<>> \/ \A m \in 1..MaxKeyLength : KP!ByteAt(l, m) <= KP!ByteAt(u, m))
  BY DEF KP!BytesOrdered
<1> HIDE DEF l, u, n
<1> DEFINE by == {i \in 1..n : KP!Within(key, KP!Ranges(l, u, n)[i])}
<1>8. /\ by # {}
      /\ (u = <<>> \/ \A m \in 1..MaxKeyLength : KP!ByteAt(l, m) <= KP!ByteAt(u, m))
           => \E i \in by : by = {i}
  BY <1>1, <1>3, <1>5, RangesHaveKeys
<1>9. by = {i \in DOMAIN answer : KP!Within(key, answer[i])}
  BY <1>5, <1>6
<1> HIDE DEF by
<1>. QED
  BY <1>7, <1>8, <1>9

(* Whatever the bounds and the number of partitions, every key between the *)
(* bounds is scanned by one of the ranges and by only one if the bytes of  *)
(* the bounds are in order; and sampled split points ascend without        *)
(* leaving out or overfilling a part (KeySpacePartitioner::partition and   *)
(* computeSplitPoints).                                                    *)
THEOREM KeysCovered == Spec => []EveryKeyCovered
<1>1. PartitionInv /\ [KP!Next]_partitionVars => PartitionInv'
  BY DEF PartitionInv, KP!Next, partitionVars
<1>2. PartitionInv => EveryKeyCovered
  <2> SUFFICES ASSUME PartitionInv, answered
               PROVE  IF asked \in KP!PartitionCalls THEN KP!RangesCover ELSE KP!SplitsSpread
    BY DEF EveryKeyCovered, KP!EveryKeyCovered
  <2>1. CASE asked \in KP!PartitionCalls
    BY <2>1, AllRangesCover DEF PartitionInv
  <2>2. CASE asked \notin KP!PartitionCalls
    <3>1. /\ asked \in KP!SampleCalls
          /\ answer = KP!ComputeSplitPoints(asked.size, asked.n, asked.rounded)
      BY <2>2 DEF PartitionInv
    <3>2. asked.size \in Nat /\ asked.n \in Nat
      BY <3>1, PartitionAssumption DEF KP!SampleCalls
    <3>3. EndsSpread(<<1>> \o answer \o <<asked.size + 1>>, asked.size, asked.n)
      BY <3>1, <3>2, SplitsAreSpread
    <3>. QED
      BY <2>2, <3>3 DEF KP!SplitsSpread, EndsSpread
  <2>. QED
    BY <2>1, <2>2
<1>3. PartitionInv /\ [Next]_vars => PartitionInv'
  BY <1>1, ServicesStep
<1>. QED
  BY PartitionInitInv, <1>2, <1>3, PTL DEF Spec

(***************************************************************************)
(* IResearchOptimizeTopK.  The scores in the heap are those of different   *)
(* documents that were scored, so a document that is below a full heap is  *)
(* below as many delivered documents as the query asks for.                *)
(***************************************************************************)

LEMMA SameCardinality ==
  ASSUME NEW S
  PROVE  TK!Cardinality(S) = Cardinality(S)
BY DEF TK!Cardinality, Cardinality

Ascends(h) == \A i, j \in 1..Len(h) : i <= j => h[i] <= h[j]

(* h has the scores of the documents doc[1], doc[2], ... of ds. *)
ScoresOf(h, doc, ds) ==
  /\ h \in Seq(Nat)
  /\ doc \in [1..Len(h) -> ds]
  /\ \A i, j \in 1..Len(h) : i # j => doc[i] # doc[j]
  /\ \A i \in 1..Len(h) : index[doc[i]].score = h[i]

(* A score has its place between those below and those that are not. *)
LEMMA PlaceInHeap ==
  ASSUME NEW h \in Seq(Nat), Ascends(h), NEW x \in Nat
  PROVE  \E n \in 0..Len(h) : \A i \in DOMAIN h : h[i] < x <=> i <= n
<1> DEFINE NotBelow == {i \in 1..Len(h) : ~(h[i] < x)}
<1>1. Len(h) \in Nat /\ DOMAIN h = 1..Len(h) /\ \A i \in 1..Len(h) : h[i] \in Nat
  OBVIOUS
<1>2. CASE NotBelow = {}
  <2>1. \A i \in DOMAIN h : h[i] < x <=> i <= Len(h)
    BY <1>1, <1>2
  <2>2. Len(h) \in 0..Len(h)
    BY <1>1
  <2>. QED
    BY <2>1, <2>2
<1>3. CASE NotBelow # {}
  <2>1. NotBelow \in SUBSET Nat
    OBVIOUS
  <2>2. PICK m \in NotBelow : \A i \in NotBelow : m <= i
    <3> HIDE DEF NotBelow
    <3>. QED
      BY <1>3, <2>1, LeastOf
  <2>3. m \in 1..Len(h) /\ ~(h[m] < x) /\ m - 1 \in 0..Len(h)
    BY <1>1, <2>2
  <2>4. \A i \in 1..Len(h) : i <= m - 1 => h[i] < x
    BY <1>1, <2>2, <2>3
  <2>5. \A i \in 1..Len(h) : ~(i <= m - 1) => ~(h[i] < x)
    <3>1. \A i \in 1..Len(h) : ~(i <= m - 1) => m <= i
      BY <1>1, <2>3
    <3>2. \A i \in 1..Len(h) : m <= i => h[m] <= h[i]
      BY <2>3 DEF Ascends
    <3>. QED
      BY <1>1, <2>3, <3>1, <3>2
  <2>. QED
    BY <1>1, <2>3, <2>4, <2>5
<1>. QED
  BY <1>2, <1>3

Place(h, x) == CHOOSE n \in 0..Len(h) : \A i \in DOMAIN h : h[i] < x <=> i <= n

(* A heap with one more score. *)
LEMMA InsertedAt ==
  ASSUME NEW h \in Seq(Nat), Ascends(h), NEW x \in Nat
  PROVE  LET g == TK!Inserted(h, x)
             n == Place(h, x)
         IN  /\ n \in 0..Len(h) /\ \A i \in 1..Len(h) : h[i] < x <=> i <= n
             /\ g \in Seq(Nat) /\ Len(g) = Len(h) + 1 /\ Len(h) \in Nat
             /\ \A i \in 1..n : g[i] = h[i]
             /\ g[n + 1] = x
             /\ \A i \in (n + 1)..Len(h) : g[i + 1] = h[i]
<1> DEFINE n == Place(h, x)
           g == TK!Inserted(h, x)
<1>1. n \in 0..Len(h) /\ \A i \in DOMAIN h : h[i] < x <=> i <= n
  <2>1. \E m \in 0..Len(h) : \A i \in DOMAIN h : h[i] < x <=> i <= m
    BY PlaceInHeap
  <2>. QED
    BY <2>1 DEF Place
<1>2. g = SubSeq(h, 1, n) \o <<x>> \o SubSeq(h, n + 1, Len(h))
  BY DEF TK!Inserted, Place
<1> HIDE DEF n, g
<1>3. Len(h) \in Nat /\ DOMAIN h = 1..Len(h)
  OBVIOUS
<1> DEFINE front == SubSeq(h, 1, n)
           back == SubSeq(h, n + 1, Len(h))
<1>4. front \in Seq(Nat) /\ Len(front) = n /\ \A i \in 1..n : front[i] = h[i]
  BY <1>1, <1>3
<1>5. back \in Seq(Nat) /\ Len(back) = Len(h) - n /\ \A i \in 1..(Len(h) - n) : back[i] = h[n + i]
  <2>1. n + 1 \in 1..(Len(h) + 1) /\ \A i \in (n + 1)..Len(h) : h[i] \in Nat
    BY <1>1, <1>3
  <2>2. back \in Seq(Nat)
    BY <1>3, <2>1
  <2>3. Len(back) = Len(h) - n
    <3>1. CASE n = Len(h)
      <4>1. n + 1 > Len(h) /\ back = <<>>
        BY <1>3, <3>1
      <4>. QED
        BY <1>3, <3>1, <4>1
    <3>2. CASE n < Len(h)
      <4>1. n + 1 <= Len(h) /\ Len(h) - (n + 1) + 1 = Len(h) - n
        BY <1>1, <1>3, <3>2
      <4>2. Len(back) = Len(h) - (n + 1) + 1
        BY <1>1, <1>3, <4>1
      <4>. QED
        BY <4>1, <4>2
    <3>3. n = Len(h) \/ n < Len(h)
      <4> DEFINE len == Len(h)
      <4>1. n \in 0..len /\ len \in Nat
        BY <1>1, <1>3
      <4> HIDE DEF len
      <4>2. n = len \/ n < len
        BY <4>1
      <4>. QED
        BY <4>2 DEF len
    <3>. QED
      BY <3>1, <3>2, <3>3
  <2>4. \A i \in 1..(Len(h) - n) : back[i] = h[(n + 1) + i - 1] /\ (n + 1) + i - 1 = n + i
    BY <1>1, <1>3
  <2>. QED
    BY <2>2, <2>3, <2>4
<1>6. g = (front \o <<x>>) \o back
  BY <1>2
<1> HIDE DEF front, back
<1> DEFINE f == front \o <<x>>
<1>7. f \in Seq(Nat) /\ Len(f) = n + 1 /\ f[n + 1] = x /\ \A i \in 1..n : f[i] = h[i]
  <2>1. f \in Seq(Nat) /\ Len(f) = Len(front) + 1 /\ f[Len(front) + 1] = x
        /\ \A i \in 1..Len(front) : f[i] = front[i]
    BY <1>4
  <2>. QED
    BY <1>4, <2>1
<1> HIDE DEF f
<1>8. /\ g \in Seq(Nat) /\ Len(g) = Len(f) + Len(back)
      /\ \A i \in 1..Len(f) : g[i] = f[i]
      /\ \A i \in 1..Len(back) : g[Len(f) + i] = back[i]
  <2>1. g = f \o back
    BY <1>6 DEF f
  <2>. QED
    BY <1>5, <1>7, <2>1
<1>9. Len(g) = Len(h) + 1
  BY <1>1, <1>3, <1>5, <1>7, <1>8
<1>10. g[n + 1] = x /\ \A i \in 1..n : g[i] = h[i]
  BY <1>1, <1>7, <1>8
<1>11. ASSUME NEW i \in (n + 1)..Len(h)
       PROVE  g[i + 1] = h[i]
  <2>1. i - n \in 1..(Len(h) - n) /\ (n + 1) + (i - n) = i + 1 /\ n + (i - n) = i
    BY <1>1, <1>3
  <2>2. g[(n + 1) + (i - n)] = back[i - n] /\ back[i - n] = h[n + (i - n)]
    BY <1>5, <1>7, <1>8, <2>1
  <2>. QED
    BY <2>1, <2>2
<1>. QED
  BY <1>1, <1>3, <1>8, <1>9, <1>10, <1>11 DEF g, n

(* The same of arrays: h with x in its place between n and n + 1. *)
PutIn(g, h, len, n, x) ==
  /\ n \in 0..len
  /\ \A i \in 1..n : g[i] = h[i]
  /\ g[n + 1] = x
  /\ \A i \in (n + 1)..len : g[i + 1] = h[i]

CameFrom(g, h, len, n, x, i) ==
  \/ i <= n /\ i \in 1..len /\ g[i] = h[i]
  \/ i = n + 1 /\ g[i] = x
  \/ i > n + 1 /\ i - 1 \in 1..len /\ g[i] = h[i - 1]

LEMMA PutInAt ==
  ASSUME NEW g, NEW h, NEW len \in Nat, NEW n, NEW x, PutIn(g, h, len, n, x),
         NEW i \in 1..(len + 1)
  PROVE  CameFrom(g, h, len, n, x, i)
<1>1. n \in 0..len
  BY DEF PutIn
<1>2. CASE i <= n
  BY <1>1, <1>2 DEF PutIn, CameFrom
<1>3. CASE i = n + 1
  BY <1>3 DEF PutIn, CameFrom
<1>4. CASE ~(i <= n) /\ i # n + 1
  <2>1. i - 1 \in (n + 1)..len /\ (i - 1) + 1 = i /\ i > n + 1 /\ i - 1 \in 1..len
    BY <1>1, <1>4
  <2>2. g[(i - 1) + 1] = h[i - 1]
    BY <2>1 DEF PutIn
  <2>. QED
    BY <2>1, <2>2 DEF CameFrom
<1>. QED
  BY <1>2, <1>3, <1>4

LEMMA PutInOrder ==
  ASSUME NEW g, NEW h, NEW len \in Nat, NEW n, NEW x \in Nat, PutIn(g, h, len, n, x),
         \A i \in 1..len : h[i] \in Nat /\ (h[i] < x <=> i <= n),
         \A i, j \in 1..len : i <= j => h[i] <= h[j],
         NEW i \in 1..(len + 1), NEW j \in 1..(len + 1), i <= j
  PROVE  g[i] <= g[j]
<1>1. n \in Nat
  BY DEF PutIn
<1>2. CameFrom(g, h, len, n, x, i) /\ CameFrom(g, h, len, n, x, j)
  BY PutInAt
<1>3. CASE i = j
  <2>1. g[i] \in Nat
    BY <1>2 DEF CameFrom
  <2>. QED
    BY <1>3, <2>1
<1>4. CASE i # j /\ i <= n
  <2>1. i \in 1..len /\ g[i] = h[i] /\ h[i] \in Nat /\ h[i] < x
    BY <1>1, <1>4, <1>2 DEF CameFrom
  <2>2. \/ j \in 1..len /\ g[j] = h[j]
        \/ g[j] = x
        \/ j > n + 1 /\ j - 1 \in 1..len /\ g[j] = h[j - 1]
    BY <1>2 DEF CameFrom
  <2>3. j > n + 1 => i <= j - 1
    BY <1>1, <1>4
  <2>. QED
    BY <2>1, <2>2, <2>3
<1>5. CASE i # j /\ i = n + 1
  <2>1. g[i] = x /\ j > n + 1
    BY <1>1, <1>5, <1>2 DEF CameFrom
  <2>2. j - 1 \in 1..len /\ g[j] = h[j - 1] /\ ~(j - 1 <= n)
    BY <1>1, <2>1, <1>2 DEF CameFrom
  <2>3. h[j - 1] \in Nat /\ ~(h[j - 1] < x)
    BY <2>2
  <2>. QED
    BY <2>1, <2>2, <2>3
<1>6. CASE i # j /\ i > n + 1
  <2>1. i - 1 \in 1..len /\ g[i] = h[i - 1] /\ j > n + 1 /\ i - 1 <= j - 1
    BY <1>1, <1>6, <1>2 DEF CameFrom
  <2>2. j - 1 \in 1..len /\ g[j] = h[j - 1]
    BY <1>1, <2>1, <1>2 DEF CameFrom
  <2>. QED
    BY <2>1, <2>2
<1>. QED
  BY <1>1, <1>3, <1>4, <1>5, <1>6

LEMMA InsertedAscends ==
  ASSUME NEW h \in Seq(Nat), Ascends(h), NEW x \in Nat
  PROVE  Ascends(TK!Inserted(h, x))
<1> DEFINE n == Place(h, x)
           g == TK!Inserted(h, x)
           len == Len(h)
<1>1. /\ PutIn(g, h, len, n, x)
      /\ \A i \in 1..len : h[i] < x <=> i <= n
      /\ Len(g) = len + 1 /\ len \in Nat
  BY InsertedAt DEF PutIn
<1>2. \A i \in 1..len : h[i] \in Nat
  OBVIOUS
<1>3. \A i, j \in 1..len : i <= j => h[i] <= h[j]
  BY DEF Ascends
<1> HIDE DEF n, g, len
<1>4. \A i, j \in 1..(len + 1) : i <= j => g[i] <= g[j]
  BY <1>1, <1>2, <1>3, PutInOrder
<1>5. Ascends(g)
  BY <1>1, <1>4 DEF Ascends
<1>. QED
  BY <1>5 DEF g

LEMMA InsertedScores ==
  ASSUME NEW h, NEW doc, NEW ds, NEW c, c \notin ds, ScoresOf(h, doc, ds), Ascends(h),
         index[c].score \in Nat
  PROVE  \E d : ScoresOf(TK!Inserted(h, index[c].score), d, ds \cup {c})
<1> DEFINE x == index[c].score
           n == Place(h, x)
           g == TK!Inserted(h, x)
           d == [i \in 1..(Len(h) + 1) |->
                   IF i <= n THEN doc[i] ELSE IF i = n + 1 THEN c ELSE doc[i - 1]]
<1>1. h \in Seq(Nat) /\ x \in Nat
  BY DEF ScoresOf
<1> DEFINE len == Len(h)
<1>2. PutIn(g, h, len, n, x) /\ g \in Seq(Nat) /\ Len(g) = len + 1 /\ len \in Nat
  <2> HIDE DEF x
  <2>. QED
    BY <1>1, InsertedAt DEF PutIn
<1>3. d \in [1..(len + 1) -> {d[i] : i \in 1..(len + 1)}]
  OBVIOUS
<1>4. /\ \A i \in 1..len : doc[i] \in ds /\ index[doc[i]].score = h[i]
      /\ \A i, j \in 1..len : i # j => doc[i] # doc[j]
  BY DEF ScoresOf
<1>5. PutIn(d, doc, len, n, c)
  <2>1. n \in 0..len /\ len \in Nat
    BY <1>2 DEF PutIn
  <2>2. \A i \in 1..(len + 1) :
          d[i] = IF i <= n THEN doc[i] ELSE IF i = n + 1 THEN c ELSE doc[i - 1]
    OBVIOUS
  <2> HIDE DEF d, n, len
  <2>3. \A i \in 1..n : i \in 1..(len + 1) /\ i <= n
    BY <2>1
  <2>4. n + 1 \in 1..(len + 1) /\ ~(n + 1 <= n)
    BY <2>1
  <2>5. \A i \in (n + 1)..len : i + 1 \in 1..(len + 1) /\ ~(i + 1 <= n) /\ i + 1 # n + 1
                               /\ (i + 1) - 1 = i
    BY <2>1
  <2>. QED
    BY <2>1, <2>2, <2>3, <2>4, <2>5 DEF PutIn
<1> HIDE DEF d, n, g, x, len
<1>6. \A i \in 1..(len + 1) :
        \/ i <= n /\ i \in 1..len /\ g[i] = h[i] /\ d[i] = doc[i]
        \/ i = n + 1 /\ g[i] = x /\ d[i] = c
        \/ i > n + 1 /\ i - 1 \in 1..len /\ g[i] = h[i - 1] /\ d[i] = doc[i - 1]
  <2>1. ASSUME NEW i \in 1..(len + 1)
        PROVE  \/ i <= n /\ i \in 1..len /\ g[i] = h[i] /\ d[i] = doc[i]
               \/ i = n + 1 /\ g[i] = x /\ d[i] = c
               \/ i > n + 1 /\ i - 1 \in 1..len /\ g[i] = h[i - 1] /\ d[i] = doc[i - 1]
    <3>1. CameFrom(g, h, len, n, x, i)
      <4>1. PutIn(g, h, len, n, x) /\ len \in Nat
        BY <1>2
      <4>. QED
        BY <4>1, PutInAt
    <3>2. CameFrom(d, doc, len, n, c, i)
      <4>1. PutIn(d, doc, len, n, c) /\ len \in Nat
        BY <1>2, <1>5
      <4>. QED
        BY <4>1, PutInAt
    <3>3. n \in Nat /\ i \in Nat
      BY <1>2 DEF PutIn
    <3>. QED
      BY <3>1, <3>2, <3>3 DEF CameFrom
  <2>. QED
    BY <2>1
<1>7. \A i \in 1..(len + 1) : d[i] \in ds \cup {c} /\ index[d[i]].score = g[i]
  BY <1>4, <1>6 DEF x
<1>8. \A i, j \in 1..(len + 1) : i # j => d[i] # d[j]
  <2>1. ASSUME NEW i \in 1..(len + 1), NEW j \in 1..(len + 1), i # j
        PROVE  d[i] # d[j]
    <3>1. n \in Nat /\ i \in Nat /\ j \in Nat
      BY <1>2 DEF PutIn
    <3>2. CASE i = n + 1
      <4>1. d[i] = c /\ d[j] \in ds
        BY <1>4, <1>6, <2>1, <3>1, <3>2
      <4>. QED
        BY <4>1
    <3>3. CASE j = n + 1
      <4>1. d[j] = c /\ d[i] \in ds
        BY <1>4, <1>6, <2>1, <3>1, <3>3
      <4>. QED
        BY <4>1
    <3>4. CASE i # n + 1 /\ j # n + 1
      <4> DEFINE p == IF i <= n THEN i ELSE i - 1
                 q == IF j <= n THEN j ELSE j - 1
      <4>1. p \in 1..len /\ d[i] = doc[p]
        BY <1>6, <3>1, <3>4
      <4>2. q \in 1..len /\ d[j] = doc[q]
        BY <1>6, <3>1, <3>4
      <4>3. p # q
        BY <2>1, <3>1, <3>4
      <4> HIDE DEF p, q
      <4>. QED
        BY <1>4, <4>1, <4>2, <4>3
    <3>. QED
      BY <3>2, <3>3, <3>4
  <2>. QED
    BY <2>1
<1>9. d \in [1..(len + 1) -> ds \cup {c}]
  BY <1>3, <1>7
<1>10. ScoresOf(g, d, ds \cup {c})
  BY <1>2, <1>7, <1>8, <1>9 DEF ScoresOf
<1>. QED
  BY <1>10 DEF g, x

LEMMA TailScores ==
  ASSUME NEW h, NEW doc, NEW ds, ScoresOf(h, doc, ds), Ascends(h), Len(h) > 0
  PROVE  Ascends(Tail(h)) /\ \E d : ScoresOf(Tail(h), d, ds)
<1> DEFINE t == Tail(h)
           d == [i \in 1..(Len(h) - 1) |-> doc[i + 1]]
<1>1. h \in Seq(Nat) /\ Len(h) \in Nat
  BY DEF ScoresOf
<1>2. t \in Seq(Nat) /\ Len(t) = Len(h) - 1 /\ \A i \in 1..(Len(h) - 1) : t[i] = h[i + 1]
  BY <1>1
<1>3. \A i \in 1..(Len(h) - 1) : i + 1 \in 1..Len(h) /\ d[i] = doc[i + 1]
  BY <1>1
<1>4. /\ \A i \in 1..Len(h) : doc[i] \in ds /\ index[doc[i]].score = h[i]
      /\ \A i, j \in 1..Len(h) : i # j => doc[i] # doc[j]
  BY DEF ScoresOf
<1>5. d \in [1..(Len(h) - 1) -> ds]
  BY <1>3, <1>4
<1> HIDE DEF t, d
<1>6. \A i, j \in 1..(Len(h) - 1) : i # j => i + 1 # j + 1
  BY <1>1
<1>7. ScoresOf(t, d, ds)
  <2>1. \A i, j \in 1..(Len(h) - 1) : i # j => d[i] # d[j]
    BY <1>3, <1>4, <1>6
  <2>2. \A i \in 1..(Len(h) - 1) : index[d[i]].score = t[i]
    BY <1>2, <1>3, <1>4
  <2>. QED
    BY <1>2, <1>5, <2>1, <2>2 DEF ScoresOf
<1>8. Ascends(t)
  <2>1. \A i, j \in 1..(Len(h) - 1) : i <= j => i + 1 <= j + 1
    BY <1>1
  <2>. QED
    BY <1>2, <1>3, <2>1 DEF Ascends
<1>. QED
  BY <1>7, <1>8 DEF t

(* As many different documents of ds as the query asks for are better.     *)
Beaten(e, ds) ==
  \E doc \in [1..plan.limit -> ds] :
    /\ \A i, j \in 1..plan.limit : i # j => doc[i] # doc[j]
    /\ \A i \in 1..plan.limit : index[doc[i]].score > index[e].score

Found(e) == e \in delivered \/ (TK!WandEnabled(plan) /\ Beaten(e, delivered))

TopKTypeOK ==
  /\ plan \in TK!Plans /\ index \in TK!Indexes
  /\ position \in [TK!Segments -> Nat]
  /\ delivered \subseteq Docs /\ current \in delivered \cup {0}

HeapOfScored ==
  TK!WandEnabled(plan) =>
    /\ Len(heap) <= plan.limit /\ Ascends(heap)
    /\ \E doc : ScoresOf(heap, doc, delivered \ {current})

DeliveredPassed == \A d \in delivered : d <= position[SegmentOf[d]]

PassedFound == \A e \in Docs : e <= position[SegmentOf[e]] => Found(e)

TopKInv == TopKTypeOK /\ HeapOfScored /\ DeliveredPassed /\ PassedFound

LEMMA PlanNumbers ==
  ASSUME NEW p \in TK!Plans
  PROVE  p.limit \in Nat /\ p.offset \in Nat
<1>1. \A q \in TK!Pattern : /\ q.limit \in Nat /\ q.offset \in Nat
                             /\ DOMAIN q = {"limit", "offset", "sort", "ascending", "over", "ties"}
  BY DEF TK!Pattern
<1>2. ASSUME NEW q \in TK!Pattern, p \in TK!Variants(q)
      PROVE  p.limit \in Nat /\ p.offset \in Nat
  BY <1>1, <1>2 DEF TK!Variants
<1>3. p \in TK!Pattern \/ \E q \in TK!Pattern : p \in TK!Variants(q)
  BY DEF TK!Plans
<1>. QED
  BY <1>1, <1>2, <1>3

LEMMA DocsAreNumbers ==
  /\ Docs \subseteq Nat \ {0} /\ IsFiniteSet(Docs)
  /\ \A d \in Docs : SegmentOf[d] \in TK!Segments
BY DocsAssumption DEF TK!Segments

LEMMA ScoresAreNumbers ==
  ASSUME TopKTypeOK, NEW d \in Docs
  PROVE  index[d].score \in Nat /\ index[d].maxScore \in Nat /\ index[d].score <= index[d].maxScore
BY DocsAssumption DEF TopKTypeOK, TK!Indexes

LEMMA WiderScores ==
  ASSUME NEW h, NEW doc, NEW ds, NEW wider, ds \subseteq wider, ScoresOf(h, doc, ds)
  PROVE  ScoresOf(h, doc, wider)
<1>1. \A i \in 1..Len(h) : doc[i] \in wider
  BY DEF ScoresOf
<1>. QED
  BY <1>1 DEF ScoresOf

LEMMA WiderBeaten ==
  ASSUME NEW e, NEW ds, NEW wider, ds \subseteq wider, Beaten(e, ds)
  PROVE  Beaten(e, wider)
<1>1. PICK doc \in [1..plan.limit -> ds] :
        /\ \A i, j \in 1..plan.limit : i # j => doc[i] # doc[j]
        /\ \A i \in 1..plan.limit : index[doc[i]].score > index[e].score
  BY DEF Beaten
<1>2. doc \in [1..plan.limit -> wider]
  OBVIOUS
<1>. QED
  BY <1>1, <1>2 DEF Beaten

(* What the iterator skips cannot be in the result. *)
LEMMA SkippedIsBeaten ==
  ASSUME TopKInv, current = 0, NEW e \in Docs, ~TK!Competitive(e)
  PROVE  TK!WandEnabled(plan) /\ Beaten(e, delivered)
<1>1. TK!WandEnabled(plan) /\ ~(index[e].maxScore >= TK!Threshold)
  BY DEF TK!Competitive
<1>2. plan.limit \in Nat /\ 0 \notin delivered /\ delivered \ {0} = delivered
  BY PlanNumbers, DocsAreNumbers DEF TopKInv, TopKTypeOK
<1>3. PICK doc : ScoresOf(heap, doc, delivered)
  BY <1>1, <1>2 DEF TopKInv, HeapOfScored
<1>4. index[e].score \in Nat /\ index[e].maxScore \in Nat /\ index[e].score <= index[e].maxScore
  BY ScoresAreNumbers DEF TopKInv
<1>5. heap \in Seq(Nat) /\ Len(heap) \in Nat /\ Len(heap) <= plan.limit /\ Ascends(heap)
  BY <1>1, <1>3 DEF ScoresOf, TopKInv, HeapOfScored
<1>6. Len(heap) = plan.limit /\ TK!Threshold = heap[1]
  <2>1. ~(Len(heap) < plan.limit)
    <3>1. Len(heap) < plan.limit => TK!Threshold = 0
      BY DEF TK!Threshold
    <3>. QED
      BY <1>1, <1>4, <3>1
  <2>2. TK!Threshold = heap[1]
    BY <2>1 DEF TK!Threshold
  <2>. QED
    BY <1>2, <1>5, <2>1, <2>2
<1>7. ASSUME NEW i \in 1..plan.limit
      PROVE  index[doc[i]].score > index[e].score
  <2>1. 1 \in 1..Len(heap) /\ i \in 1..Len(heap) /\ 1 <= i
    BY <1>2, <1>6
  <2>2. heap[1] <= heap[i] /\ heap[1] \in Nat /\ heap[i] \in Nat
    BY <1>5, <2>1 DEF Ascends
  <2>3. index[doc[i]].score = heap[i]
    BY <1>3, <2>1 DEF ScoresOf
  <2>. QED
    BY <1>1, <1>4, <1>6, <2>2, <2>3
<1>8. doc \in [1..plan.limit -> delivered] /\ \A i, j \in 1..plan.limit : i # j => doc[i] # doc[j]
  BY <1>3, <1>6 DEF ScoresOf
<1>. QED
  BY <1>1, <1>7, <1>8 DEF Beaten

LEMMA AdvanceInv ==
  ASSUME TopKInv, NEW s \in TK!Segments, NEW target \in Nat,
         TK!Remaining(s, position[s] + 1) = TK!Remaining(s, target), TK!Advance(s, target)
  PROVE  TopKInv'
<1>1. current = 0 /\ target > position[s] /\ UNCHANGED <<plan, index, heap>>
  BY DEF TK!Advance
<1>2. PICK d \in TK!Remaining(s, target) :
        /\ \A e \in TK!Remaining(s, target) : e < d => ~TK!Competitive(e)
        /\ position' = [position EXCEPT ![s] = d]
        /\ current' = d /\ delivered' = delivered \cup {d}
  BY DEF TK!Advance
<1>3. d \in Docs /\ d \in Nat /\ d # 0 /\ SegmentOf[d] = s /\ d >= target /\ position[s] \in Nat
  BY DocsAreNumbers DEF TK!Remaining, TopKInv, TopKTypeOK
<1>4. d \notin delivered
  BY <1>1, <1>3 DEF TopKInv, DeliveredPassed
<1>5. TopKTypeOK'
  BY <1>1, <1>2, <1>3 DEF TopKInv, TopKTypeOK
<1>6. HeapOfScored'
  <2>1. 0 \notin delivered
    BY DocsAreNumbers DEF TopKInv, TopKTypeOK
  <2>2. delivered \ {current} = delivered /\ delivered' \ {current'} = delivered
    BY <1>1, <1>2, <1>4, <2>1
  <2>3. CASE TK!WandEnabled(plan)
    <3>1. Len(heap) <= plan.limit /\ Ascends(heap)
      BY <2>3 DEF TopKInv, HeapOfScored
    <3>2. PICK doc : ScoresOf(heap, doc, delivered)
      BY <2>2, <2>3 DEF TopKInv, HeapOfScored
    <3>3. ScoresOf(heap, doc, delivered \ {current})'
      BY <1>1, <2>2, <3>2 DEF ScoresOf
    <3>4. (Len(heap) <= plan.limit /\ Ascends(heap))'
      BY <1>1, <3>1 DEF Ascends
    <3>. QED
      BY <3>3, <3>4 DEF HeapOfScored
  <2>4. CASE ~TK!WandEnabled(plan)
    BY <1>1, <2>4 DEF HeapOfScored, TK!WandEnabled
  <2>. QED
    BY <2>3, <2>4
<1>7. DeliveredPassed'
  <2>1. ASSUME NEW c \in delivered
        PROVE  c <= position'[SegmentOf[c]]
    <3>1. c \in Nat /\ SegmentOf[c] \in TK!Segments /\ c <= position[SegmentOf[c]]
      BY DocsAreNumbers DEF TopKInv, TopKTypeOK, DeliveredPassed
    <3>. QED
      BY <1>1, <1>2, <1>3, <3>1 DEF TopKInv, TopKTypeOK
  <2>2. d <= position'[SegmentOf[d]]
    BY <1>2, <1>3 DEF TopKInv, TopKTypeOK
  <2>. QED
    BY <1>2, <2>1, <2>2 DEF DeliveredPassed
<1>8. PassedFound'
  <2> SUFFICES ASSUME NEW e \in Docs, e <= position'[SegmentOf[e]]
               PROVE  Found(e)'
    BY DEF PassedFound
  <2>1. Found(e) => Found(e)'
    <3>1. Beaten(e, delivered) => Beaten(e, delivered \cup {d})
      BY WiderBeaten
    <3>2. Beaten(e, delivered \cup {d}) => Beaten(e, delivered)'
      BY <1>1, <1>2 DEF Beaten
    <3>. QED
      BY <1>1, <1>2, <3>1, <3>2 DEF Found, TK!WandEnabled
  <2>2. e \in Nat /\ SegmentOf[e] \in TK!Segments
    BY DocsAreNumbers
  <2>3. CASE e <= position[SegmentOf[e]]
    BY <2>1, <2>3 DEF TopKInv, PassedFound
  <2>4. CASE ~(e <= position[SegmentOf[e]]) /\ e # d
    <3>1. SegmentOf[e] = s /\ e <= d
      BY <1>2, <1>3, <2>2, <2>4 DEF TopKInv, TopKTypeOK
    <3>2. e \in TK!Remaining(s, position[s] + 1) /\ e < d
      BY <1>3, <2>2, <2>4, <3>1 DEF TK!Remaining
    <3>3. ~TK!Competitive(e)
      BY <1>2, <3>2
    <3>4. Found(e)
      BY <1>1, <3>3, SkippedIsBeaten DEF Found
    <3>. QED
      BY <2>1, <3>4
  <2>5. CASE e = d
    BY <1>2, <2>5 DEF Found
  <2>. QED
    BY <2>3, <2>4, <2>5
<1>. QED
  BY <1>5, <1>6, <1>7, <1>8 DEF TopKInv

LEMMA HeapGrows ==
  ASSUME TopKInv, TK!WandEnabled(plan), current # 0, TK!AddScore(index[current].score)
  PROVE  /\ Len(heap') <= plan.limit /\ Ascends(heap')
         /\ \E doc : ScoresOf(heap', doc, delivered)
<1> DEFINE c == current
           ds == delivered \ {c}
           x == index[c].score
           g == TK!Inserted(heap, x)
<1>1. c \in Docs /\ c \notin ds /\ ds \cup {c} = delivered /\ ds \subseteq delivered
  BY DEF TopKInv, TopKTypeOK
<1>2. x \in Nat /\ plan.limit \in Nat
  BY <1>1, ScoresAreNumbers, PlanNumbers DEF TopKInv, TopKTypeOK
<1>3. PICK doc : ScoresOf(heap, doc, ds)
  BY DEF TopKInv, HeapOfScored
<1>4. heap \in Seq(Nat) /\ Len(heap) \in Nat /\ Len(heap) <= plan.limit /\ Ascends(heap)
  BY <1>3 DEF ScoresOf, TopKInv, HeapOfScored
<1>5. PICK d : ScoresOf(g, d, delivered)
  <2>1. \E d : ScoresOf(g, d, ds \cup {c})
    <3> HIDE DEF c, ds
    <3>. QED
      BY <1>1, <1>2, <1>3, <1>4, InsertedScores
  <2>. QED
    BY <1>1, <2>1
<1>6. Ascends(g) /\ Len(g) = Len(heap) + 1
  <2> HIDE DEF x
  <2>1. Ascends(g)
    BY <1>2, <1>4, InsertedAscends
  <2>2. Len(g) = Len(heap) + 1
    BY <1>2, <1>4, InsertedAt
  <2>. QED
    BY <2>1, <2>2
<1>7. CASE heap' = g /\ Len(heap) < plan.limit
  BY <1>2, <1>4, <1>5, <1>6, <1>7
<1>8. CASE heap' = Tail(g) /\ Len(heap) = plan.limit
  <2> HIDE DEF g
  <2>1. g \in Seq(Nat)
    BY <1>5 DEF ScoresOf
  <2>2. Len(g) > 0 /\ Len(Tail(g)) = Len(heap)
    BY <1>4, <1>6, <2>1
  <2>3. Ascends(Tail(g)) /\ \E e : ScoresOf(Tail(g), e, delivered)
    BY <1>5, <1>6, <2>2, TailScores
  <2>. QED
    BY <1>4, <1>8, <2>2, <2>3
<1>9. CASE heap' = heap
  BY <1>1, <1>3, <1>4, <1>9, WiderScores
<1>10. \/ heap' = g /\ Len(heap) < plan.limit
       \/ heap' = Tail(g) /\ Len(heap) = plan.limit
       \/ heap' = heap
  BY DEF TK!AddScore
<1>. QED
  BY <1>7, <1>8, <1>9, <1>10

LEMMA ScoreInv == TopKInv /\ TK!Score => TopKInv'
<1> SUFFICES ASSUME TopKInv, TK!Score PROVE TopKInv'
  OBVIOUS
<1>1. current # 0 /\ current' = 0 /\ UNCHANGED <<plan, index, position, delivered>>
  BY DEF TK!Score
<1>2. TopKTypeOK' /\ DeliveredPassed'
  BY <1>1 DEF TopKInv, TopKTypeOK, DeliveredPassed
<1>3. PassedFound'
  <2>1. \A e \in Docs : Found(e) => Found(e)'
    BY <1>1 DEF Found, Beaten, TK!WandEnabled
  <2>. QED
    BY <1>1, <2>1 DEF TopKInv, PassedFound
<1>4. HeapOfScored'
  <2>1. 0 \notin delivered
    BY DocsAreNumbers DEF TopKInv, TopKTypeOK
  <2>2. delivered' \ {current'} = delivered
    BY <1>1, <2>1
  <2>3. CASE TK!WandEnabled(plan)
    <3>1. TK!AddScore(index[current].score)
      BY <2>3 DEF TK!Score
    <3>2. PICK doc : ScoresOf(heap', doc, delivered)
      BY <1>1, <2>3, <3>1, HeapGrows
    <3>3. ScoresOf(heap, doc, delivered \ {current})'
      BY <1>1, <2>2, <3>2 DEF ScoresOf
    <3>4. (Len(heap) <= plan.limit /\ Ascends(heap))'
      BY <1>1, <2>3, <3>1, HeapGrows DEF Ascends
    <3>. QED
      BY <3>3, <3>4 DEF HeapOfScored
  <2>4. CASE ~TK!WandEnabled(plan)
    BY <1>1, <2>4 DEF HeapOfScored, TK!WandEnabled
  <2>. QED
    BY <2>3, <2>4
<1>. QED
  BY <1>2, <1>3, <1>4 DEF TopKInv

LEMMA TopKNextInv == TopKInv /\ [TK!Next]_topKVars => TopKInv'
<1> SUFFICES ASSUME TopKInv, [TK!Next]_topKVars PROVE TopKInv'
  OBVIOUS
<1>1. CASE UNCHANGED topKVars
  <2>1. UNCHANGED <<plan, index, heap, position, current, delivered>>
    BY <1>1 DEF topKVars
  <2>2. TopKTypeOK' /\ DeliveredPassed'
    BY <2>1 DEF TopKInv, TopKTypeOK, DeliveredPassed
  <2>3. PassedFound'
    BY <2>1 DEF TopKInv, PassedFound, Found, Beaten, TK!WandEnabled
  <2>4. HeapOfScored'
    BY <2>1 DEF TopKInv, HeapOfScored, ScoresOf, Ascends, TK!WandEnabled
  <2>. QED
    BY <2>2, <2>3, <2>4 DEF TopKInv
<1>2. CASE TK!Score
  BY <1>2, ScoreInv
<1>3. ASSUME NEW s \in TK!Segments, TK!NextDoc(s)
      PROVE  TopKInv'
  <2>1. position[s] + 1 \in Nat
    BY DEF TopKInv, TopKTypeOK
  <2>. QED
    BY <1>3, <2>1, AdvanceInv DEF TK!NextDoc
<1>4. ASSUME NEW s \in TK!Segments, TK!Seek(s)
      PROVE  TopKInv'
  <2>1. PICK target \in position[s] + 2 .. TK!Cardinality(Docs) :
          /\ TK!Remaining(s, position[s] + 1) = TK!Remaining(s, target)
          /\ TK!Advance(s, target)
    BY <1>4 DEF TK!Seek
  <2>2. TK!Cardinality(Docs) \in Nat
    BY SameCardinality, DocsAreNumbers, FS_CardinalityType
  <2>3. position[s] \in Nat
    BY DEF TopKInv, TopKTypeOK
  <2>4. target \in Nat
    BY <2>2, <2>3
  <2>. QED
    BY <2>1, <2>4, AdvanceInv
<1>. QED
  BY <1>1, <1>2, <1>3, <1>4 DEF TK!Next

LEMMA TopKInitInv == Init => TopKInv
<1> SUFFICES ASSUME Init PROVE TopKInv
  OBVIOUS
<1>1. /\ plan \in From("topK", TK!Plans) /\ index \in From("topK", TK!Indexes)
      /\ heap = <<>> /\ position = [s \in TK!Segments |-> 0] /\ current = 0 /\ delivered = {}
  BY DEF Init, TK!Init
<1>2. [limit |-> 1, offset |-> 0, sort |-> "scorer", ascending |-> FALSE, over |-> "view",
       ties |-> "older"] \in TK!Plans
  BY DEF TK!Plans, TK!Pattern
<1>3. plan \in TK!Plans
  <2> DEFINE all == TK!Plans
  <2>1. all # {}
    BY <1>2
  <2> HIDE DEF all
  <2>2. plan \in all
    BY <1>1, <2>1 DEF From, all
  <2>. QED
    BY <2>2 DEF all
<1>4. index \in TK!Indexes
  <2> DEFINE all == TK!Indexes
             zero == [d \in Docs |-> [score |-> 0, maxScore |-> 0]]
  <2>1. zero \in all
    BY DocsAssumption DEF TK!Indexes
  <2>2. all # {}
    BY <2>1
  <2> HIDE DEF all
  <2>3. index \in all
    BY <1>1, <2>2 DEF From, all
  <2>. QED
    BY <2>3 DEF all
<1>5. TopKTypeOK /\ DeliveredPassed
  BY <1>1, <1>3, <1>4 DEF TopKTypeOK, DeliveredPassed
<1>6. PassedFound
  BY <1>1, DocsAreNumbers DEF PassedFound
<1>7. HeapOfScored
  <2>1. Len(heap) = 0 /\ heap \in Seq(Nat) /\ plan.limit \in Nat
    BY <1>1, <1>3, PlanNumbers
  <2>2. ScoresOf(heap, [i \in 1..0 |-> 0], delivered \ {current})
    BY <2>1 DEF ScoresOf
  <2>3. Len(heap) <= plan.limit /\ Ascends(heap)
    BY <2>1 DEF Ascends
  <2>. QED
    BY <2>2, <2>3 DEF HeapOfScored
<1>. QED
  BY <1>5, <1>6, <1>7 DEF TopKInv

(* If what is missing is beaten by what is there, nothing of the result is *)
(* missing.                                                                *)
LEMMA ResultsAgree ==
  ASSUME TopKTypeOK, TK!WandEnabled(plan), \A e \in Docs : e \in delivered \/ Beaten(e, delivered)
  PROVE  TK!Result(delivered) = TK!Result(Docs)
<1> DEFINE k == plan.limit
           Ahead(d, ds) == {e \in ds : TK!Before(e, d)}
<1>1. k \in Nat /\ k # 0 /\ plan.offset = 0 /\ ~plan.ascending
  BY PlanNumbers DEF TopKTypeOK, TK!WandEnabled
<1>2. delivered \subseteq Docs /\ \A d \in Docs : index[d].score \in Nat
  BY ScoresAreNumbers DEF TopKTypeOK
<1>3. \A d, e : TK!Before(d, e) <=>
        \/ index[d].score > index[e].score
        \/ index[d].score = index[e].score /\ (IF plan.ties = "older" THEN d < e ELSE d > e)
  BY <1>1 DEF TK!Before
<1>4. ASSUME NEW ds \in SUBSET Docs, NEW d \in ds
      PROVE  /\ Ahead(d, ds) \in SUBSET Docs /\ IsFiniteSet(Ahead(d, ds))
             /\ Cardinality(Ahead(d, ds)) \in Nat
             /\ d \in TK!Result(ds) <=> Cardinality(Ahead(d, ds)) < k
  <2>1. Ahead(d, ds) \in SUBSET Docs
    OBVIOUS
  <2>2. IsFiniteSet(Ahead(d, ds)) /\ Cardinality(Ahead(d, ds)) \in Nat
    <3> HIDE DEF Ahead
    <3>. QED
      BY <2>1, DocsAreNumbers, FS_Subset, FS_CardinalityType
  <2>3. d \in TK!Result(ds) <=> Cardinality(Ahead(d, ds)) \in plan.offset .. plan.offset + plan.limit - 1
    BY SameCardinality DEF TK!Result
  <2> HIDE DEF Ahead
  <2>. QED
    BY <1>1, <2>1, <2>2, <2>3
(* A document that is not better than one that is beaten is not in the     *)
(* result.                                                                 *)
<1>5. ASSUME NEW ds \in SUBSET Docs, delivered \subseteq ds, NEW d \in ds, NEW e \in Docs,
             Beaten(e, delivered), index[e].score >= index[d].score
      PROVE  d \notin TK!Result(ds)
  <2>1. PICK doc \in [1..k -> delivered] :
          /\ \A i, j \in 1..k : i # j => doc[i] # doc[j]
          /\ \A i \in 1..k : index[doc[i]].score > index[e].score
    BY <1>5 DEF Beaten
  <2>2. \A i \in 1..k : doc[i] \in Ahead(d, ds)
    <3>1. ASSUME NEW i \in 1..k
          PROVE  TK!Before(doc[i], d) /\ doc[i] \in ds
      <4>1. doc[i] \in delivered /\ doc[i] \in ds /\ doc[i] \in Docs
        BY <1>2, <1>5
      <4>2. index[doc[i]].score > index[d].score
        BY <1>2, <1>5, <2>1, <4>1
      <4>. QED
        BY <1>3, <4>1, <4>2
    <3>. QED
      BY <3>1
  <2> DEFINE T == Ahead(d, ds)
  <2>3. T \in SUBSET Docs /\ IsFiniteSet(T) /\ Cardinality(T) \in Nat
        /\ (d \in TK!Result(ds) <=> Cardinality(T) < k)
    BY <1>4
  <2> HIDE DEF T, k, Ahead
  <2>4. doc \in Injection(1..k, T)
    BY <2>1, <2>2 DEF Injection, IsInjective, T
  <2>5. Cardinality(1..k) <= Cardinality(T)
    BY <2>3, <2>4, FS_Injection
  <2>6. Cardinality(1..k) = k
    BY <1>1, FS_Interval
  <2>. QED
    BY <1>1, <2>3, <2>5, <2>6
<1>6. ASSUME NEW d \in delivered, d \in TK!Result(delivered)
      PROVE  d \in TK!Result(Docs)
  <2>1. \A e \in Docs : TK!Before(e, d) => e \in delivered
    <3>1. ASSUME NEW e \in Docs, TK!Before(e, d), e \notin delivered
          PROVE  FALSE
      <4>1. Beaten(e, delivered)
        BY <3>1
      <4>2. index[e].score >= index[d].score
        BY <1>2, <1>3, <3>1
      <4>. QED
        BY <1>2, <1>5, <1>6, <4>1, <4>2
    <3>. QED
      BY <3>1
  <2>2. Ahead(d, Docs) = Ahead(d, delivered)
    BY <1>2, <2>1
  <2>3. Cardinality(Ahead(d, delivered)) < k
    <3> HIDE DEF Ahead, k
    <3>. QED
      BY <1>2, <1>4, <1>6
  <2> HIDE DEF Ahead, k
  <2>. QED
    BY <1>2, <1>4, <2>2, <2>3
<1>7. ASSUME NEW d \in Docs, d \in TK!Result(Docs)
      PROVE  d \in TK!Result(delivered)
  <2>1. d \in delivered
    <3>1. SUFFICES ASSUME d \notin delivered PROVE FALSE
      OBVIOUS
    <3>2. Beaten(d, delivered) /\ index[d].score >= index[d].score
      BY <1>2, <3>1
    <3>. QED
      BY <1>2, <1>5, <1>7, <3>2
  <2>2. Ahead(d, delivered) \subseteq Ahead(d, Docs)
    BY <1>2
  <2> HIDE DEF Ahead, k
  <2>3. IsFiniteSet(Ahead(d, Docs)) /\ Cardinality(Ahead(d, Docs)) \in Nat
        /\ Cardinality(Ahead(d, Docs)) < k /\ Cardinality(Ahead(d, delivered)) \in Nat
    BY <1>2, <1>4, <1>7, <2>1
  <2>4. Cardinality(Ahead(d, delivered)) <= Cardinality(Ahead(d, Docs))
    BY <2>2, <2>3, FS_Subset
  <2>5. Cardinality(Ahead(d, delivered)) < k
    BY <1>1, <2>3, <2>4
  <2>. QED
    BY <1>2, <1>4, <2>1, <2>5
<1>8. TK!Result(delivered) \subseteq delivered /\ TK!Result(Docs) \subseteq Docs
  BY DEF TK!Result
<1>. QED
  BY <1>2, <1>6, <1>7, <1>8

(* However many segments and documents there are and whatever their scores *)
(* and bounds: when all iterators are exhausted, the best documents of     *)
(* those delivered are the best of all (optimizeTopKPatterns, WandIterator *)
(* and ScoreThresholdManager::addScore).                                   *)
THEOREM SkippingIsExact == Spec => []TopKIsExact
<1>1. TopKInv => TopKIsExact
  <2> SUFFICES ASSUME TopKInv, TK!Exhausted
               PROVE  TK!Result(delivered) = TK!Result(Docs)
    BY DEF TopKIsExact, TK!TopKIsExact
  <2>1. ASSUME NEW e \in Docs
        PROVE  Found(e)
    <3>1. e \in Nat /\ SegmentOf[e] \in TK!Segments /\ position[SegmentOf[e]] \in Nat
      BY DocsAreNumbers DEF TopKInv, TopKTypeOK
    <3>2. CASE e <= position[SegmentOf[e]]
      BY <3>2 DEF TopKInv, PassedFound
    <3>3. CASE ~(e <= position[SegmentOf[e]])
      <4>1. e \in TK!Remaining(SegmentOf[e], position[SegmentOf[e]] + 1)
        BY <3>1, <3>3 DEF TK!Remaining
      <4>2. current = 0 /\ ~TK!Competitive(e)
        BY <3>1, <4>1 DEF TK!Exhausted
      <4>. QED
        BY <4>2, SkippedIsBeaten DEF Found
    <3>. QED
      BY <3>2, <3>3
  <2>2. CASE TK!WandEnabled(plan)
    BY <2>1, <2>2, ResultsAgree DEF Found, TopKInv
  <2>3. CASE ~TK!WandEnabled(plan)
    <3>1. delivered = Docs
      BY <2>1, <2>3 DEF Found, TopKInv, TopKTypeOK
    <3>. QED
      BY <3>1
  <2>. QED
    BY <2>2, <2>3
<1>2. TopKInv /\ [Next]_vars => TopKInv'
  BY TopKNextInv, ServicesStep
<1>. QED
  BY TopKInitInv, <1>1, <1>2, PTL DEF Spec

(***************************************************************************)
(* EncryptionProvider.                                                     *)
(***************************************************************************)

LEMMA OneDivision ==
  ASSUME NEW b \in Nat \ {0}, NEW p \in Nat, NEW q \in Nat,
         NEW r \in 0..(b - 1), NEW s \in 0..(b - 1), p * b + r = q * b + s
  PROVE  p = q /\ r = s
<1>1. ASSUME NEW x \in Nat, NEW y \in Nat, NEW u \in 0..(b - 1), NEW v \in 0..(b - 1), x < y
      PROVE  x * b + u < y * b + v
  <2>1. (x + 1) * b <= y * b /\ (x + 1) * b = x * b + b /\ x * b \in Nat /\ y * b \in Nat
    BY <1>1
  <2>. QED
    BY <2>1
<1>2. p = q
  <2>1. ~(p < q) /\ ~(q < p)
    <3>1. p * b + r \in Nat /\ q * b + s \in Nat
      <4>1. p * b \in Nat /\ q * b \in Nat
        OBVIOUS
      <4>. QED
        BY <4>1
    <3>. QED
      BY <1>1, <3>1
  <2>. QED
    BY <2>1
<1>3. p * b \in Nat
  OBVIOUS
<1>. QED
  BY <1>2, <1>3

(* The sum of a byte of the first counter and of the carry, as the byte of *)
(* the counter and the next carry.                                         *)
Byte(f, c) == (f + (c % Base)) % Base
NextCarry(f, c) == (c \div Base) + ((f + (c % Base)) \div Base)

LEMMA SumsOfBytes ==
  ASSUME NEW f \in EP!Digits, NEW c \in Nat
  PROVE  /\ Byte(f, c) \in EP!Digits /\ NextCarry(f, c) \in Nat
         /\ f + c = NextCarry(f, c) * Base + Byte(f, c)
<1> DEFINE q == c \div Base
           r == c % Base
           p == (f + r) \div Base
           d == (f + r) % Base
<1>1. Base \in Nat \ {0} /\ f \in Nat
  BY FrameAssumption DEF EP!Digits
<1>2. q \in Nat /\ r \in 0..(Base - 1) /\ c = q * Base + r
  BY <1>1, DivisionLaw
<1>3. p \in Nat /\ d \in 0..(Base - 1) /\ f + r = p * Base + d
  <2> HIDE DEF r
  <2>1. f + r \in Nat
    BY <1>1, <1>2
  <2>. QED
    BY <1>1, <2>1, DivisionLaw
<1> HIDE DEF q, r, p, d
<1>4. (q + p) * Base = q * Base + p * Base /\ q * Base \in Nat /\ p * Base \in Nat
  BY <1>1, <1>2, <1>3
<1>5. d \in EP!Digits /\ q + p \in Nat /\ f + c = (q + p) * Base + d
  BY <1>1, <1>2, <1>3, <1>4 DEF EP!Digits
<1>. QED
  BY <1>5 DEF Byte, NextCarry, q, r, p, d

LEMMA SumsOfNext ==
  ASSUME NEW f \in EP!Digits, NEW c \in Nat
  PROVE  /\ Byte(f, c) < Base - 1 =>
              Byte(f, c + 1) = Byte(f, c) + 1 /\ NextCarry(f, c + 1) = NextCarry(f, c)
         /\ Byte(f, c) = Base - 1 =>
              Byte(f, c + 1) = 0 /\ NextCarry(f, c + 1) = NextCarry(f, c) + 1
<1> DEFINE d == Byte(f, c)
           n == NextCarry(f, c)
           e == Byte(f, c + 1)
           m == NextCarry(f, c + 1)
<1>1. Base \in Nat \ {0} /\ f \in Nat /\ EP!Digits = 0..(Base - 1)
  BY FrameAssumption DEF EP!Digits
<1>2. d \in 0..(Base - 1) /\ n \in Nat /\ f + c = n * Base + d
  BY <1>1, SumsOfBytes
<1>3. e \in 0..(Base - 1) /\ m \in Nat /\ f + (c + 1) = m * Base + e
  <2>1. c + 1 \in Nat
    OBVIOUS
  <2>2. \A x \in Nat : /\ Byte(f, x) \in EP!Digits /\ NextCarry(f, x) \in Nat
                       /\ f + x = NextCarry(f, x) * Base + Byte(f, x)
    BY SumsOfBytes
  <2>. QED
    BY <1>1, <2>1, <2>2
<1> HIDE DEF d, n, e, m
<1>4. n * Base \in Nat /\ m * Base \in Nat /\ (n + 1) * Base = n * Base + Base
  BY <1>1, <1>2, <1>3
<1>5. CASE d < Base - 1
  <2>1. m * Base + e = n * Base + (d + 1) /\ d + 1 \in 0..(Base - 1)
    BY <1>1, <1>2, <1>3, <1>4, <1>5
  <2>2. m = n /\ e = d + 1
    BY <1>1, <1>2, <1>3, <2>1, OneDivision
  <2>. QED
    BY <1>1, <1>2, <1>5, <2>2 DEF d, n, e, m
<1>6. CASE d = Base - 1
  <2> DEFINE k == n + 1
             z == 0
  <2>1. m * Base + e = k * Base + z /\ z \in 0..(Base - 1) /\ k \in Nat
    BY <1>1, <1>2, <1>3, <1>4, <1>6
  <2> HIDE DEF k, z
  <2>2. m = k /\ e = z
    BY <1>1, <1>2, <1>3, <2>1, OneDivision
  <2>. QED
    BY <1>1, <1>2, <1>6, <2>2 DEF d, n, e, m, k, z
<1>7. d < Base - 1 \/ d = Base - 1
  BY <1>1, <1>2
<1>. QED
  BY <1>5, <1>6, <1>7 DEF d, n, e, m

(* The carries of Counter, the last one first. *)
Carries(carry, first, blockIndex) ==
  carry = [i \in 0..CounterDigits |->
             IF i = CounterDigits THEN blockIndex
             ELSE carry[i + 1] \div Base + (first[i + 1] + (carry[i + 1] % Base)) \div Base]

LEMMA CounterAdds ==
  ASSUME NEW first \in [1..CounterDigits -> EP!Digits], NEW b \in Nat
  PROVE  \E c \in [0..CounterDigits -> Nat] :
           /\ c[CounterDigits] = b
           /\ \A i \in 1..CounterDigits : c[i - 1] = NextCarry(first[i], c[i])
           /\ EP!Counter(first, b) = [i \in 1..CounterDigits |-> Byte(first[i], c[i])]
<1> DEFINE D == CounterDigits
           digit(m) == IF D + 1 - m \in 1..D THEN first[D + 1 - m] ELSE 0
           step == [m \in Nat |-> [x \in Nat |-> NextCarry(digit(m), x)]]
<1>1. D \in Nat
  BY EncryptionAssumption
<1>2. step \in [Nat -> [Nat -> Nat]]
  <2>1. \A m \in Nat : digit(m) \in EP!Digits
    <3>1. 0 \in EP!Digits
      BY FrameAssumption DEF EP!Digits
    <3>. QED
      BY <3>1
  <2> HIDE DEF digit
  <2>2. \A m, x \in Nat : NextCarry(digit(m), x) \in Nat
    BY <2>1, SumsOfBytes
  <2>. QED
    BY <2>2
<1>3. PICK g : Recursive(g, D, Nat, b, step)
  <2> HIDE DEF step
  <2>. QED
    BY <1>1, <1>2, RecursionExists
<1> DEFINE f == [i \in 0..D |-> g[D - i]]
<1>4. g \in [0..D -> Nat] /\ g[0] = b
  <2> HIDE DEF step, D
  <2>. QED
    BY <1>1, <1>3 DEF Recursive
<1>5. \A i \in 0..(D - 1) : g[D - i] = NextCarry(first[i + 1], g[D - (i + 1)])
  <2>1. \A m, x \in Nat : step[m][x] = NextCarry(digit(m), x)
    OBVIOUS
  <2> HIDE DEF step
  <2>2. ASSUME NEW i \in 0..(D - 1)
        PROVE  g[D - i] = NextCarry(first[i + 1], g[D - (i + 1)])
    <3> DEFINE m == D - i
    <3>1. m \in 0..D /\ m \in Nat /\ m # 0 /\ m - 1 = D - (i + 1) /\ m - 1 \in 0..D
          /\ D + 1 - m = i + 1 /\ i + 1 \in 1..D
      BY <1>1
    <3>2. digit(m) = first[i + 1]
      <4> HIDE DEF m
      <4>. QED
        BY <3>1
    <3> HIDE DEF m, digit, D
    <3>3. g[m] = step[m][g[m - 1]]
      BY <1>3, <3>1 DEF Recursive
    <3>4. g[m - 1] \in Nat
      BY <1>4, <3>1
    <3>5. g[m] = NextCarry(first[i + 1], g[m - 1])
      BY <2>1, <3>1, <3>2, <3>3, <3>4
    <3>6. m - 1 = D - (i + 1)
      BY <3>1
    <3>. QED
      BY <3>5, <3>6 DEF m
  <2>. QED
    BY <2>2
<1>6. Carries(f, first, b)
  <2>1. /\ f = [i \in 0..D |-> f[i]]
        /\ f[D] = b
        /\ \A i \in 0..D : i # D => i \in 0..(D - 1) /\ i + 1 \in 0..D /\ f[i] = g[D - i]
                                    /\ f[i + 1] = g[D - (i + 1)]
    BY <1>1, <1>4
  <2> HIDE DEF f
  <2>2. \A i \in 0..D : i # D => f[i] = NextCarry(first[i + 1], f[i + 1])
    BY <1>5, <2>1
  <2>3. f = [i \in 0..D |-> IF i = D THEN b ELSE NextCarry(first[i + 1], f[i + 1])]
    BY <2>1, <2>2
  <2>. QED
    BY <2>3 DEF Carries, NextCarry
<1>7. PICK c : /\ Carries(c, first, b)
               /\ EP!Counter(first, b) = [i \in 1..D |-> (first[i] + (c[i] % Base)) % Base]
  <2> HIDE DEF f
  <2>. QED
    BY <1>6 DEF Carries, EP!Counter
<1>8. c = [i \in 0..D |-> IF i = D THEN b ELSE NextCarry(first[i + 1], c[i + 1])]
  BY <1>7 DEF Carries, NextCarry
<1> HIDE DEF D
<1>9. c[D] = b /\ \A i \in 0..(D - 1) : c[i] = NextCarry(first[i + 1], c[i + 1])
  BY <1>1, <1>8
<1> DEFINE S == {m \in 0..D : c[D - m] \in Nat}
<1>10. 0..D \subseteq S
  <2>1. 0 \in S
    BY <1>1, <1>9
  <2>2. \A m \in 0..(D - 1) : m \in S => m + 1 \in S
    <3>1. ASSUME NEW m \in 0..(D - 1), c[D - m] \in Nat
          PROVE  c[D - (m + 1)] \in Nat
      <4> DEFINE i == D - (m + 1)
      <4>1. i \in 0..(D - 1) /\ i + 1 = D - m /\ i + 1 \in 1..D
        BY <1>1
      <4>2. c[i] = NextCarry(first[i + 1], c[i + 1]) /\ c[i + 1] \in Nat /\ first[i + 1] \in EP!Digits
        <5> HIDE DEF i
        <5>. QED
          BY <1>9, <3>1, <4>1 DEF D
      <4> HIDE DEF i
      <4>3. c[i] \in Nat
        BY <4>2, SumsOfBytes
      <4>. QED
        BY <4>3 DEF i
    <3>. QED
      BY <1>1, <3>1
  <2> HIDE DEF S
  <2>. QED
    BY <1>1, <2>1, <2>2, StepByStep
<1>11. \A i \in 0..D : c[i] \in Nat
  <2>1. \A i \in 0..D : D - i \in 0..D /\ D - (D - i) = i
    BY <1>1
  <2>. QED
    BY <1>10, <2>1
<1>12. c \in [0..D -> Nat]
  BY <1>8, <1>11
<1>13. \A i \in 1..D : c[i - 1] = NextCarry(first[i], c[i])
  <2>1. \A i \in 1..D : i - 1 \in 0..(D - 1) /\ (i - 1) + 1 = i
    BY <1>1
  <2>. QED
    BY <1>9, <2>1
<1>14. EP!Counter(first, b) = [i \in 1..D |-> Byte(first[i], c[i])]
  BY <1>7 DEF Byte
<1>. QED
  BY <1>9, <1>12, <1>13, <1>14 DEF D

(* The byte of the counter up to which adding one carries. *)
StopsAt(x, i) ==
  /\ i > 0 => x[i] < Base - 1
  /\ \A j \in (i + 1)..CounterDigits : x[j] = Base - 1

LEMMA StopExists ==
  ASSUME NEW x \in [1..CounterDigits -> EP!Digits]
  PROVE  \E i \in 0..CounterDigits : StopsAt(x, i)
<1> DEFINE D == CounterDigits
           S == {m \in 0..D : m = D \/ x[D - m] < Base - 1}
<1>1. D \in Nat /\ Base \in Nat \ {0} /\ \A j \in 1..D : x[j] \in 0..(Base - 1)
  BY EncryptionAssumption, FrameAssumption DEF EP!Digits
<1> HIDE DEF D
<1>2. S \in SUBSET Nat /\ S # {}
  <2>1. D \in S /\ S \subseteq Nat
    BY <1>1
  <2>. QED
    BY <2>1
<1>3. PICK m \in S : \A k \in S : m <= k
  <2> HIDE DEF S
  <2>. QED
    BY <1>2, LeastOf
<1>4. D - m \in 0..D /\ (D - m > 0 => x[D - m] < Base - 1)
  BY <1>1, <1>3
<1>5. \A j \in (D - m + 1)..D : x[j] = Base - 1
  <2>1. ASSUME NEW j \in (D - m + 1)..D, x[j] # Base - 1
        PROVE  FALSE
    <3>1. j \in 1..D /\ D - j \in 0..D /\ D - (D - j) = j /\ D - j < m
      BY <1>1, <1>4, <2>1
    <3>2. x[j] < Base - 1
      BY <1>1, <2>1, <3>1
    <3>3. D - j \in S
      BY <3>1, <3>2
    <3>. QED
      BY <1>1, <1>3, <3>1, <3>3
  <2>. QED
    BY <2>1
<1>. QED
  BY <1>4, <1>5 DEF StopsAt, D

(* The cipher counts as ctrTransform does: block after block it is at the  *)
(* counter that a call for that block alone starts with.                   *)
LEMMA CounterSteps ==
  ASSUME NEW first \in [1..CounterDigits -> EP!Digits], NEW b \in Nat
  PROVE  /\ EP!Counter(first, b) \in [1..CounterDigits -> EP!Digits]
         /\ EP!Counter(first, b + 1) = EP!Increment(EP!Counter(first, b))
<1> DEFINE D == CounterDigits
           x == EP!Counter(first, b)
           y == EP!Counter(first, b + 1)
<1>1. D \in Nat /\ Base \in Nat \ {0} /\ b + 1 \in Nat
  BY EncryptionAssumption, FrameAssumption
<1>2. PICK c \in [0..D -> Nat] :
           /\ c[D] = b
           /\ \A i \in 1..D : c[i - 1] = NextCarry(first[i], c[i])
           /\ x = [i \in 1..D |-> Byte(first[i], c[i])]
  BY CounterAdds
<1>3. PICK e \in [0..D -> Nat] :
           /\ e[D] = b + 1
           /\ \A i \in 1..D : e[i - 1] = NextCarry(first[i], e[i])
           /\ y = [i \in 1..D |-> Byte(first[i], e[i])]
  BY <1>1, CounterAdds
<1>4. \A i \in 1..D : first[i] \in EP!Digits /\ c[i] \in Nat /\ e[i] \in Nat
  BY <1>1
<1> HIDE DEF x, y
<1>5. x \in [1..D -> EP!Digits]
  BY <1>2, <1>4, SumsOfBytes
<1>6. PICK stop \in 0..D : StopsAt(x, stop) /\ stop = CHOOSE i \in 0..D : StopsAt(x, i)
  BY <1>5, StopExists DEF D
<1> HIDE DEF D
<1>7. ASSUME NEW i \in 1..D
      PROVE  /\ e[i] = c[i] => e[i - 1] = c[i - 1] /\ y[i] = x[i]
             /\ e[i] = c[i] + 1 /\ x[i] < Base - 1 => e[i - 1] = c[i - 1] /\ y[i] = x[i] + 1
             /\ e[i] = c[i] + 1 /\ x[i] = Base - 1 => e[i - 1] = c[i - 1] + 1 /\ y[i] = 0
  BY <1>2, <1>3, <1>4, SumsOfNext
<1>8. /\ stop > 0 => stop \in 1..D /\ x[stop] < Base - 1
      /\ \A j \in (stop + 1)..D : x[j] = Base - 1
      /\ stop \in stop..D /\ stop \in Nat
  BY <1>1, <1>6 DEF StopsAt, D
<1>9. \A i \in stop..D : e[i] = c[i] + 1
  <2> DEFINE S == {m \in 0..(D - stop) : e[D - m] = c[D - m] + 1}
  <2>1. 0 \in S
    BY <1>1, <1>2, <1>3
  <2>2. \A m \in 0..((D - stop) - 1) : m \in S => m + 1 \in S
    <3>1. ASSUME NEW m \in 0..((D - stop) - 1), e[D - m] = c[D - m] + 1
          PROVE  e[D - (m + 1)] = c[D - (m + 1)] + 1
      <4> DEFINE i == D - m
      <4>1. i \in 1..D /\ i \in (stop + 1)..D /\ i - 1 = D - (m + 1)
        BY <1>1
      <4>2. x[i] = Base - 1
        BY <1>8, <4>1
      <4> HIDE DEF i
      <4>3. e[i] = c[i] + 1
        BY <3>1 DEF i
      <4>4. e[i - 1] = c[i - 1] + 1
        BY <1>7, <4>1, <4>2, <4>3
      <4>. QED
        BY <4>1, <4>4
    <3>. QED
      BY <1>1, <3>1
  <2> DEFINE n == D - stop
  <2>3. n \in Nat
    BY <1>1
  <2>4. 0..n \subseteq S
    <3>1. \A m \in 0..(n - 1) : m \in S => m + 1 \in S
      BY <2>2
    <3> HIDE DEF S, n
    <3>. QED
      BY <2>1, <2>3, <3>1, StepByStep
  <2>5. \A i \in stop..D : D - i \in 0..n /\ D - (D - i) = i
    BY <1>1
  <2>. QED
    BY <2>4, <2>5
<1>10. \A i \in 0..(stop - 1) : e[i] = c[i]
  <2> SUFFICES ASSUME stop > 0
               PROVE  \A i \in 0..(stop - 1) : e[i] = c[i]
    BY <1>1
  <2> DEFINE n == stop - 1
             S == {m \in 0..n : e[n - m] = c[n - m]}
  <2>1. n \in Nat /\ stop \in 1..D
    BY <1>1
  <2>2. 0 \in S
    <3>1. x[stop] < Base - 1 /\ e[stop] = c[stop] + 1
      BY <1>8, <1>9
    <3>2. e[stop - 1] = c[stop - 1]
      BY <1>7, <2>1, <3>1
    <3>. QED
      BY <2>1, <3>2
  <2>3. \A m \in 0..(n - 1) : m \in S => m + 1 \in S
    <3>1. ASSUME NEW m \in 0..(n - 1), e[n - m] = c[n - m]
          PROVE  e[n - (m + 1)] = c[n - (m + 1)]
      <4> DEFINE i == n - m
      <4>1. i \in 1..D /\ i - 1 = n - (m + 1)
        BY <1>1, <2>1
      <4> HIDE DEF i
      <4>2. e[i] = c[i]
        BY <3>1 DEF i
      <4>3. e[i - 1] = c[i - 1]
        BY <1>7, <4>1, <4>2
      <4>. QED
        BY <4>1, <4>3
    <3> HIDE DEF n
    <3>. QED
      BY <2>1, <3>1
  <2> HIDE DEF S
  <2>4. 0..n \subseteq S
    <3> HIDE DEF n
    <3>. QED
      BY <2>1, <2>2, <2>3, StepByStep
  <2>5. \A i \in 0..n : n - i \in 0..n /\ n - (n - i) = i
    BY <2>1
  <2>. QED
    BY <2>4, <2>5 DEF S
<1>11. \A i \in 1..D :
         y[i] = CASE i < stop -> x[i] [] i = stop -> x[i] + 1 [] OTHER -> 0
  <2>1. ASSUME NEW i \in 1..D
        PROVE  /\ i < stop => y[i] = x[i]
               /\ i = stop => y[i] = x[i] + 1
               /\ i > stop => y[i] = 0
    <3>1. CASE i < stop
      BY <1>1, <1>7, <1>10, <3>1
    <3>2. CASE i = stop
      BY <1>8, <1>7, <1>9, <3>2
    <3>3. CASE i > stop
      <4>1. x[i] = Base - 1
        BY <1>8, <1>1, <3>3
      <4>. QED
        BY <1>1, <1>7, <1>9, <3>3, <4>1
    <3>. QED
      BY <1>1, <3>1, <3>2, <3>3
  <2>2. \A i \in 1..D : i < stop \/ i = stop \/ i > stop
    BY <1>1
  <2>. QED
    BY <1>1, <2>1, <2>2
<1>12. EP!Increment(x) = [i \in 1..D |-> CASE i < stop -> x[i] [] i = stop -> x[i] + 1 [] OTHER -> 0]
  BY <1>6 DEF EP!Increment, StopsAt, D
<1>13. y = EP!Increment(x)
  BY <1>3, <1>11, <1>12
<1>. QED
  BY <1>5, <1>13 DEF x, y, D

(* The keystream at offset o of a file that starts with first. *)
KeyAt(first, key, o) == <<key, EP!Counter(first, o \div BlockSize), o % BlockSize>>

(* The counters of the blocks of a call. *)
Blocks(block, from) ==
  block = [b \in 0..(FileSize \div BlockSize) |->
             IF b = 0 THEN from ELSE EP!Increment(block[b - 1])]

LEMMA BlocksCount ==
  ASSUME NEW first \in [1..CounterDigits -> EP!Digits], NEW q \in Nat,
         NEW from, from = EP!Counter(first, q)
  PROVE  /\ \E block : Blocks(block, from)
         /\ \A block : Blocks(block, from) =>
              \A b \in 0..(FileSize \div BlockSize) : block[b] = EP!Counter(first, q + b)
<1> DEFINE max == FileSize \div BlockSize
           count == [b \in 0..max |-> EP!Counter(first, q + b)]
<1>1. max \in Nat
  BY EncryptionAssumption, DivisionLaw
<1> HIDE DEF max
<1>2. \A b \in 1..max : EP!Counter(first, q + b) = EP!Increment(EP!Counter(first, q + (b - 1)))
  <2>1. ASSUME NEW b \in 1..max
        PROVE  EP!Counter(first, q + b) = EP!Increment(EP!Counter(first, q + (b - 1)))
    <3> DEFINE k == q + (b - 1)
    <3>1. k \in Nat /\ k + 1 = q + b
      BY <1>1
    <3>2. EP!Counter(first, k + 1) = EP!Increment(EP!Counter(first, k))
      <4> HIDE DEF k
      <4>. QED
        BY <3>1, CounterSteps
    <3>. QED
      BY <3>1, <3>2
  <2>. QED
    BY <2>1
<1>3. Blocks(count, from)
  <2>1. /\ count = [b \in 0..max |-> count[b]]
        /\ \A b \in 0..max : count[b] = EP!Counter(first, q + b)
    OBVIOUS
  <2>2. \A b \in 0..max : b # 0 => b \in 1..max /\ b - 1 \in 0..max
    BY <1>1
  <2>3. q + 0 = q
    OBVIOUS
  <2> HIDE DEF count
  <2>4. \A b \in 0..max : count[b] = IF b = 0 THEN from ELSE EP!Increment(count[b - 1])
    BY <1>2, <2>1, <2>2, <2>3
  <2>. QED
    BY <2>1, <2>4 DEF Blocks, max
<1>4. ASSUME NEW block, Blocks(block, from)
      PROVE  \A b \in 0..max : block[b] = EP!Counter(first, q + b)
  <2> DEFINE S == {b \in 0..max : block[b] = EP!Counter(first, q + b)}
  <2>1. \A b \in 0..max : block[b] = IF b = 0 THEN from ELSE EP!Increment(block[b - 1])
    BY <1>4 DEF Blocks, max
  <2>2. 0 \in S
    BY <1>1, <2>1
  <2>3. \A b \in 0..(max - 1) : b \in S => b + 1 \in S
    <3>1. ASSUME NEW b \in 0..(max - 1), block[b] = EP!Counter(first, q + b)
          PROVE  block[b + 1] = EP!Counter(first, q + (b + 1))
      <4>1. b + 1 \in 1..max /\ b + 1 \in 0..max /\ b + 1 # 0 /\ (b + 1) - 1 = b
        BY <1>1
      <4>2. block[b + 1] = EP!Increment(block[b])
        BY <2>1, <4>1
      <4>3. EP!Counter(first, q + (b + 1)) = EP!Increment(EP!Counter(first, q + b))
        BY <1>2, <4>1
      <4>. QED
        BY <3>1, <4>2, <4>3
    <3>. QED
      BY <1>1, <3>1
  <2>4. 0..max \subseteq S
    <3> HIDE DEF S
    <3>. QED
      BY <1>1, <2>2, <2>3, StepByStep
  <2>. QED
    BY <2>4
<1>. QED
  BY <1>3, <1>4 DEF max

(* Whatever call they belong to, the bytes at an offset meet the same part *)
(* of the keystream.                                                       *)
LEMMA KeystreamByOffset ==
  ASSUME NEW first \in [1..CounterDigits -> EP!Digits], NEW key,
         NEW offset \in Nat, NEW size \in Nat, offset + size <= FileSize,
         NEW n \in 0..(size - 1)
  PROVE  EP!Keystream(first, key, offset, size)[n] = KeyAt(first, key, offset + n)
<1> DEFINE q == offset \div BlockSize
           skip == offset % BlockSize
           from == EP!Counter(first, q)
           p == (skip + n) \div BlockSize
           r == (skip + n) % BlockSize
           max == FileSize \div BlockSize
<1>1. BlockSize \in Nat \ {0} /\ FileSize \in Nat /\ n \in Nat
  BY EncryptionAssumption
<1>2. q \in Nat /\ skip \in 0..(BlockSize - 1) /\ offset = q * BlockSize + skip
  BY <1>1, DivisionLaw
<1>3. /\ \E block : Blocks(block, from)
      /\ \A block : Blocks(block, from) => \A b \in 0..max : block[b] = EP!Counter(first, q + b)
  <2> HIDE DEF q
  <2>. QED
    BY <1>2, BlocksCount
<1>4. PICK block : /\ Blocks(block, from)
                   /\ EP!Keystream(first, key, offset, size)
                        = [m \in 0..(size - 1) |->
                             <<key, block[(skip + m) \div BlockSize], (skip + m) % BlockSize>>]
  BY <1>3 DEF Blocks, EP!Keystream
<1> HIDE DEF q, skip, from, max
<1>5. p \in Nat /\ r \in 0..(BlockSize - 1) /\ skip + n = p * BlockSize + r /\ p <= max
  <2>1. q * BlockSize \in Nat
    BY <1>1, <1>2
  <2>2. skip + n \in Nat /\ skip + n <= FileSize
    BY <1>1, <1>2, <2>1
  <2> DEFINE a == skip + n
  <2> HIDE DEF a
  <2>3. a \in Nat /\ a <= FileSize
    BY <2>2 DEF a
  <2>4. a \div BlockSize \in Nat /\ a % BlockSize \in 0..(BlockSize - 1)
        /\ a = (a \div BlockSize) * BlockSize + (a % BlockSize)
        /\ a \div BlockSize <= max
    BY <1>1, <2>3, DivisionLaw, DivisionInOrder DEF max
  <2>. QED
    BY <2>4 DEF a
<1> HIDE DEF p, r
<1>6. (offset + n) \div BlockSize = q + p /\ (offset + n) % BlockSize = r
  <2> DEFINE o == offset + n
             u == o \div BlockSize
             v == o % BlockSize
             w == q + p
  <2>1. o \in Nat /\ w \in Nat
    BY <1>1, <1>2, <1>5
  <2> HIDE DEF o
  <2>2. u \in Nat /\ v \in 0..(BlockSize - 1) /\ o = u * BlockSize + v
    BY <1>1, <2>1, DivisionLaw
  <2> HIDE DEF u, v
  <2>3. w * BlockSize = q * BlockSize + p * BlockSize /\ q * BlockSize \in Nat
        /\ p * BlockSize \in Nat
    BY <1>1, <1>2, <1>5
  <2>4. o = w * BlockSize + r
    BY <1>1, <1>2, <1>5, <2>3 DEF o
  <2> HIDE DEF w
  <2>5. u = w /\ v = r
    BY <1>1, <1>5, <2>1, <2>2, <2>4, OneDivision
  <2>. QED
    BY <2>5 DEF u, v, w, o
<1>7. EP!Keystream(first, key, offset, size)[n] = <<key, block[p], r>>
  BY <1>4 DEF p, r
<1>8. block[p] = EP!Counter(first, q + p)
  <2>1. p \in 0..max
    BY <1>1, <1>5, DivisionLaw DEF max
  <2>. QED
    BY <1>3, <1>4, <2>1
<1>. QED
  BY <1>6, <1>7, <1>8 DEF KeyAt

(* The cipher is given at most the bytes there are, and all of them if     *)
(* their number is an int.                                                 *)
LEMMA NarrowedSize ==
  ASSUME NEW size \in Nat
  PROVE  /\ EP!AsInt(size) \in Int /\ EP!AsInt(size) <= size
         /\ size < IntLimit => EP!AsInt(size) = size
<1> DEFINE word == size % (2 * IntLimit)
<1>1. IntLimit \in Nat /\ IntLimit > 0 /\ 2 * IntLimit \in Nat \ {0}
  BY EncryptionAssumption
<1>2. /\ size \div (2 * IntLimit) \in Nat /\ word \in 0..(2 * IntLimit - 1)
      /\ size = (size \div (2 * IntLimit)) * (2 * IntLimit) + word
  BY <1>1, DivisionLaw
<1>3. word <= size
  <2> DEFINE m == 2 * IntLimit
             q == size \div m
  <2>1. q \in Nat /\ m \in Nat /\ word \in Nat /\ size = q * m + word
    BY <1>1, <1>2
  <2> HIDE DEF m, q, word
  <2>2. q * m \in Nat
    BY <2>1
  <2>. QED
    BY <2>1, <2>2
<1>4. size < IntLimit => word = size
  <2> SUFFICES ASSUME size < IntLimit
               PROVE  word = size
    OBVIOUS
  <2>1. size = 0 * (2 * IntLimit) + size /\ size \in 0..(2 * IntLimit - 1)
    BY <1>1
  <2> DEFINE m == 2 * IntLimit
             q == size \div m
  <2>2. m \in Nat \ {0} /\ q \in Nat /\ word \in 0..(m - 1) /\ size = q * m + word
        /\ size = 0 * m + size /\ size \in 0..(m - 1)
    BY <1>1, <1>2, <2>1
  <2> HIDE DEF m, q, word
  <2>. QED
    BY <2>2, OneDivision
<1>5. EP!AsInt(size) = IF word < IntLimit THEN word ELSE word - 2 * IntLimit
  BY DEF EP!AsInt
<1> HIDE DEF word
<1>. QED
  BY <1>1, <1>2, <1>3, <1>4, <1>5

(* The bytes that the int counts are transformed, the others are not.      *)
LEMMA Transforms ==
  ASSUME NEW first \in [1..CounterDigits -> EP!Digits], NEW key,
         NEW offset \in Nat, NEW size \in Nat, offset + size <= FileSize, EP!AsInt(size) >= 0,
         NEW bytes, DOMAIN bytes = offset..(offset + size - 1),
         NEW o \in offset..(offset + size - 1)
  PROVE  EP!CtrTransform(first, key, offset, bytes, size)[o]
           = IF o - offset < EP!AsInt(size) THEN EP!Xor(bytes[o], KeyAt(first, key, o)) ELSE bytes[o]
<1> DEFINE done == EP!AsInt(size)
           k == EP!Keystream(first, key, offset, done)
<1>1. done \in Nat /\ offset + done <= FileSize /\ o - offset \in Nat /\ offset + (o - offset) = o
  BY EncryptionAssumption, NarrowedSize
<1> HIDE DEF done
<1>2. o - offset < done => k[o - offset] = KeyAt(first, key, o)
  <2> DEFINE n == o - offset
  <2>1. n \in Nat /\ offset + n = o
    BY <1>1
  <2> HIDE DEF n
  <2>2. n < done => n \in 0..(done - 1)
    BY <1>1, <2>1
  <2>3. n < done => k[n] = KeyAt(first, key, offset + n)
    BY <1>1, <2>2, KeystreamByOffset
  <2>. QED
    BY <2>1, <2>3 DEF n
<1>3. EP!CtrTransform(first, key, offset, bytes, size)
        = [x \in DOMAIN bytes |->
             IF x - offset < done THEN EP!Xor(bytes[x], k[x - offset]) ELSE bytes[x]]
  BY DEF EP!CtrTransform, done
<1> HIDE DEF k
<1>4. EP!CtrTransform(first, key, offset, bytes, size)[o]
        = IF o - offset < done THEN EP!Xor(bytes[o], k[o - offset]) ELSE bytes[o]
  BY <1>3
<1>. QED
  BY <1>2, <1>4 DEF done

(* What is on disk is what was written, in clear or under the keystream of *)
(* its offset and of the key it was written with.                          *)
WrittenInPlace ==
  \A o \in EP!Offsets : writtenWith[o] # "nothing" =>
    /\ iv # <<>>
    /\ stored[o] = IF writtenWith[o] = "clear" THEN EP!Plain(o)
                   ELSE EP!Xor(EP!Plain(o), KeyAt(iv, writtenWith[o], o))

EncryptionInv ==
  /\ iv \in {<<>>} \cup [1..CounterDigits -> EP!Digits]
  /\ WrittenInPlace

LEMMA PieceInFile ==
  ASSUME NEW offset \in EP!Offsets, NEW size \in 1..FileSize,
         offset..(offset + size - 1) \subseteq EP!Offsets
  PROVE  offset \in Nat /\ size \in Nat /\ offset + size <= FileSize
<1>1. FileSize \in Nat /\ EP!Offsets = 0..(FileSize - 1)
  BY EncryptionAssumption DEF EP!Offsets
<1>2. offset + size - 1 \in offset..(offset + size - 1)
  BY <1>1
<1>3. offset + size - 1 \in 0..(FileSize - 1)
  BY <1>1, <1>2
<1>. QED
  BY <1>1, <1>3

LEMMA EncryptionStepInv == EncryptionInv /\ [EP!Next]_encryptionVars => EncryptionInv'
<1> SUFFICES ASSUME EncryptionInv, [EP!Next]_encryptionVars
             PROVE  EncryptionInv'
  OBVIOUS
<1>. USE DEF EncryptionInv, WrittenInPlace
<1>1. ASSUME NEW keyfile, NEW keyfolder, EP!Start(keyfile, keyfolder)
      PROVE  EncryptionInv'
  BY <1>1 DEF EP!Start, KeyAt
<1>2. ASSUME NEW prefix \in [1..CounterDigits -> EP!Digits], EP!Create(prefix)
      PROVE  EncryptionInv'
  BY <1>2 DEF EP!Create
<1>3. ASSUME NEW offset \in EP!Offsets, NEW size \in 1..FileSize, EP!Write(offset, size)
      PROVE  EncryptionInv'
  <2> DEFINE piece == offset..(offset + size - 1)
             bytes == [o \in piece |-> EP!Plain(o)]
             cipher == EP!CtrTransform(iv, provider, offset, bytes, size)
  <2>1. /\ iv # <<>> /\ piece \subseteq EP!Offsets /\ iv' = iv /\ EP!AsInt(size) >= 0
        /\ provider \in {"k1", "k2"}
        /\ stored' = [o \in EP!Offsets |-> IF o \in piece THEN cipher[o] ELSE stored[o]]
        /\ writtenWith' = [o \in EP!Offsets |->
                             IF o \notin piece THEN writtenWith[o]
                             ELSE IF o - offset < EP!AsInt(size) THEN provider ELSE "clear"]
    BY <1>3 DEF EP!Write, EP!Encrypting
  <2>2. iv \in [1..CounterDigits -> EP!Digits]
    BY <2>1
  <2>3. offset \in Nat /\ size \in Nat /\ offset + size <= FileSize
    BY <2>1, PieceInFile
  <2>4. ASSUME NEW o \in piece
        PROVE  cipher[o] = IF o - offset < EP!AsInt(size)
                             THEN EP!Xor(EP!Plain(o), KeyAt(iv, provider, o)) ELSE EP!Plain(o)
    <3>1. DOMAIN bytes = piece /\ bytes[o] = EP!Plain(o)
      OBVIOUS
    <3>2. DOMAIN bytes = offset..(offset + size - 1) /\ o \in offset..(offset + size - 1)
          /\ EP!AsInt(size) >= 0
      BY <2>1
    <3> HIDE DEF bytes, piece
    <3>3. EP!CtrTransform(iv, provider, offset, bytes, size)[o]
            = IF o - offset < EP!AsInt(size) THEN EP!Xor(bytes[o], KeyAt(iv, provider, o))
              ELSE bytes[o]
      BY <2>2, <2>3, <3>2, Transforms
    <3>. QED
      BY <3>1, <3>3
  <2> HIDE DEF piece, cipher
  <2>5. ASSUME NEW o \in EP!Offsets, writtenWith'[o] # "nothing"
        PROVE  stored'[o] = IF writtenWith'[o] = "clear" THEN EP!Plain(o)
                            ELSE EP!Xor(EP!Plain(o), KeyAt(iv, writtenWith'[o], o))
    <3> DEFINE transformed == o - offset < EP!AsInt(size)
    <3>1. ASSUME o \in piece, transformed
          PROVE  stored'[o] = IF writtenWith'[o] = "clear" THEN EP!Plain(o)
                              ELSE EP!Xor(EP!Plain(o), KeyAt(iv, writtenWith'[o], o))
      <4>1. writtenWith'[o] = provider /\ stored'[o] = EP!Xor(EP!Plain(o), KeyAt(iv, provider, o))
        BY <2>1, <2>4, <3>1
      <4>2. provider # "clear"
        BY <2>1
      <4>. QED
        BY <4>1, <4>2
    <3>2. ASSUME o \in piece, ~transformed
          PROVE  stored'[o] = IF writtenWith'[o] = "clear" THEN EP!Plain(o)
                              ELSE EP!Xor(EP!Plain(o), KeyAt(iv, writtenWith'[o], o))
      BY <2>1, <2>4, <3>2
    <3>3. ASSUME o \notin piece
          PROVE  stored'[o] = IF writtenWith'[o] = "clear" THEN EP!Plain(o)
                              ELSE EP!Xor(EP!Plain(o), KeyAt(iv, writtenWith'[o], o))
      <4>1. stored'[o] = stored[o] /\ writtenWith'[o] = writtenWith[o]
        BY <2>1, <2>5, <3>3
      <4>2. stored[o] = IF writtenWith[o] = "clear" THEN EP!Plain(o)
                        ELSE EP!Xor(EP!Plain(o), KeyAt(iv, writtenWith[o], o))
        BY <2>5, <4>1
      <4>. QED
        BY <4>1, <4>2
    <3> HIDE DEF transformed
    <3>. QED
      BY <3>1, <3>2, <3>3
  <2>6. \A o \in EP!Offsets : KeyAt(iv, writtenWith[o], o)' = KeyAt(iv, writtenWith'[o], o)
    BY <2>1 DEF KeyAt
  <2>. QED
    BY <2>1, <2>5, <2>6
<1>4. CASE UNCHANGED encryptionVars
  BY <1>4 DEF encryptionVars, KeyAt
<1>. QED
  BY <1>1, <1>2, <1>3, <1>4 DEF EP!Next

(* Under its own keystream a byte is what it was, under another it is not. *)
LEMMA XorTwice ==
  ASSUME NEW o, NEW first, NEW k, NEW key
  PROVE  /\ EP!Xor(EP!Xor(EP!Plain(o), KeyAt(first, k, o)), KeyAt(first, key, o)) = EP!Plain(o)
              <=> k = key
         /\ EP!Xor(EP!Plain(o), KeyAt(first, k, o)) # EP!Plain(o)
<1> DEFINE p == <<"byte", o>>
           a == KeyAt(first, k, o)
           b == KeyAt(first, key, o)
<1>1. p # a /\ p # b
  <2>1. Len(p) = 2 /\ Len(a) = 3 /\ Len(b) = 3
    BY DEF KeyAt
  <2>. QED
    BY <2>1
<1>2. a = b <=> k = key
  BY DEF KeyAt
<1> HIDE DEF p, a, b
<1>3. EP!Xor({p}, a) = {p, a}
  BY <1>1 DEF EP!Xor
<1>4. EP!Xor({p, a}, b) = {p} <=> a = b
  BY <1>1 DEF EP!Xor
<1>5. {p, a} # {p}
  BY <1>1
<1>. QED
  BY <1>2, <1>3, <1>4, <1>5 DEF p, a, b, EP!Plain

(* ctrTransform deciphers what it enciphered, at whatever offset, in       *)
(* pieces of fewer bytes than an int counts and after any number of        *)
(* restarts, if and only if the key is the same; a byte that it            *)
(* transformed is not on disk in clear, and one that it left out of a      *)
(* larger piece is.                                                        *)
THEOREM PiecesReadBack == Spec => []ReadsBack
<1>1. Init => EncryptionInv
  BY DEF Init, EP!Init, EncryptionInv, WrittenInPlace
<1>2. EncryptionInv /\ [Next]_vars => EncryptionInv'
  BY ServicesStep, EncryptionStepInv
<1>3. EncryptionInv => ReadsBack
  <2> SUFFICES ASSUME EncryptionInv
               PROVE  ReadsBack
    OBVIOUS
  <2>1. ASSUME NEW o \in EP!Offsets, writtenWith[o] # "nothing"
        PROVE  stored[o] = EP!Plain(o) <=> writtenWith[o] = "clear"
    BY <2>1, XorTwice DEF EncryptionInv, WrittenInPlace
  <2>2. ASSUME NEW offset \in EP!Offsets, NEW size \in 1..FileSize, EP!Encrypting,
               iv # <<>>, offset..(offset + size - 1) \subseteq EP!Offsets, size < IntLimit,
               NEW o \in offset..(offset + size - 1), writtenWith[o] # "nothing"
        PROVE  EP!CtrTransform(iv, provider, offset,
                               [x \in offset..(offset + size - 1) |-> stored[x]], size)[o]
                 = EP!Plain(o) <=> writtenWith[o] = provider
    <3> DEFINE bytes == [x \in offset..(offset + size - 1) |-> stored[x]]
               key == writtenWith[o]
    <3>1. iv \in [1..CounterDigits -> EP!Digits]
          /\ stored[o] = IF key = "clear" THEN EP!Plain(o)
                         ELSE EP!Xor(EP!Plain(o), KeyAt(iv, key, o))
      BY <2>2 DEF EncryptionInv, WrittenInPlace
    <3>2. DOMAIN bytes = offset..(offset + size - 1) /\ bytes[o] = stored[o]
      BY <2>2
    <3> HIDE DEF bytes
    <3>3. offset \in Nat /\ size \in Nat /\ offset + size <= FileSize
      BY <2>2, PieceInFile
    <3>4. EP!AsInt(size) = size /\ o - offset < EP!AsInt(size)
      <4>1. EP!AsInt(size) = size
        BY <2>2, <3>3, NarrowedSize
      <4>. QED
        BY <2>2, <3>3, <4>1
    <3>5. EP!CtrTransform(iv, provider, offset, bytes, size)[o]
            = EP!Xor(stored[o], KeyAt(iv, provider, o))
      <4>1. EP!AsInt(size) >= 0
        BY <3>3, <3>4
      <4>. QED
        BY <2>2, <3>1, <3>2, <3>3, <3>4, <4>1, Transforms
    <3>6. EP!Xor(stored[o], KeyAt(iv, provider, o)) = EP!Plain(o) <=> key = provider
      <4>1. CASE key = "clear"
        <5>1. provider # "clear"
          BY <2>2 DEF EP!Encrypting
        <5>. QED
          BY <3>1, <4>1, <5>1, XorTwice
      <4>2. CASE key # "clear"
        BY <3>1, <4>2, XorTwice
      <4>. QED
        BY <4>1, <4>2
    <3>. QED
      BY <3>5, <3>6 DEF bytes
  <2>. QED
    BY <2>1, <2>2 DEF ReadsBack, EP!ReadsBack
<1>. QED
  BY <1>1, <1>2, <1>3, PTL DEF Spec

(***************************************************************************)
(* AttributeMasking.                                                       *)
(***************************************************************************)

(* Values of n characters. *)
Texts(n) == [1..n -> AM!Classes]

LEMMA MaskTakesDigits ==
  ASSUME NEW n \in Nat, NEW v \in Texts(n), NEW type
  PROVE  /\ AM!Mask(type, v) \in Texts(n)
         /\ AM!Digits(AM!Mask(type, v)) \subseteq AM!Digits(v)
         /\ type \in AM!Registered =>
              AM!Digits(AM!Mask(type, v)) \subseteq AM!Digits(v) \ AM!DigitsToMask(v)
         /\ type \notin AM!Registered => AM!Mask(type, v) = v
<1> DEFINE taken == AM!DigitsToMask(v)
<1>1. DOMAIN v = 1..n /\ \A i \in 1..n : v[i] \in AM!Classes
  BY DEF Texts
<1>2. CASE type = "xifyFront"
  <2>1. AM!Mask(type, v) = [i \in 1..n |-> IF v[i] = "space" THEN "space" ELSE "x"]
    BY <1>1, <1>2 DEF AM!Mask, AM!XifyFront
  <2>2. AM!Mask(type, v) \in Texts(n) /\ AM!Digits(AM!Mask(type, v)) = {}
    BY <2>1 DEF Texts, AM!Classes, AM!Digits
  <2>. QED
    BY <1>2, <2>2 DEF AM!Registered
<1>3. CASE type = "creditCard"
  <2>1. AM!Mask(type, v) = [i \in 1..n |-> IF i \in taken THEN "x" ELSE v[i]]
    BY <1>1, <1>3 DEF AM!Mask, AM!CreditCard
  <2> HIDE DEF taken
  <2>2. AM!Mask(type, v) \in Texts(n) /\ AM!Digits(AM!Mask(type, v)) \subseteq AM!Digits(v) \ taken
    BY <1>1, <2>1 DEF Texts, AM!Classes, AM!Digits
  <2>. QED
    BY <1>3, <2>2 DEF AM!Registered, taken
<1>4. CASE type = "phone"
  <2>1. AM!Mask(type, v)
          = [i \in 1..n |-> IF i \in taken \/ v[i] \in {"other", "x"} THEN "x" ELSE v[i]]
    BY <1>1, <1>4 DEF AM!Mask, AM!Phone
  <2> HIDE DEF taken
  <2>2. AM!Mask(type, v) \in Texts(n) /\ AM!Digits(AM!Mask(type, v)) \subseteq AM!Digits(v) \ taken
    BY <1>1, <2>1 DEF Texts, AM!Classes, AM!Digits
  <2>. QED
    BY <1>4, <2>2 DEF AM!Registered, taken
<1>5. CASE type \notin AM!Registered
  BY <1>5 DEF AM!Mask, AM!Registered
<1>. QED
  BY <1>2, <1>3, <1>4, <1>5 DEF AM!Registered

(* The rules among the first m that ask for a mask of field. *)
Asking(rules, role, field, m) ==
  {j \in 1..m : AM!Applies(rules[j], role, field) /\ rules[j].type \in AM!Registered}

(* What is left, w, of value after rules that ask. *)
Left(w, value, asking) ==
  /\ AM!Digits(w) \subseteq AM!Digits(value)
  /\ asking # {} => AM!Digits(w) \subseteq AM!Digits(value) \ AM!DigitsToMask(value)
  /\ asking = {} => w = value

RuleMasks(rule, role, field, w) ==
  IF AM!Applies(rule, role, field) THEN AM!Mask(rule.type, w) ELSE w

MasksInTurn(masked, rules, role, field, value) ==
  masked = [n \in 0..Len(rules) |->
              IF n = 0 THEN value
              ELSE IF AM!Applies(rules[n], role, field) THEN AM!Mask(rules[n].type, masked[n - 1])
              ELSE masked[n - 1]]

(* Each rule masks what those before it have left. *)
TurnByTurn(masked, rules, role, field, value, n) ==
  /\ masked \in [0..Len(rules) -> Texts(n)]
  /\ masked[0] = value
  /\ \A m \in 1..Len(rules) : masked[m] = RuleMasks(rules[m], role, field, masked[m - 1])
  /\ AM!MaskedBy(rules, role, field, value) = masked[Len(rules)]

LEMMA RulesMaskInTurn ==
  ASSUME NEW n \in Nat, NEW value \in Texts(n), NEW role, NEW field, NEW rules,
         Len(rules) \in Nat
  PROVE  \E masked : TurnByTurn(masked, rules, role, field, value, n)
<1> DEFINE len == Len(rules)
           T == Texts(n)
           step == [m \in Nat |-> [w \in T |-> RuleMasks(rules[m], role, field, w)]]
<1>1. \A m \in Nat : \A w \in T : RuleMasks(rules[m], role, field, w) \in T
  BY MaskTakesDigits DEF RuleMasks
<1>2. step \in [Nat -> [T -> T]]
  <2> HIDE DEF T
  <2>. QED
    BY <1>1
<1>3. PICK g : Recursive(g, len, T, value, step)
  <2> HIDE DEF step, T, len
  <2>1. value \in T /\ len \in Nat
    BY DEF T, len
  <2>. QED
    BY <1>2, <2>1, RecursionExists
<1>4. MasksInTurn(g, rules, role, field, value)
  <2>1. \A m \in Nat : \A w \in T : step[m][w] = RuleMasks(rules[m], role, field, w)
    <3> HIDE DEF T
    <3>. QED
      OBVIOUS
  <2>2. len \in Nat
    OBVIOUS
  <2> HIDE DEF step, T, len
  <2>3. \A m \in 0..len : m # 0 => m \in Nat /\ g[m - 1] \in T
    BY <1>3, <2>2 DEF Recursive
  <2>4. \A m \in 0..len : g[m] = IF m = 0 THEN value ELSE RuleMasks(rules[m], role, field, g[m - 1])
    BY <1>3, <2>1, <2>3 DEF Recursive
  <2>5. g = [m \in 0..len |-> g[m]]
    BY <1>3 DEF Recursive
  <2>6. g = [m \in 0..len |-> IF m = 0 THEN value ELSE RuleMasks(rules[m], role, field, g[m - 1])]
    BY <2>4, <2>5
  <2>. QED
    BY <2>6 DEF MasksInTurn, RuleMasks, len
<1>5. PICK masked : /\ MasksInTurn(masked, rules, role, field, value)
                    /\ AM!MaskedBy(rules, role, field, value) = masked[Len(rules)]
  <2> HIDE DEF step
  <2>. QED
    BY <1>4 DEF MasksInTurn, AM!MaskedBy
<1>6. masked = [m \in 0..len |->
                  IF m = 0 THEN value ELSE RuleMasks(rules[m], role, field, masked[m - 1])]
  BY <1>5 DEF MasksInTurn, RuleMasks
<1>7. len \in Nat /\ value \in T
  OBVIOUS
<1> DEFINE S == {m \in 0..len : masked[m] \in T}
<1>8. 0..len \subseteq S
  <2> HIDE DEF len, T
  <2>1. 0 \in S
    BY <1>6, <1>7
  <2>2. \A m \in 0..(len - 1) : m \in S => m + 1 \in S
    <3>1. ASSUME NEW m \in 0..(len - 1), masked[m] \in T
          PROVE  masked[m + 1] \in T
      <4>1. m + 1 \in 0..len /\ m + 1 # 0 /\ (m + 1) - 1 = m /\ m + 1 \in Nat
        BY <1>7
      <4>2. masked[m + 1] = RuleMasks(rules[m + 1], role, field, masked[m])
        BY <1>6, <4>1
      <4>. QED
        BY <1>1, <3>1, <4>1, <4>2
    <3>. QED
      BY <1>7, <3>1
  <2> HIDE DEF S
  <2>. QED
    BY <1>7, <2>1, <2>2, StepByStep
<1> HIDE DEF len, T
<1>9. masked \in [0..len -> T] /\ masked[0] = value
  BY <1>6, <1>7, <1>8
<1>10. \A m \in 1..len : masked[m] = RuleMasks(rules[m], role, field, masked[m - 1])
  BY <1>6, <1>7
<1>. QED
  BY <1>5, <1>9, <1>10 DEF len, T, TurnByTurn

(* The rules of a collection, whatever their order. *)
LEMMA RulesLeave ==
  ASSUME NEW n \in Nat, NEW value \in Texts(n), NEW role, NEW field, NEW rules,
         Len(rules) \in Nat
  PROVE  Left(AM!MaskedBy(rules, role, field, value), value, Asking(rules, role, field, Len(rules)))
<1> DEFINE len == Len(rules)
           asking(m) == Asking(rules, role, field, m)
<1>1. PICK masked : TurnByTurn(masked, rules, role, field, value, n)
  BY RulesMaskInTurn
<1>2. len \in Nat
  OBVIOUS
<1> DEFINE S == {m \in 0..len : Left(masked[m], value, asking(m))}
<1> HIDE DEF len
<1>3. 0 \in S
  BY <1>1, <1>2 DEF Left, Asking, TurnByTurn, len
<1>4. ASSUME NEW m \in 0..(len - 1), Left(masked[m], value, asking(m))
      PROVE  Left(masked[m + 1], value, asking(m + 1))
  <2> DEFINE rule == rules[m + 1]
             w == masked[m]
             asks == AM!Applies(rule, role, field) /\ rule.type \in AM!Registered
  <2>1. m + 1 \in 1..len /\ (m + 1) - 1 = m /\ m \in 0..len
    BY <1>2
  <2>2. masked[m + 1] = RuleMasks(rule, role, field, w) /\ w \in Texts(n)
    BY <1>1, <2>1 DEF TurnByTurn, len
  <2>3. asking(m + 1) = IF asks THEN asking(m) \cup {m + 1} ELSE asking(m)
    BY <2>1 DEF Asking
  <2>4. /\ AM!Digits(AM!Mask(rule.type, w)) \subseteq AM!Digits(w)
        /\ rule.type \in AM!Registered =>
             AM!Digits(AM!Mask(rule.type, w)) \subseteq AM!Digits(w) \ AM!DigitsToMask(w)
        /\ rule.type \notin AM!Registered => AM!Mask(rule.type, w) = w
    BY <2>2, MaskTakesDigits
  <2> HIDE DEF rule, w
  <2>5. CASE asks
    <3>1. masked[m + 1] = AM!Mask(rule.type, w) /\ asking(m + 1) # {}
      BY <2>2, <2>3, <2>5 DEF RuleMasks
    <3>. QED
      BY <1>4, <2>4, <2>5, <3>1 DEF Left, w
  <2>6. CASE ~asks
    <3>1. masked[m + 1] = w /\ asking(m + 1) = asking(m)
      BY <2>2, <2>3, <2>4, <2>6 DEF RuleMasks
    <3>. QED
      BY <1>4, <3>1 DEF w
  <2>. QED
    BY <2>5, <2>6
<1>5. 0..len \subseteq S
  <2>1. \A m \in 0..(len - 1) : m \in S => m + 1 \in S
    BY <1>2, <1>4
  <2> HIDE DEF S
  <2>. QED
    BY <1>2, <1>3, <2>1, StepByStep
<1>6. Left(masked[len], value, asking(len))
  BY <1>2, <1>5
<1>. QED
  BY <1>1, <1>6 DEF TurnByTurn, len

(* The configurations read are the collections of the file as they stand.  *)
ReadAsDeclared ==
  /\ configs \in Seq([name : Names, rules : AM!RuleLists])
  /\ Len(configs) = cursor - 1
  /\ \A n \in 1..Len(configs) : configs[n] = [name |-> file[n].name, rules |-> file[n].rules]

MaskInv ==
  /\ file \in AM!Files
  /\ AM!ReadableFile => cursor \in 1..3 /\ ReadAsDeclared

LEMMA FileShape ==
  ASSUME file \in AM!Files
  PROVE  /\ Len(file) = 2 /\ DOMAIN file = 1..2
         /\ \A i \in 1..2 : /\ file[i].name \in Names /\ file[i].rules \in AM!RuleLists
                            /\ file[i].hasRules \in BOOLEAN
<1>1. file \in [1..2 -> AM!Collections]
  BY DEF AM!Files
<1>2. \A c \in AM!Collections : c.name \in Names /\ c.rules \in AM!RuleLists /\ c.hasRules \in BOOLEAN
  <2>1. <<>> \in AM!RuleLists
    <3>1. <<>> \in [1..0 -> RuleChoices] /\ 0 \in 0..2
      OBVIOUS
    <3>. QED
      BY <3>1 DEF AM!RuleLists, AM!BoundedSeq, AM!SeqOf
  <2>. QED
    BY <2>1 DEF AM!Collections
<1>3. Len(file) = 2 /\ DOMAIN file = 1..2
  BY <1>1
<1>. QED
  BY <1>1, <1>2, <1>3

LEMMA NextIsFound ==
  ASSUME file \in AM!Files, AM!ReadableFile, NEW i \in 1..2
  PROVE  AM!RulesFound(i) = file[i].rules /\ AM!Resume(i) = i + 1
<1>1. Len(file) = 2 /\ DOMAIN file = 1..2
  BY FileShape
<1>2. AM!FirstPlace(file[i].name) = <<i, 0>> /\ file[i].hasRules
  BY <1>1 DEF AM!ReadableFile
<1>3. AM!Resume(i) = i + 1
  BY <1>2 DEF AM!Resume
<1> DEFINE with == {k \in i..Len(file) : file[k].hasRules}
<1>4. i \in with /\ \A k \in with : k \in Int /\ i <= k
  BY <1>1, <1>2
<1>5. AM!RulesFound(i) = IF with = {} THEN <<>> ELSE AM!RulesRead(file[AM!Min(with)].rules)
  BY DEF AM!RulesFound
<1> HIDE DEF with
<1>6. AM!Min(with) = i
  <2>1. \A x \in with : (\A y \in with : x <= y) => x = i
    BY <1>4
  <2>2. \A y \in with : i <= y
    BY <1>4
  <2>. QED
    BY <1>4, <2>1, <2>2 DEF AM!Min
<1>7. AM!RulesRead(file[i].rules) = file[i].rules
  <2> DEFINE list == file[i].rules
  <2>1. \A n \in DOMAIN list : AM!RuleRead(list[n]) = list[n]
    BY <1>1 DEF AM!ReadableFile, AM!RuleRead
  <2>2. PICK k \in 0..2 : list \in [1..k -> RuleChoices]
    BY FileShape DEF AM!RuleLists, AM!BoundedSeq, AM!SeqOf
  <2> HIDE DEF list
  <2>3. AM!RulesRead(list) = list
    BY <2>1, <2>2 DEF AM!RulesRead
  <2>. QED
    BY <2>3 DEF list
<1>. QED
  BY <1>3, <1>4, <1>5, <1>6, <1>7

LEMMA NamesDiffer ==
  ASSUME file \in AM!Files, AM!ReadableFile
  PROVE  file[1].name # file[2].name
<1>1. AM!FirstPlace(file[1].name) = <<1, 0>> /\ AM!FirstPlace(file[2].name) = <<2, 0>>
  BY FileShape DEF AM!ReadableFile
<1>2. <<1, 0>> # <<2, 0>>
  OBVIOUS
<1>. QED
  BY <1>1, <1>2

LEMMA MaskStepInv == MaskInv /\ [AM!Next]_maskVars => MaskInv'
<1> SUFFICES ASSUME MaskInv, [AM!Next]_maskVars
             PROVE  MaskInv'
  OBVIOUS
<1>1. CASE AM!ParseCollection
  <2>1. /\ file' = file /\ file \in AM!Files /\ cursor <= Len(file)
        /\ configs' = Append(configs, [name |-> file[cursor].name, rules |-> AM!RulesFound(cursor)])
        /\ cursor' = AM!Resume(cursor)
    BY <1>1 DEF AM!ParseCollection, MaskInv
  <2>2. AM!ReadableFile' <=> AM!ReadableFile
    BY <2>1 DEF AM!ReadableFile, AM!FirstPlace, AM!Places
  <2>3. ASSUME AM!ReadableFile
        PROVE  cursor' \in 1..3 /\ ReadAsDeclared'
    <3>1. cursor \in 1..2 /\ ReadAsDeclared
      <4>1. Len(file) = 2
        BY <2>1, FileShape
      <4>. QED
        BY <2>1, <2>3, <4>1 DEF MaskInv
    <3>2. AM!RulesFound(cursor) = file[cursor].rules /\ cursor' = cursor + 1
      BY <2>1, <2>3, <3>1, NextIsFound
    <3> DEFINE read == [name |-> file[cursor].name, rules |-> file[cursor].rules]
    <3>3. read \in [name : Names, rules : AM!RuleLists]
      BY <2>1, <3>1, FileShape
    <3>4. configs' = Append(configs, read)
      BY <2>1, <3>2
    <3> HIDE DEF read
    <3>5. /\ configs \in Seq([name : Names, rules : AM!RuleLists])
          /\ Len(configs) = cursor - 1 /\ Len(configs) \in Nat
          /\ \A n \in 1..Len(configs) :
               configs[n] = [name |-> file[n].name, rules |-> file[n].rules]
      BY <3>1 DEF ReadAsDeclared
    <3>6. /\ configs' \in Seq([name : Names, rules : AM!RuleLists])
          /\ Len(configs') = cursor
          /\ \A n \in 1..cursor : configs'[n] = IF n = cursor THEN read ELSE configs[n]
      BY <3>1, <3>3, <3>4, <3>5
    <3>7. \A n \in 1..cursor : n = cursor \/ n \in 1..Len(configs)
      BY <3>1, <3>5
    <3>. QED
      BY <2>1, <3>1, <3>2, <3>5, <3>6, <3>7 DEF ReadAsDeclared, read
  <2>. QED
    BY <2>1, <2>2, <2>3 DEF MaskInv
<1>2. CASE UNCHANGED maskVars
  <2>1. file' = file /\ cursor' = cursor /\ configs' = configs
    BY <1>2 DEF maskVars
  <2>2. AM!ReadableFile' <=> AM!ReadableFile
    BY <2>1 DEF AM!ReadableFile, AM!FirstPlace, AM!Places
  <2>. QED
    BY <2>1, <2>2 DEF MaskInv, ReadAsDeclared
<1>. QED
  BY <1>1, <1>2 DEF AM!Next

Collects(masked, collection, role, field, value) ==
  masked = [n \in 0..Len(configs) |->
              IF n = 0 THEN value
              ELSE IF configs[n].name = collection
                THEN AM!MaskedBy(configs[n].rules, role, field, masked[n - 1])
              ELSE masked[n - 1]]

(* A collection is masked by its own rules. *)
LEMMA OwnRulesMask ==
  ASSUME file \in AM!Files, AM!ReadableFile, ReadAsDeclared, cursor = 3, NEW i \in 1..2,
         NEW role, NEW field, NEW value
  PROVE  AM!ApplyMasking(file[i].name, role, field, value)
           = AM!MaskedBy(file[i].rules, role, field, value)
<1> DEFINE c == file[i].name
           after == AM!MaskedBy(file[i].rules, role, field, value)
           f == [n \in 0..2 |-> IF n < i THEN value ELSE after]
<1>1. /\ Len(configs) = 2
      /\ \A n \in 1..2 : configs[n].name = file[n].name /\ configs[n].rules = file[n].rules
  BY DEF ReadAsDeclared
<1>2. \A n \in 1..2 : configs[n].name = c <=> n = i
  BY <1>1, NamesDiffer
<1>3. 0..2 = {0, 1, 2} /\ 1..2 = {1, 2}
  OBVIOUS
<1>4. Collects(f, c, role, field, value)
  <2>1. f[0] = value /\ f[1] = (IF i = 1 THEN after ELSE value) /\ f[2] = after
    BY <1>3
  <2>2. f = [n \in 0..2 |-> f[n]]
    OBVIOUS
  <2> HIDE DEF f, c
  <2>3. \A n \in 0..2 : f[n] = IF n = 0 THEN value
                              ELSE IF configs[n].name = c
                                THEN AM!MaskedBy(configs[n].rules, role, field, f[n - 1])
                              ELSE f[n - 1]
    <3>1. \A n \in 1..2 : configs[n].rules = file[n].rules
      BY <1>1
    <3>2. CASE i = 1
      BY <1>2, <1>3, <2>1, <3>1, <3>2
    <3>3. CASE i = 2
      BY <1>2, <1>3, <2>1, <3>1, <3>3
    <3>. QED
      BY <1>3, <3>2, <3>3
  <2>. QED
    BY <1>1, <2>2, <2>3 DEF Collects
<1> HIDE DEF f, c
<1>5. PICK masked : /\ Collects(masked, c, role, field, value)
                    /\ AM!ApplyMasking(c, role, field, value) = masked[Len(configs)]
  BY <1>4 DEF Collects, AM!ApplyMasking
<1>6. masked[0] = value
  BY <1>1, <1>5 DEF Collects
<1>7. \A n \in 1..2 : masked[n] = IF n = i
                                 THEN AM!MaskedBy(file[i].rules, role, field, masked[n - 1])
                                 ELSE masked[n - 1]
  BY <1>1, <1>2, <1>5 DEF Collects
<1>8. masked[1] = (IF i = 1 THEN AM!MaskedBy(file[i].rules, role, field, masked[0]) ELSE masked[0])
      /\ masked[2] = (IF i = 2 THEN AM!MaskedBy(file[i].rules, role, field, masked[1]) ELSE masked[1])
  BY <1>3, <1>7
<1>9. masked[2] = after
  BY <1>3, <1>6, <1>8
<1>. QED
  BY <1>1, <1>5, <1>9 DEF c

(* A masking file that is read as it stands, with no path and no earlier   *)
(* string that is taken for a key or a name, is obeyed: of a field for     *)
(* which a collection has a rule of a registered type and for the role, no *)
(* digit is left that a mask takes, in whatever order its rules are        *)
(* applied; a field without such a rule is left as it is.                  *)
THEOREM MaskingIsObeyed == Spec => []MaskedAsDeclared
<1>1. Init => MaskInv
  <2> SUFFICES ASSUME AM!Init
               PROVE  MaskInv
    BY DEF Init
  <2>1. configs = <<>> /\ cursor = 1 /\ file \in AM!Files
    BY DEF AM!Init
  <2>. QED
    BY <2>1 DEF MaskInv, ReadAsDeclared
<1>2. MaskInv /\ [Next]_vars => MaskInv'
  BY ServicesStep, MaskStepInv
<1>3. MaskInv => MaskedAsDeclared
  <2> SUFFICES ASSUME MaskInv, cursor > Len(file), AM!ReadableFile, NEW i \in DOMAIN file,
                      NEW role \in {"viewer", "admin"}, NEW field \in {r.path : r \in RuleChoices},
                      NEW value \in AM!Values
               PROVE  LET rules == {r \in AM!Range(file[i].rules) :
                                      AM!Applies(r, role, field) /\ r.type \in AM!Registered}
                          masked == AM!ApplyMasking(file[i].name, role, field, value)
                      IN  /\ rules # {} =>
                               AM!Digits(masked) \subseteq AM!Digits(value) \ AM!DigitsToMask(value)
                          /\ rules = {} => masked = value
    BY DEF MaskedAsDeclared, AM!MaskedAsDeclared
  <2> DEFINE list == file[i].rules
             rules == {r \in AM!Range(list) :
                         AM!Applies(r, role, field) /\ r.type \in AM!Registered}
             asking == Asking(list, role, field, Len(list))
  <2>1. file \in AM!Files /\ i \in 1..2 /\ cursor = 3 /\ ReadAsDeclared
    <3>1. file \in AM!Files /\ cursor \in 1..3 /\ ReadAsDeclared
      BY DEF MaskInv
    <3>2. Len(file) = 2 /\ DOMAIN file = 1..2
      BY <3>1, FileShape
    <3>. QED
      BY <3>1, <3>2
  <2>2. \E n \in Nat : value \in Texts(n)
    <3>1. PICK n \in 0..MaxLength : value \in [1..n -> {"digit", "separator", "other"}]
      BY DEF AM!Values, AM!BoundedSeq, AM!SeqOf
    <3>. QED
      BY <3>1 DEF Texts, AM!Classes
  <2>3. PICK n \in Nat : value \in Texts(n)
    BY <2>2
  <2>4. DOMAIN list = 1..Len(list) /\ Len(list) \in Nat
    <3>1. list \in AM!RuleLists
      BY <2>1, FileShape
    <3>2. PICK k \in 0..2 : list \in [1..k -> RuleChoices]
      BY <3>1 DEF AM!RuleLists, AM!BoundedSeq, AM!SeqOf
    <3>. QED
      BY <3>2
  <2>5. asking = {} <=> rules = {}
    BY <2>4 DEF AM!Range, Asking
  <2>6. AM!ApplyMasking(file[i].name, role, field, value) = AM!MaskedBy(list, role, field, value)
    BY <2>1, OwnRulesMask
  <2>7. Left(AM!MaskedBy(list, role, field, value), value, asking)
    <3> HIDE DEF list
    <3>. QED
      BY <2>3, <2>4, RulesLeave
  <2>. QED
    BY <2>5, <2>6, <2>7 DEF Left
<1>. QED
  BY <1>1, <1>2, <1>3, PTL DEF Spec
=============================================================================
