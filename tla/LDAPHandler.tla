---------------------------- MODULE LDAPHandler ----------------------------
(***************************************************************************)
(* LDAPHandler::authenticate, called by concurrent requests on one         *)
(* handler.  A request makes a handle for each identity it binds as and    *)
(* destroys it on every path; the library keeps the identity of the last   *)
(* bind with the handle.  The directory is external: any call to it may    *)
(* fail, and a failed bind leaves a handle anonymous.  The name of the     *)
(* request's user stands for the DN, be it built or searched for.          *)
(***************************************************************************)
CONSTANT Requests     \* concurrent calls, each of a user of its own

VARIABLES
  settings,    \* the handler's LDAPConfig
  at,          \* at[r]: where request r is
  open,        \* the handles that are initialized and not unbound
  secure,      \* the handles that speak TLS
  bound,       \* bound[h]: the identity of handle h
  held,        \* held[r]: search results that request r has not freed
  outcome      \* outcome[r]: what authenticate returned

ldapVars == <<settings, at, open, secure, bound, held, outcome>>

Kinds == {"admin", "user"}
Handles == Requests \X Kinds

(* Mutated: the handler keeps its handles for all requests. *)
SharedHandle(r, kind) == <<CHOOSE s \in Requests : TRUE, kind>>

Handle(r, kind) == <<r, kind>>

(* LDAPConfig::validate; "empty" names the fields that are not given. *)
Valid(c) ==
  /\ {"server", "port"} \cap c.empty = {}
  /\ c.mode = "Search" => {"binddn", "basedn"} \cap c.empty = {}
  /\ ~(c.useTLS /\ c.useLDAPS)

Configs ==
  {c \in [mode : {"Simple", "Search"}, useTLS : BOOLEAN, useLDAPS : BOOLEAN,
          roles : {"none", "attribute", "search"},
          empty : {{}, {"binddn", "basedn"}, {"server"}}] : Valid(c)}

Init ==
  /\ settings \in Configs
  /\ at = [r \in Requests |-> "called"]
  /\ open = {} /\ secure = {}
  /\ bound = [h \in Handles |-> "anonymous"]
  /\ held = [r \in Requests |-> {}]
  /\ outcome = [r \in Requests |-> "none"]

Goes(r, from, to) ==
  /\ at[r] = from
  /\ at' = [at EXCEPT ![r] = to]

(* destroyHandle, and return. *)
Unbind(h) ==
  /\ open' = open \ {h}
  /\ secure' = secure \ {h}
  /\ bound' = [bound EXCEPT ![h] = "anonymous"]

Return(r, from, result) ==
  /\ Goes(r, from, "returned")
  /\ outcome' = [outcome EXCEPT ![r] = result]

(***************************************************************************)
(* createHandle.                                                           *)
(***************************************************************************)

Initialize(r, kind, from, to) ==
  LET h == Handle(r, kind) IN
  /\ \/ Goes(r, from, to) /\ open' = open \cup {h} /\ UNCHANGED outcome
     \/ Return(r, from, "failed") /\ UNCHANGED open
  /\ secure' = IF settings.useLDAPS /\ h \in open' THEN secure \cup {h} ELSE secure
  /\ UNCHANGED <<settings, bound, held>>

(* Mutated: a handle whose StartTLS failed is forgotten. *)
ForgetHandle(r, kind, from) ==
  /\ settings.useTLS /\ ~settings.useLDAPS
  /\ Return(r, from, "failed")
  /\ UNCHANGED <<settings, open, secure, bound, held>>

StartTlsFails(r, kind, from) ==
  /\ settings.useTLS /\ ~settings.useLDAPS
  /\ Return(r, from, "failed")
  /\ Unbind(Handle(r, kind))
  /\ UNCHANGED <<settings, held>>

StartTls(r, kind, from, to) ==
  /\ Goes(r, from, to)
  /\ secure' = IF settings.useTLS /\ ~settings.useLDAPS
               THEN secure \cup {Handle(r, kind)} ELSE secure
  /\ UNCHANGED <<settings, open, bound, held, outcome>>

(***************************************************************************)
(* bindUser, and what a bind that fails ends.                              *)
(***************************************************************************)

Identity(r, kind) == IF kind = "admin" THEN "admin" ELSE r

Bind(r, kind, from, to) ==
  /\ Goes(r, from, to)
  /\ bound' = [bound EXCEPT ![Handle(r, kind)] = Identity(r, kind)]
  /\ UNCHANGED <<settings, open, secure, held, outcome>>

BindFails(r, kind, from) ==
  /\ Return(r, from, "failed")
  /\ Unbind(Handle(r, kind))
  /\ UNCHANGED <<settings, held>>

(***************************************************************************)
(* Search mode: the admin looks for the user's DN.                         *)
(***************************************************************************)

(* A call of searchExtS; a call that fails may give a result all the same. *)
Searched(r) ==
  \E results \in {{}, {"result"}, {"resultOfFailure"}} :
    held' = [held EXCEPT ![r] = @ \cup results]

SearchUser(r) ==
  /\ Goes(r, "searching", "searched")
  /\ Searched(r)
  /\ UNCHANGED <<settings, open, secure, bound, outcome>>

(* The result is freed, if the search succeeded, and the handle destroyed; *)
(* an entry without a DN and no entry at all are no user.                  *)
FindUser(r) ==
  /\ \/ "result" \in held[r] /\ Goes(r, "searched", "found") /\ UNCHANGED outcome
     \/ Return(r, "searched", "failed")
  /\ held' = [held EXCEPT ![r] = @ \ {"result"}]
  /\ Unbind(Handle(r, "admin"))
  /\ UNCHANGED settings

(***************************************************************************)
(* fetchRoles on the user's handle, and the end of the request.            *)
(***************************************************************************)

FetchRoles(r) ==
  /\ settings.roles # "none"
  /\ Goes(r, "bound", "fetched")
  /\ Searched(r)
  /\ UNCHANGED <<settings, open, secure, bound, outcome>>

SkipRoles(r) ==
  /\ settings.roles = "none"
  /\ Goes(r, "bound", "fetched")
  /\ UNCHANGED <<settings, open, secure, bound, held, outcome>>

Grant(r) ==
  /\ Return(r, "fetched", "granted")
  /\ held' = [held EXCEPT ![r] = @ \ {"result"}]
  /\ Unbind(Handle(r, "user"))
  /\ UNCHANGED settings

Authenticate(r) ==
  \/ /\ settings.mode = "Simple"
     /\ Initialize(r, "user", "called", "userHandle")
  \/ /\ settings.mode = "Search"
     /\ Initialize(r, "admin", "called", "adminHandle")
  \/ StartTls(r, "admin", "adminHandle", "adminReady")
  \/ StartTlsFails(r, "admin", "adminHandle")
  \/ Bind(r, "admin", "adminReady", "searching")
  \/ BindFails(r, "admin", "adminReady")
  \/ SearchUser(r)
  \/ FindUser(r)
  \/ Initialize(r, "user", "found", "userHandle")
  \/ StartTls(r, "user", "userHandle", "userReady")
  \/ StartTlsFails(r, "user", "userHandle")
  \/ Bind(r, "user", "userReady", "bound")
  \/ BindFails(r, "user", "userReady")
  \/ FetchRoles(r)
  \/ SkipRoles(r)
  \/ Grant(r)

Next == \E r \in Requests : Authenticate(r)

Spec == Init /\ [][Next]_ldapVars

-----------------------------------------------------------------------------
TypeOK ==
  /\ settings \in Configs
  /\ at \in [Requests -> {"called", "adminHandle", "adminReady", "searching", "searched",
                          "found", "userHandle", "userReady", "bound", "fetched", "returned"}]
  /\ open \subseteq Handles /\ secure \subseteq open
  /\ bound \in [Handles -> Requests \cup {"anonymous", "admin"}]
  /\ held \in [Requests -> SUBSET {"result", "resultOfFailure"}]
  /\ outcome \in [Requests -> {"none", "failed", "granted"}]

(* Where a request uses a handle, and which one. *)
UsesAs(r, kind) ==
  at[r] \in (IF kind = "admin" THEN {"searching", "searched"} ELSE {"bound", "fetched"})

(* Requests do not disturb each other: whatever others do, a request reads *)
(* the user's DN as the admin and the roles as its own user, over a handle *)
(* that is open, and that speaks TLS if the configuration asks for it (no  *)
(* handle is a member of the handler).                                     *)
OwnIdentity ==
  \A r \in Requests, kind \in Kinds : UsesAs(r, kind) =>
    /\ Handle(r, kind) \in open
    /\ bound[Handle(r, kind)] = Identity(r, kind)
    /\ settings.useTLS \/ settings.useLDAPS => Handle(r, kind) \in secure

(* A request that has returned, by any of its paths, has unbound its       *)
(* handles and freed its results, except what a failed search gave.        *)
NothingHeld ==
  /\ \A r \in Requests : at[r] = "returned" => "result" \notin held[r]
  /\ \A h \in open : \E r \in Requests, kind \in Kinds :
       at[r] # "returned" /\ h = Handle(r, kind)

(* Requests on one handler neither disturb each other nor leave anything   *)
(* behind: OwnIdentity while authenticate runs, NothingHeld when it is over. *)
RequestsIsolated == OwnIdentity /\ NothingHeld
=============================================================================
