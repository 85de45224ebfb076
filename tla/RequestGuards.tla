--------------------------- MODULE RequestGuards ---------------------------
(* The global guards a request passes, in the order GlobalGuardsModule      *)
(* gives them, and the status CatchEverythingFilter answers.  Each guard    *)
(* awaits a store, and what it asks about changes between two guards.       *)
(* Requests share nothing but that, so one is followed.                     *)
EXTENDS Naturals, FiniteSets

CONSTANTS None,
  MaxChanges    \* bound: changes during the request

VARIABLES
  facts,        \* what is true of the token's session and account
  req,          \* the request
  held,         \* the truth values each fact had since it came (history)
  changes

rgVars == <<facts, req, held, changes>>
-----------------------------------------------------------------------------
Identity == {"op", "site"}    \* one identity of each type; op is the first
(* session: the session is valid; unchanged: no password was changed since  *)
(* the token was issued; active: the status of the account; exists: it is   *)
(* not deleted; op, site: the identity is active; super, granted: the       *)
(* user of the op identity.                                                 *)
Fact == {"session", "unchanged", "active", "exists", "super", "granted"} \cup Identity
Irreversible == {"session", "unchanged"}

Token == {"none", "bad", "valid"}      \* bad: malformed or expired
(* @Public, the white list of the configuration, @IdentityRequired and      *)
(* @PermissionRequired of the handler.                                      *)
Route == [public : BOOLEAN, listed : BOOLEAN, identities : {{}, {"op"}, Identity},
          permission : BOOLEAN]
(* The identity a body or a query names, which need not be of the account.  *)
Named == Identity \cup {"other", None}

Step == {"idle", "jwt", "session", "credential", "status", "account", "identity", "permission",
         "handler", "done"}

RgInit ==
  /\ facts \in {Fact, Fact \ {"super"}, Fact \ {"super", "granted"}}
  /\ held = [f \in Fact |-> IF f \in facts THEN {TRUE} ELSE {FALSE}]
  /\ changes = 0
  /\ req = [token |-> "none", route |-> None, named |-> None, pc |-> "idle", user |-> FALSE,
            account |-> None, identity |-> None, failed |-> {}, answer |-> 0]

(* Somebody logs the session out, changes the password, disables, deletes,  *)
(* freezes, grants: one fact turns.                                         *)
Turns(f) ==
  /\ changes < MaxChanges /\ req.pc \notin {"idle", "done"}
  /\ f \in Irreversible => f \in facts
  /\ facts' = IF f \in facts THEN facts \ {f} ELSE facts \cup {f}
  /\ held' = [held EXCEPT ![f] = @ \cup {f \notin facts}]
  /\ changes' = changes + 1
  /\ UNCHANGED req

same == <<facts, held, changes>>
-----------------------------------------------------------------------------
(* The status of an answer, by what was thrown.                             *)
Refusal ==
  [jwt |-> 401, session |-> 401, unauthorized |-> 401, identity |-> 401,
   frozen |-> 403, forbidden |-> 403, validation |-> 400, biz |-> 400,
   invalidId |-> 400, duplicate |-> 409, query |-> 500, unknown |-> 500, none |-> 200]

Arrive(token, route, named) ==
  /\ req.pc = "idle"
  /\ req' = [req EXCEPT !.pc = "jwt", !.token = token, !.route = route, !.named = named]
  /\ UNCHANGED same

Refuse(thrown) == req' = [req EXCEPT !.pc = "done", !.answer = Refusal[thrown]]
Pass(next) == req' = [req EXCEPT !.pc = next]
Failing(what, next) == req' = [req EXCEPT !.pc = next, !.failed = @ \cup {what}]

(* JwtAuthGuard: a public or listed route lets a request without a good     *)
(* token pass as nobody.                                                    *)
JwtAuth ==
  /\ req.pc = "jwt" /\ UNCHANGED same
  /\ IF req.token = "valid" THEN req' = [req EXCEPT !.pc = "session", !.user = TRUE]
     ELSE IF req.route.public \/ req.route.listed THEN Pass("session")
     ELSE Refuse("jwt")

(* SessionGuard: a public route and nobody pass; the session is looked up.  *)
Session ==
  /\ req.pc = "session" /\ UNCHANGED same
  /\ IF req.route.public \/ ~req.user THEN Pass("account")
     ELSE \/ IF "session" \in facts THEN Pass("credential") ELSE Refuse("session")
          \/ req' = [req EXCEPT !.pc = "done", !.failed = @ \cup {"session"},
                                !.answer = Refusal["unknown"]]

(* getCredentialChangedAt and getAccountStatus answer null when the query   *)
(* fails, the latter also when the account is deleted; null passes.         *)
Credential ==
  /\ req.pc = "credential" /\ UNCHANGED same
  /\ \/ IF "unchanged" \in facts THEN Pass("status") ELSE Refuse("session")
     \/ Failing("credential", "status")

AccountStatus ==
  /\ req.pc = "status" /\ UNCHANGED same
  /\ \/ IF "active" \in facts \/ "exists" \notin facts THEN Pass("account") ELSE Refuse("session")
     \/ Failing("status", "account")

(* AccountDeserializeGuard: the account with its identities, None when      *)
(* there is none or the look-up fails.                                      *)
AccountDeserialize ==
  /\ req.pc = "account" /\ UNCHANGED same
  /\ \/ req' = [req EXCEPT !.pc = "identity",
                  !.account = IF req.user /\ "exists" \in facts THEN facts \cap Identity ELSE None]
     \/ req.user /\ Failing("account", "identity")

(* IdentityRequiredGuard: the identity that is named, or the first of the   *)
(* account, is mounted if it is of the account, and refused if it is frozen.*)
IdentityRequired ==
  /\ req.pc = "identity" /\ UNCHANGED same
  /\ LET id == IF req.named = None /\ req.account # None THEN "op" ELSE req.named
         known == req.account # None /\ id \in Identity
         required == req.route.identities
     IN IF known /\ id \notin req.account THEN Refuse("frozen")
        ELSE IF ~req.route.public /\ required # {} /\ ~(known /\ id \in required)
        THEN Refuse("identity")
        ELSE req' = [req EXCEPT !.pc = "permission", !.identity = IF known THEN id ELSE None]

(* Mutant: who has no identity is not asked for a permission. *)
PermissionOfIdentity ==
  /\ req.pc = "permission" /\ UNCHANGED same
  /\ IF ~req.route.permission \/ req.identity = None THEN Pass("handler")
     ELSE IF req.identity = "op" /\ {"super", "granted"} \cap facts # {} THEN Pass("handler")
     ELSE Refuse("forbidden")
(* PermissionGuard: only of an op identity is a permission known; super has *)
(* them all.                                                                *)
Permission ==
  /\ req.pc = "permission" /\ UNCHANGED same
  /\ IF ~req.route.permission THEN Pass("handler")
     ELSE IF req.identity = None THEN Refuse("unauthorized")
     ELSE IF req.identity # "op" THEN Refuse("forbidden")
     ELSE \/ IF {"super", "granted"} \cap facts # {} THEN Pass("handler") ELSE Refuse("forbidden")
          \/ req' = [req EXCEPT !.pc = "done", !.failed = @ \cup {"permission"},
                                !.answer = Refusal["query"]]

(* The validating pipe and the handler, whose errors the filter answers.    *)
Handler ==
  /\ req.pc = "handler" /\ UNCHANGED same
  /\ \/ \E thrown \in {"none", "validation", "biz", "invalidId", "duplicate"} : Refuse(thrown)
     \/ \E thrown \in {"query", "unknown"} :
          req' = [req EXCEPT !.pc = "done", !.failed = @ \cup {"handler"}, !.answer = Refusal[thrown]]

RgNext ==
  \/ \E token \in Token, route \in Route, named \in Named : Arrive(token, route, named)
  \/ \E f \in Fact : Turns(f)
  \/ JwtAuth \/ Session \/ Credential \/ AccountStatus \/ AccountDeserialize
  \/ IdentityRequired \/ Permission \/ Handler

RgSpec == RgInit /\ [][RgNext]_rgVars
-----------------------------------------------------------------------------
RgTypeOK ==
  /\ facts \subseteq Fact /\ req.pc \in Step /\ changes \in 0..MaxChanges
  /\ req.account \in {None} \cup SUBSET Identity /\ req.identity \in Identity \cup {None}

Had(f) == TRUE \in held[f]
Lacked(f) == FALSE \in held[f]

(* A request that reaches its handler met, at some moment since it came,    *)
(* every condition of the route, whatever changed between the guards: but a *)
(* failed query of the credential or of the status counts as met, and so    *)
(* does the status of a deleted account.                                    *)
AdmittedWasAllowed ==
  req.pc = "handler" =>
    /\ ~req.route.public =>
         /\ req.token = "valid" \/ req.route.listed
         /\ req.token = "valid" =>
              /\ Had("session")
              /\ Had("unchanged") \/ "credential" \in req.failed
              /\ Had("active") \/ "status" \in req.failed \/ Lacked("exists")
         /\ req.route.identities # {} =>
              req.token = "valid" /\ Had("exists") /\ \E id \in req.route.identities : Had(id)
    /\ req.route.permission =>
         req.token = "valid" /\ Had("op") /\ (Had("super") \/ Had("granted"))

(* Nobody who meets every condition all the time is sent away, and a server *)
(* error means that a store or the handler failed.                          *)
RefusedForAReason ==
  /\ req.answer \in {401, 403} =>
       \/ req.token # "valid" \/ req.named \notin {None, "op"} \/ req.failed # {}
       \/ \E f \in Fact \ {"super"} : Lacked(f)
  /\ req.answer = 500 => req.failed # {}
=============================================================================
