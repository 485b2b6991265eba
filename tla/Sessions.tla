------------------------------ MODULE Sessions ------------------------------
(***************************************************************************)
(* Logins, tokens and permissions of one account (apps/accounts/           *)
(* serializers.py, permissions.py, the permission classes of the views and *)
(* SIMPLE_JWT in config/settings/base.py), under concurrent requests and   *)
(* an administrator who edits the account meanwhile.  No statement of this *)
(* code touches two accounts, so one stands for all.                       *)
(*                                                                         *)
(* Access tokens are stateless: the server stores nothing of them and      *)
(* checks their expiry and the account they name.  A refresh token is used *)
(* up by a row of the blacklist.  Every statement a request executes is a  *)
(* step of its own; none of these endpoints opens a transaction, so each   *)
(* commits at once.                                                        *)
(***************************************************************************)
EXTENDS ErrorContract, Integers, FiniteSets

CONSTANTS
    Requests,         \* concurrent server threads, each serving one request
    Tokens,           \* refresh tokens that can be minted
    Signups,          \* the roles the account may have signed up with
    Endpoints,        \* the operations behind authentication clients call
    Targets,          \* the events they name, by their relation to the account
    AccessLifetime,   \* ACCESS_TOKEN_LIFETIME
    RefreshLifetime,  \* REFRESH_TOKEN_LIFETIME
    MaxTime,          \* bound on the clock
    MaxEdits,         \* bound on what an administrator changes
    NoToken           \* no Authorization header

VARIABLES
    now,              \* timezone.now()
    account,          \* the user, its profile and its groups
    edits,            \* how often an administrator has changed them
    refresh,          \* each refresh token and its row of the blacklist
    access,           \* the access tokens ever sent
    call,             \* the request each thread is serving
    pc,               \* the statement each thread executes next
    since,            \* the states of the account since a request arrived
    answer            \* the response the last step sent, if it sent one

vars == <<now, account, edits, refresh, access, call, pc, since, answer>>

Role == {"seeker", "facilitator"}
Anyone == "anyone"

(* get_permissions of EventViewSet, permission_classes of the other views. *)
(* "unsupported" is a route called with a method it has no handler for.    *)
Needs == [me |-> Anyone, list |-> Anyone, retrieve |-> Anyone,
          unsupported |-> Anyone,
          create |-> "facilitator", mine |-> "facilitator",
          update |-> "facilitator", destroy |-> "facilitator",
          enroll |-> "seeker", cancel |-> "seeker", enrollments |-> "seeker"]

(* Endpoints that look up an event through get_object, and those that hand *)
(* the key of the URL to a query as it is.                                 *)
Fetching == {"retrieve", "update", "destroy"}
Querying == {"enroll", "cancel"}

ASSUME SessionAssumption ==
    /\ IsFiniteSet(Requests)
    /\ Signups \subseteq Role
    /\ Endpoints \subseteq DOMAIN Needs
    /\ Targets \subseteq {"own", "foreign", "missing", "unparsable"}
    /\ {AccessLifetime, RefreshLifetime} \subseteq Nat \ {0}
    /\ {MaxTime, MaxEdits} \subseteq Nat

Account == [active: BOOLEAN, verified: BOOLEAN, role: Role, groups: SUBSET Role]

AccessToken == [expires: Nat, role: Role]

RefreshToken == [state: {"unminted", "live", "blacklisted"}, expires: Nat,
                 exchanged: Nat]   \* pairs of tokens it has been exchanged for

(* The rest of a request is decided at the step that looks at it.          *)
LoginCall   == [op: {"login"}]
RefreshCall == [op: {"refresh"}, token: Tokens,
                replay: BOOLEAN]   \* the token had been exchanged when it was sent
ApiCall     == [op: {"api"}, token: AccessToken \cup {NoToken}, endpoint: Endpoints]
LostCall    == [op: {"no_route"}]
NoCall      == [op |-> "none"]
Call        == LoginCall \cup RefreshCall \cup ApiCall \cup LostCall

NoAnswer == [status |-> 0, code |-> "none"]

TypeOK ==
    /\ now \in Nat /\ edits \in Nat
    /\ account \in Account
    /\ refresh \in [Tokens -> RefreshToken]
    /\ access \subseteq AccessToken
    /\ call \in [Requests -> Call \cup {NoCall}]
    /\ pc \in [Requests -> {"idle", "route", "authenticate", "parse", "account",
                            "profile", "mint", "verify", "owner", "spend", "reply",
                            "permission", "object"}]
    /\ since \in [Requests -> SUBSET Account]
    /\ answer \in Responses \cup {NoAnswer}

----------------------------------------------------------------------------
Goto(r, step) ==
    /\ pc' = [pc EXCEPT ![r] = step]
    /\ answer' = NoAnswer
    /\ UNCHANGED <<call, since>>

Finish(r, response) ==
    /\ pc' = [pc EXCEPT ![r] = "idle"]
    /\ call' = [call EXCEPT ![r] = NoCall]
    /\ since' = [since EXCEPT ![r] = {}]
    /\ answer' = response

Fail(r, exc) == Finish(r, Handled(exc))

Data == <<now, account, edits, refresh, access>>

FirstStep(c) ==
    CASE c.op = "no_route" -> "route"
      [] c.op = "api"      -> "authenticate"
      [] OTHER             -> "parse"

(* What a client can send: tokens it has been given.                       *)
Sendable ==
    LoginCall \cup LostCall
        \cup {[op |-> "refresh", token |-> t, replay |-> refresh[t].exchanged > 0] :
                 t \in {u \in Tokens : refresh[u].state # "unminted"}}
        \cup [op: {"api"}, token: access \cup {NoToken}, endpoint: Endpoints]

Receive(r) ==
    /\ pc[r] = "idle"
    /\ \E c \in Sendable :
         /\ call' = [call EXCEPT ![r] = c]
         /\ pc' = [pc EXCEPT ![r] = FirstStep(c)]
    /\ since' = [since EXCEPT ![r] = {account}]
    /\ answer' = NoAnswer
    /\ UNCHANGED Data

(* The process dies: the client sees its connection reset.                 *)
Crash(r) ==
    /\ pc[r] # "idle"
    /\ Finish(r, NoAnswer)
    /\ UNCHANGED Data

Unrouted(r) ==
    /\ pc[r] = "route"
    /\ Finish(r, UrlNotFound)
    /\ UNCHANGED Data

----------------------------------------------------------------------------
(* JWTAuthentication, which runs before the permissions of a view.  With   *)
(* no header the user is anonymous; clients log in and refresh that way.   *)
Expired(token) == token.expires <= now

AuthenticateToken(r) ==
    /\ pc[r] = "authenticate"
    /\ LET token == call[r].token
       IN  IF token = NoToken THEN Goto(r, "permission")
           ELSE IF Expired(token) THEN Fail(r, TokenError("token_not_valid"))
           ELSE IF ~account.active THEN Fail(r, TokenError("authentication_failed"))
           ELSE Goto(r, "permission")
    /\ UNCHANGED Data

(* request.data and the serializer's fields, of login and refresh: a body  *)
(* that is no JSON, one that lacks a field, and a good one.                *)
Parse(r) ==
    /\ pc[r] = "parse"
    /\ \/ Fail(r, Framework("parse_error"))
       \/ Fail(r, ValidationError)
       \/ Goto(r, IF call[r].op = "login" THEN "account" ELSE "verify")
    /\ UNCHANGED Data

----------------------------------------------------------------------------
(* LoginSerializer.validate.  Any email and password may be wrong.         *)
LoginAccount(r) ==
    /\ pc[r] = "account"
    /\ \/ Fail(r, DomainError("invalid_credentials"))
       \/ account.active /\ Goto(r, "profile")
    /\ UNCHANGED Data

LoginProfileUnchecked(r) ==
    /\ pc[r] = "profile"
    /\ Goto(r, "mint")
    /\ UNCHANGED Data

LoginProfile(r) ==
    /\ pc[r] = "profile"
    /\ IF account.verified
       THEN Goto(r, "mint")
       ELSE Fail(r, DomainError("email_not_verified"))
    /\ UNCHANGED Data

(* Both tokens carry the profile's role as a claim.                        *)
MintPair(fresh) ==
    /\ refresh[fresh].state = "unminted"
    /\ access' = access \cup {[expires |-> now + AccessLifetime, role |-> account.role]}

Minted == [state |-> "live", expires |-> now + RefreshLifetime, exchanged |-> 0]

LoginMint(r) ==
    /\ pc[r] = "mint"
    /\ \E fresh \in Tokens :
         /\ MintPair(fresh)
         /\ refresh' = [refresh EXCEPT ![fresh] = Minted]
    /\ Finish(r, Ok)
    /\ UNCHANGED <<now, account, edits>>

----------------------------------------------------------------------------
(* TokenRefreshView: ROTATE_REFRESH_TOKENS, BLACKLIST_AFTER_ROTATION.      *)
RefreshVerify(r) ==
    /\ pc[r] = "verify"
    /\ LET token == refresh[call[r].token]
       IN  IF Expired(token) \/ token.state = "blacklisted"
           THEN Fail(r, TokenError("token_not_valid"))
           ELSE Goto(r, "owner")
    /\ UNCHANGED Data

RefreshOwner(r) ==
    /\ pc[r] = "owner"
    /\ IF account.active
       THEN Goto(r, "spend")
       ELSE Fail(r, Framework("no_active_account"))
    /\ UNCHANGED Data

RefreshSpendKept(r) ==
    /\ pc[r] = "spend"
    /\ Goto(r, "reply")
    /\ UNCHANGED Data

RefreshSpend(r) ==
    /\ pc[r] = "spend"
    /\ refresh' = [refresh EXCEPT ![call[r].token].state = "blacklisted"]
    /\ Goto(r, "reply")
    /\ UNCHANGED <<now, account, edits, access>>

RefreshReply(r) ==
    /\ pc[r] = "reply"
    /\ \E fresh \in Tokens :
         /\ MintPair(fresh)
         /\ refresh' = [refresh EXCEPT ![fresh] = Minted, ![call[r].token].exchanged = @ + 1]
    /\ Finish(r, Ok)
    /\ UNCHANGED <<now, account, edits>>

----------------------------------------------------------------------------
(* user_in_role reads the groups from the database, once per request; the  *)
(* claim is never looked at.                                               *)
InRoleByClaim(r, role) == role = Anyone \/ call[r].token.role = role

InRole(r, role) == role = Anyone \/ role \in account.groups

(* IsAuthenticated, then IsSeeker or IsFacilitator.                        *)
Permission(r) ==
    /\ pc[r] = "permission"
    /\ LET endpoint == call[r].endpoint
       IN  IF call[r].token = NoToken THEN Fail(r, Framework("not_authenticated"))
           ELSE IF ~InRole(r, Needs[endpoint]) THEN Fail(r, Framework("permission_denied"))
           ELSE IF endpoint = "unsupported" THEN Fail(r, Framework("method_not_allowed"))
           ELSE IF endpoint \in Fetching \cup Querying THEN Goto(r, "object")
           ELSE Finish(r, Ok)
    /\ UNCHANGED Data

NoEvent(endpoint) ==
    IF endpoint = "enroll" THEN Framework("not_found") ELSE DomainError("not_enrolled")

(* get_object answers 404 to a key it cannot parse and asks                *)
(* IsEventOwnerOrReadOnly; filter(pk=...) raises ValueError on such a key. *)
(* cancel answers that there is no enrollment, whatever is missing.        *)
Object(r) ==
    /\ pc[r] = "object"
    /\ \E target \in Targets :
         \/ /\ call[r].endpoint \in Fetching
            /\ \/ target \in {"missing", "unparsable"} /\ Fail(r, Http404)
               \/ /\ target = "foreign" /\ call[r].endpoint # "retrieve"
                  /\ Fail(r, Framework("permission_denied"))
               \/ (target = "foreign" => call[r].endpoint = "retrieve")
                  /\ target \in {"own", "foreign"} /\ Finish(r, Ok)
         \/ /\ call[r].endpoint \in Querying
            /\ \/ target = "unparsable" /\ Fail(r, Unhandled)
               \/ target = "missing" /\ Fail(r, NoEvent(call[r].endpoint))
               \/ target \in {"own", "foreign"} /\ Finish(r, Ok)
    /\ UNCHANGED Data

----------------------------------------------------------------------------
Witnessed == [r \in Requests |-> IF pc[r] = "idle" THEN {} ELSE since[r] \cup {account'}]

(* What the site's administrator can do to a user: is_active, the groups.  *)
(* Deleting the user and editing its Profile are left out.                 *)
Edit ==
    /\ edits < MaxEdits
    /\ edits' = edits + 1
    /\ \/ account' = [account EXCEPT !.active = ~@]
       \/ \E g \in SUBSET Role \ {account.groups} : account' = [account EXCEPT !.groups = g]
    /\ since' = Witnessed
    /\ answer' = NoAnswer
    /\ UNCHANGED <<now, refresh, access, call, pc>>

(* POST /auth/verify-email succeeds.                                       *)
VerifyEmail ==
    /\ ~account.verified
    /\ account' = [account EXCEPT !.verified = TRUE]
    /\ since' = Witnessed
    /\ answer' = NoAnswer
    /\ UNCHANGED <<now, edits, refresh, access, call, pc>>

Tick ==
    /\ now < MaxTime
    /\ now' = now + 1
    /\ answer' = NoAnswer
    /\ UNCHANGED <<account, edits, refresh, access, call, pc, since>>

Init ==
    /\ now = 0 /\ edits = 0
    /\ account \in {[active |-> TRUE, verified |-> FALSE, role |-> role,
                     groups |-> {role}] : role \in Signups}
    /\ refresh = [t \in Tokens |-> [state |-> "unminted", expires |-> 0, exchanged |-> 0]]
    /\ access = {}
    /\ call = [r \in Requests |-> NoCall]
    /\ pc = [r \in Requests |-> "idle"]
    /\ since = [r \in Requests |-> {}]
    /\ answer = NoAnswer

Login(r) == LoginAccount(r) \/ LoginProfile(r) \/ LoginMint(r)
Refresh(r) == RefreshVerify(r) \/ RefreshOwner(r) \/ RefreshSpend(r) \/ RefreshReply(r)
Authorize(r) == Permission(r) \/ Object(r)

Next ==
    \/ \E r \in Requests :
         \/ Receive(r) \/ Crash(r) \/ Unrouted(r)
         \/ AuthenticateToken(r) \/ Parse(r)
         \/ Login(r) \/ Refresh(r) \/ Authorize(r)
    \/ Edit \/ VerifyEmail \/ Tick

Spec == Init /\ [][Next]_vars

----------------------------------------------------------------------------
(* A thread is where the request it serves can be.                         *)
StepsOfCalls ==
    \A r \in Requests :
        /\ pc[r] = "idle" <=> call[r] = NoCall
        /\ pc[r] = "route" => call[r].op = "no_route"
        /\ pc[r] = "parse" => call[r].op \in {"login", "refresh"}
        /\ pc[r] \in {"account", "profile", "mint"} => call[r].op = "login"
        /\ pc[r] \in {"verify", "owner", "spend", "reply"} => call[r].op = "refresh"
        /\ pc[r] \in {"authenticate", "permission", "object"} => call[r].op = "api"

Exchanging(t) == {r \in Requests : /\ call[r].op = "refresh" /\ call[r].token = t
                                   /\ pc[r] \in {"owner", "spend", "reply"}}

(* A refresh token that has been exchanged is blacklisted, so are those    *)
(* about to be; what a token has been and may still be exchanged for is    *)
(* never more than the threads there are.                                  *)
RotationInv ==
    /\ \A t \in Tokens :
         /\ refresh[t].exchanged > 0 => refresh[t].state = "blacklisted"
         /\ refresh[t].exchanged + Cardinality(Exchanging(t)) <= Cardinality(Requests)
    /\ \A r \in Requests :
         /\ call[r].op = "refresh" => refresh[call[r].token].state # "unminted"
         /\ pc[r] = "reply" => refresh[call[r].token].state = "blacklisted"
         /\ call[r].op = "refresh" /\ call[r].replay =>
              pc[r] \in {"parse", "verify"} /\ refresh[call[r].token].exchanged > 0

(* Nobody has a token before the address is verified.                      *)
TokensInv ==
    /\ \A t \in Tokens : refresh[t].state # "unminted" => account.verified
    /\ access # {} => account.verified
    /\ \A r \in Requests : pc[r] = "mint" => account.verified

(* A thread past a check was entitled to pass it at some moment since its  *)
(* request arrived.                                                        *)
SinceInv ==
    \A r \in Requests :
        /\ pc[r] # "idle" => account \in since[r]
        /\ pc[r] \in {"profile", "mint", "spend", "reply", "object"} =>
             \E a \in since[r] : a.active
        /\ pc[r] = "permission" /\ call[r].token # NoToken =>
             \E a \in since[r] : a.active
        /\ pc[r] = "mint" => \E a \in since[r] : a.verified
        /\ pc[r] = "object" =>
             \E a \in since[r] : Needs[call[r].endpoint] \in a.groups \cup {Anyone}

(* Why the properties below hold: the inductive invariant of               *)
(* SessionsProofs.                                                         *)
SessionInv == TypeOK /\ StepsOfCalls /\ RotationInv /\ TokensInv /\ SinceInv

Ended(r) == call[r] # NoCall /\ call'[r] = NoCall

(* Rotation and blacklisting (SIMPLE_JWT): a refresh token sent again      *)
(* after it has been exchanged buys nothing.  Only requests that overlap   *)
(* the first exchange can share in it, since the blacklist is read before  *)
(* it is written.                                                          *)
ReplayIsRefused ==
    [][\A r \in Requests :
         Ended(r) /\ call[r].op = "refresh" /\ call[r].replay => answer' # Ok]_vars

(* permissions.py and LoginSerializer: success is answered only if, at     *)
(* some moment since the request arrived, the account was active, its      *)
(* address verified (login) and the account in the group the endpoint      *)
(* needs, whatever its tokens claim.                                       *)
ServedIsEntitled ==
    [][\A r \in Requests : Ended(r) /\ answer' = Ok =>
         /\ \E a \in since[r] : a.active
         /\ call[r].op = "login" => \E a \in since[r] : a.verified
         /\ call[r].op = "api" =>
              \E a \in since[r] : Needs[call[r].endpoint] \in a.groups \cup {Anyone}]_vars

(* exceptions.py: the code of a refusal names its true reason, so a client *)
(* that acts on it (asks for a token, refreshes one, gives up) does right. *)
RefusalsAreTrue ==
    [][\A r \in Requests : Ended(r) =>
         /\ answer'.code = "not_authenticated" => call[r].token = NoToken
         /\ answer'.code = "token_not_valid" =>
              \/ call[r].op = "refresh" /\ refresh[call[r].token].state = "blacklisted"
              \/ call[r].op = "refresh" /\ Expired(refresh[call[r].token])
              \/ call[r].op = "api" /\ Expired(call[r].token)
         /\ answer'.code \in {"authentication_failed", "no_active_account"} =>
              \E a \in since[r] : ~a.active
         /\ answer'.code = "email_not_verified" => \E a \in since[r] : ~a.verified
         /\ answer'.code = "permission_denied" =>
              \/ pc[r] = "object" /\ call[r].endpoint \in Fetching   \* not its owner
              \/ \E a \in since[r] : Needs[call[r].endpoint] \notin a.groups \cup {Anyone}]_vars
=============================================================================
