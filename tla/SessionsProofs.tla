--------------------------- MODULE SessionsProofs ---------------------------
(***************************************************************************)
(* Sessions, proved for any number of threads and refresh tokens, any      *)
(* lifetimes and any edits of the account.  SessionInv is inductive; what  *)
(* rotation, the permissions and the error contract promise follows.       *)
(***************************************************************************)
EXTENDS Sessions, FiniteSetTheorems, TLAPS

Names == {"idle", "route", "authenticate", "parse", "account", "profile", "mint",
          "verify", "owner", "spend", "reply", "permission", "object"}

(* One thread's part of Next.                                              *)
Step(r) ==
    \/ Receive(r) \/ Crash(r) \/ Unrouted(r)
    \/ AuthenticateToken(r) \/ Parse(r)
    \/ Login(r) \/ Refresh(r) \/ Authorize(r)

----------------------------------------------------------------------------
(* The error contract                                                      *)

(* What each exception the steps raise is on the wire.                     *)
LEMMA TextResolved ==
    ASSUME NEW exc, NEW c, exc.codes = Text(c), c \notin {"error", "invalid"}
    PROVE  Resolve(exc) = c
<1>1. Text(c).form = "text" /\ Text(c).value = c  BY DEF Text
<1>2. OfDict(exc.codes) = Text(c)  BY <1>1 DEF OfDict
<1>3. OfList(Text(c)) = Text(c)  BY <1>1 DEF OfList
<1>4. QED  BY <1>1, <1>2, <1>3 DEF Resolve

LEMMA DictResolved ==
    ASSUME NEW exc, NEW c, exc.codes = Dict(Text(c), Text(c), Text(c)),
           c \notin {"error", "invalid"}
    PROVE  Resolve(exc) = c
<1>1. Text(c).form = "text" /\ Text(c).value = c  BY DEF Text
<1>2. exc.codes.form = "dict" /\ exc.codes.detail = Text(c)  BY DEF Dict
<1>3. Truthy(Text(c))
  <2>1. Absent.form = "absent" /\ List(<<>>).form = "list"  BY DEF Absent, List
  <2>2. QED  BY <1>1, <2>1 DEF Truthy
<1>4. OfDict(exc.codes) = Text(c)  BY <1>2, <1>3 DEF OfDict
<1>5. OfList(Text(c)) = Text(c)  BY <1>1 DEF OfList
<1>6. QED  BY <1>1, <1>4, <1>5 DEF Resolve

LEMMA ApiHandled ==
    ASSUME NEW status, NEW codes
    PROVE  Handled(Api(status, codes)) = Response(status, Resolve(Api(status, codes)))
<1>1. Api(status, codes).class = "api" /\ Api(status, codes).status = status
  BY DEF Api
<1>2. Converted(Api(status, codes)) = Api(status, codes)
  BY <1>1 DEF Converted
<1>3. QED  BY <1>1, <1>2 DEF Handled

LEMMA TextHandled ==
    ASSUME NEW status, NEW c, c \notin {"error", "invalid"}
    PROVE  Handled(Api(status, Text(c))) = Response(status, c)
<1>1. Api(status, Text(c)).codes = Text(c)  BY DEF Api
<1>2. QED  BY <1>1, ApiHandled, TextResolved

LEMMA Codes ==
    /\ \A c \in {"token_not_valid", "authentication_failed"} :
          Handled(TokenError(c)) = Response(401, c)
    /\ \A c \in DOMAIN FrameworkStatus : Handled(Framework(c)) = Response(FrameworkStatus[c], c)
    /\ \A c \in DOMAIN DomainStatus : Handled(DomainError(c)) = Response(DomainStatus[c], c)
    /\ Handled(ValidationError) = Response(400, "validation_error")
    /\ Handled(Http404) = Response(404, "not_found")
    /\ Handled(DjangoPermissionDenied) = Response(403, "permission_denied")
    /\ Handled(Unhandled) = Response(500, "server_error")
<1>1. ASSUME NEW c \in {"token_not_valid", "authentication_failed"}
      PROVE  Handled(TokenError(c)) = Response(401, c)
  <2>1. TokenError(c).codes = Dict(Text(c), Text(c), Text(c))  BY DEF TokenError, Api
  <2>2. Resolve(TokenError(c)) = c  BY <2>1, DictResolved
  <2>3. QED  BY <2>2, ApiHandled DEF TokenError
<1>2. ASSUME NEW c \in DOMAIN FrameworkStatus
      PROVE  Handled(Framework(c)) = Response(FrameworkStatus[c], c)
  <2>1. c \notin {"error", "invalid"}  BY DEF FrameworkStatus
  <2>2. QED  BY <2>1, TextHandled DEF Framework
<1>3. ASSUME NEW c \in DOMAIN DomainStatus
      PROVE  Handled(DomainError(c)) = Response(DomainStatus[c], c)
  <2>1. c \notin {"error", "invalid"}  BY DEF DomainStatus
  <2>2. QED  BY <2>1, TextHandled DEF DomainError
<1>4. Handled(ValidationError) = Response(400, "validation_error")
  <2>1. ValidationError.class = "validation" /\ ValidationError.status = 400
    BY DEF ValidationError
  <2>2. Converted(ValidationError) = ValidationError  BY <2>1 DEF Converted
  <2>3. QED  BY <2>1, <2>2 DEF Handled
<1>5. Handled(Http404) = Response(404, "not_found")
  <2>1. Http404.class = "http404"  BY DEF Http404
  <2>2. Converted(Http404) = Framework("not_found")  BY <2>1 DEF Converted
  <2>3. "not_found" \in DOMAIN FrameworkStatus /\ FrameworkStatus["not_found"] = 404
    BY DEF FrameworkStatus
  <2>4. Framework("not_found").class = "api"  BY DEF Framework, Api
  <2>5. Converted(Framework("not_found")) = Framework("not_found")
    BY <2>4 DEF Converted
  <2>6. Handled(Http404) = Handled(Framework("not_found"))
    BY <2>2, <2>5 DEF Handled
  <2>7. QED  BY <1>2, <2>3, <2>6
<1>6. Handled(DjangoPermissionDenied) = Response(403, "permission_denied")
  <2>1. DjangoPermissionDenied.class = "denied"  BY DEF DjangoPermissionDenied
  <2>2. Converted(DjangoPermissionDenied) = Framework("permission_denied")
    BY <2>1 DEF Converted
  <2>3. /\ "permission_denied" \in DOMAIN FrameworkStatus
        /\ FrameworkStatus["permission_denied"] = 403
    BY DEF FrameworkStatus
  <2>4. Framework("permission_denied").class = "api"  BY DEF Framework, Api
  <2>5. Converted(Framework("permission_denied")) = Framework("permission_denied")
    BY <2>4 DEF Converted
  <2>6. Handled(DjangoPermissionDenied) = Handled(Framework("permission_denied"))
    BY <2>2, <2>5 DEF Handled
  <2>7. QED  BY <1>2, <2>3, <2>6
<1>7. Handled(Unhandled) = Response(500, "server_error")
  <2>1. Unhandled.class = "other"  BY DEF Unhandled
  <2>2. Converted(Unhandled) = Unhandled  BY <2>1 DEF Converted
  <2>3. QED  BY <2>1, <2>2 DEF Handled, ServerError
<1>8. QED  BY <1>1, <1>2, <1>3, <1>4, <1>5, <1>6, <1>7

(* exception_handler: whatever an endpoint raises is answered with the     *)
(* exception's own status; an error of the domain or of the framework and  *)
(* a bad token with its own code too (_resolve_code loses none); and every *)
(* code is one that ErrorCode lists, but for four of the framework's.      *)
THEOREM RefusalsKeepTheirCode ==
    \A exc \in Raised :
        /\ Handled(exc).status = exc.status
        /\ \A c \in DOMAIN DomainStatus : exc = DomainError(c) => Handled(exc).code = c
        /\ \A c \in DOMAIN FrameworkStatus : exc = Framework(c) => Handled(exc).code = c
        /\ \A c \in {"token_not_valid", "authentication_failed"} :
              exc = TokenError(c) => Handled(exc).code = c
        /\ Handled(exc).code \in ErrorCode
              \cup {"parse_error", "no_active_account", "not_acceptable",
                    "unsupported_media_type"}
<1>1. TAKE exc \in Raised
<1>2. /\ \A c \in DOMAIN DomainStatus : exc = DomainError(c) => Handled(exc).code = c
      /\ \A c \in DOMAIN FrameworkStatus : exc = Framework(c) => Handled(exc).code = c
      /\ \A c \in {"token_not_valid", "authentication_failed"} :
            exc = TokenError(c) => Handled(exc).code = c
  BY Codes DEF Response
<1> DEFINE Right == /\ Handled(exc).status = exc.status
                    /\ Handled(exc).code \in ErrorCode
                          \cup {"parse_error", "no_active_account", "not_acceptable",
                                "unsupported_media_type"}
<1>3. ASSUME NEW c \in DOMAIN DomainStatus, exc = DomainError(c)  PROVE Right
  <2>1. Handled(exc) = Response(DomainStatus[c], c)
    BY <1>3, Codes
  <2>2. exc.status = DomainStatus[c]
    BY <1>3 DEF DomainError, Api
  <2>3. c \in ErrorCode
    BY DEF DomainStatus, ErrorCode
  <2>4. QED  BY <2>1, <2>2, <2>3 DEF Response
<1>4. ASSUME NEW c \in DOMAIN FrameworkStatus, exc = Framework(c)  PROVE Right
  <2>1. Handled(exc) = Response(FrameworkStatus[c], c)
    BY <1>4, Codes
  <2>2. exc.status = FrameworkStatus[c]
    BY <1>4 DEF Framework, Api
  <2>3. c \in ErrorCode \cup {"parse_error", "no_active_account", "not_acceptable",
                              "unsupported_media_type"}
    BY DEF FrameworkStatus, ErrorCode
  <2>4. QED  BY <2>1, <2>2, <2>3 DEF Response
<1>5. ASSUME NEW c \in {"token_not_valid", "authentication_failed"}, exc = TokenError(c)
      PROVE  Right
  <2>1. Handled(exc) = Response(401, c)
    BY <1>5, Codes
  <2>2. exc.status = 401 /\ c \in ErrorCode
    BY <1>5 DEF TokenError, Api, ErrorCode
  <2>3. QED  BY <2>1, <2>2 DEF Response
<1>6. ASSUME exc \in {ValidationError, Http404, DjangoPermissionDenied, Unhandled}
      PROVE  Right
  <2>1. CASE exc = ValidationError
    BY <2>1, Codes DEF ValidationError, Response, ErrorCode
  <2>2. CASE exc = Http404
    BY <2>2, Codes DEF Http404, Response, ErrorCode
  <2>3. CASE exc = DjangoPermissionDenied
    BY <2>3, Codes DEF DjangoPermissionDenied, Response, ErrorCode
  <2>4. CASE exc = Unhandled
    BY <2>4, Codes DEF Unhandled, Response, ErrorCode
  <2>5. QED  BY <1>6, <2>1, <2>2, <2>3, <2>4
<1>7. Right
  BY <1>3, <1>4, <1>5, <1>6 DEF Raised
<1>8. QED  BY <1>2, <1>7

(* No refusal is answered like success, and none like silence.             *)
LEMMA Refusals ==
    /\ \A exc \in Raised : Handled(exc) \in Responses
    /\ {Ok, UrlNotFound} \subseteq Responses
    /\ \A c \in {"token_not_valid", "authentication_failed"} : TokenError(c) \in Raised
    /\ \A c \in DOMAIN FrameworkStatus : Framework(c) \in Raised
    /\ \A c \in DOMAIN DomainStatus : DomainError(c) \in Raised
    /\ {ValidationError, Http404, Unhandled} \subseteq Raised
BY DEF Raised, Responses

----------------------------------------------------------------------------
(* Steps of a thread                                                       *)

LEMMA SendableTyped ==
    ASSUME TypeOK, NEW c \in Sendable
    PROVE  /\ c \in Call /\ c # NoCall
           /\ \/ c.op = "login" /\ FirstStep(c) = "parse"
              \/ /\ c.op = "refresh" /\ FirstStep(c) = "parse" /\ c.token \in Tokens
                 /\ refresh[c.token].state # "unminted"
                 /\ c.replay <=> refresh[c.token].exchanged > 0
              \/ /\ c.op = "api" /\ FirstStep(c) = "authenticate"
                 /\ c.token \in AccessToken \cup {NoToken} /\ c.endpoint \in Endpoints
              \/ c.op = "no_route" /\ FirstStep(c) = "route"
<1>1. CASE c \in LoginCall
  BY <1>1 DEF LoginCall, Call, NoCall, FirstStep
<1>2. CASE c \in LostCall
  BY <1>2 DEF LostCall, Call, NoCall, FirstStep
<1>3. ASSUME NEW t \in Tokens, refresh[t].state # "unminted",
             c = [op |-> "refresh", token |-> t, replay |-> refresh[t].exchanged > 0]
      PROVE  /\ c \in RefreshCall /\ c # NoCall /\ c.op = "refresh" /\ FirstStep(c) = "parse"
             /\ c.token \in Tokens /\ refresh[c.token].state # "unminted"
             /\ c.replay <=> refresh[c.token].exchanged > 0
  <2> DEFINE b == refresh[t].exchanged > 0
  <2>1. b \in BOOLEAN  OBVIOUS
  <2>2. c = [op |-> "refresh", token |-> t, replay |-> b]  BY <1>3
  <2> HIDE DEF b
  <2>3. c.op = "refresh" /\ c.token = t /\ c.replay = b  BY <2>2
  <2>4. c \in RefreshCall  BY <2>1, <2>2 DEF RefreshCall
  <2>5. c # NoCall /\ FirstStep(c) = "parse"  BY <2>3 DEF NoCall, FirstStep
  <2>6. QED  BY <1>3, <2>3, <2>4, <2>5 DEF b
<1>4. CASE c \in [op: {"api"}, token: access \cup {NoToken}, endpoint: Endpoints]
  BY <1>4 DEF TypeOK, ApiCall, Call, NoCall, FirstStep
<1>5. QED  BY <1>1, <1>2, <1>3, <1>4 DEF Sendable, Call

LEMMA CallTyped ==
    ASSUME TypeOK, NEW r \in Requests
    PROVE  /\ call[r].op = "refresh" => call[r].token \in Tokens /\ call[r].replay \in BOOLEAN
           /\ call[r].op = "api" => /\ call[r].token \in AccessToken \cup {NoToken}
                                    /\ call[r].endpoint \in Endpoints
BY DEF TypeOK, Call, LoginCall, RefreshCall, ApiCall, LostCall, NoCall

LEMMA LocalForms ==
    ASSUME TypeOK, NEW r \in Requests, Step(r)
    PROVE  /\ pc' = [pc EXCEPT ![r] = pc'[r]] /\ call' = [call EXCEPT ![r] = call'[r]]
           /\ since' = [since EXCEPT ![r] = since'[r]]
<1>1. \E step : pc' = [pc EXCEPT ![r] = step]
  BY DEF Step, Login, Refresh, Authorize, Receive, Crash, Unrouted, AuthenticateToken, Parse,
         LoginAccount, LoginProfile, LoginMint, RefreshVerify, RefreshOwner, RefreshSpend,
         RefreshReply, Permission, Object, Goto, Fail, Finish
<1>2. call' = call \/ \E c : call' = [call EXCEPT ![r] = c]
  BY DEF Step, Login, Refresh, Authorize, Receive, Crash, Unrouted, AuthenticateToken, Parse,
         LoginAccount, LoginProfile, LoginMint, RefreshVerify, RefreshOwner, RefreshSpend,
         RefreshReply, Permission, Object, Goto, Fail, Finish
<1>3. since' = since \/ \E S : since' = [since EXCEPT ![r] = S]
  BY DEF Step, Login, Refresh, Authorize, Receive, Crash, Unrouted, AuthenticateToken, Parse,
         LoginAccount, LoginProfile, LoginMint, RefreshVerify, RefreshOwner, RefreshSpend,
         RefreshReply, Permission, Object, Goto, Fail, Finish
<1>4. QED  BY <1>1, <1>2, <1>3 DEF TypeOK

LEMMA OthersUntouched ==
    ASSUME TypeOK, NEW r \in Requests, NEW q \in Requests, q # r, Step(r)
    PROVE  pc'[q] = pc[q] /\ call'[q] = call[q] /\ since'[q] = since[q]
BY LocalForms DEF TypeOK

(* What the endpoints write.                                               *)
LEMMA DataStep ==
    ASSUME NEW r \in Requests, Step(r)
    PROVE  /\ now' = now /\ account' = account /\ edits' = edits
           /\ \/ refresh' = refresh /\ access' = access
              \/ LoginMint(r) \/ RefreshSpend(r) \/ RefreshReply(r)
BY DEF Step, Login, Refresh, Authorize, Receive, Crash, Unrouted, AuthenticateToken, Parse,
       LoginAccount, LoginProfile, LoginMint, RefreshVerify, RefreshOwner, RefreshSpend,
       RefreshReply, Permission, Object, Data

(* A request arrives, is answered, or passes a check.                      *)
Arrives(r) ==
    /\ pc[r] = "idle" /\ call'[r] \in Sendable /\ pc'[r] = FirstStep(call'[r])
    /\ since'[r] = {account} /\ refresh' = refresh /\ access' = access

Leaves(r) == pc[r] # "idle" /\ pc'[r] = "idle" /\ call'[r] = NoCall /\ since'[r] = {}

Passes(r) ==
    /\ call'[r] = call[r] /\ since'[r] = since[r]
    /\ \/ /\ pc[r] = "authenticate" /\ pc'[r] = "permission"
          /\ call[r].token = NoToken \/ account.active
       \/ pc[r] = "parse" /\ pc'[r] = IF call[r].op = "login" THEN "account" ELSE "verify"
       \/ pc[r] = "account" /\ pc'[r] = "profile" /\ account.active
       \/ pc[r] = "profile" /\ pc'[r] = "mint" /\ account.verified
       \/ /\ pc[r] = "verify" /\ pc'[r] = "owner"
          /\ refresh[call[r].token].state # "blacklisted"
       \/ pc[r] = "owner" /\ pc'[r] = "spend" /\ account.active
       \/ pc[r] = "spend" /\ pc'[r] = "reply" /\ RefreshSpend(r)
       \/ /\ pc[r] = "permission" /\ pc'[r] = "object" /\ call[r].token # NoToken
          /\ InRole(r, Needs[call[r].endpoint])
          /\ call[r].endpoint \in Fetching \cup Querying

LEMMA ThreadStep ==
    ASSUME TypeOK, NEW r \in Requests, Step(r)
    PROVE  \/ Arrives(r) /\ answer' = NoAnswer
           \/ Leaves(r) /\ answer' \in Responses \cup {NoAnswer}
           \/ Passes(r) /\ answer' = NoAnswer
<1> USE DEF TypeOK
<1>1. CASE Receive(r)
  BY <1>1 DEF Receive, Arrives, Data
<1>2. ASSUME NEW a, Finish(r, a), pc[r] # "idle", a \in Responses \cup {NoAnswer}
      PROVE  Leaves(r) /\ answer' \in Responses \cup {NoAnswer}
  BY <1>2 DEF Finish, Leaves
<1>3. ASSUME NEW exc \in Raised, Fail(r, exc), pc[r] # "idle"
      PROVE  Leaves(r) /\ answer' \in Responses \cup {NoAnswer}
  BY <1>2, <1>3, Refusals DEF Fail
<1>4. CASE Crash(r) \/ Unrouted(r)
  BY <1>2, <1>4, Refusals DEF Crash, Unrouted
<1>5. CASE AuthenticateToken(r)
  <2>1. CASE Fail(r, TokenError("token_not_valid")) \/ Fail(r, TokenError("authentication_failed"))
    BY <1>3, <1>5, <2>1, Refusals DEF AuthenticateToken
  <2>2. CASE Goto(r, "permission") /\ (call[r].token = NoToken \/ account.active)
    BY <1>5, <2>2 DEF AuthenticateToken, Goto, Passes
  <2>3. QED  BY <1>5, <2>1, <2>2 DEF AuthenticateToken
<1>6. CASE Parse(r)
  <2>1. CASE Fail(r, Framework("parse_error")) \/ Fail(r, ValidationError)
    BY <1>3, <1>6, <2>1, Refusals DEF Parse, FrameworkStatus
  <2>2. CASE Goto(r, IF call[r].op = "login" THEN "account" ELSE "verify")
    BY <1>6, <2>2 DEF Parse, Goto, Passes
  <2>3. QED  BY <1>6, <2>1, <2>2 DEF Parse
<1>7. CASE LoginAccount(r) \/ LoginProfile(r)
  <2>1. CASE \E c \in {"invalid_credentials", "email_not_verified"} : Fail(r, DomainError(c))
    BY <1>3, <1>7, <2>1, Refusals DEF LoginAccount, LoginProfile, DomainStatus
  <2>2. CASE ~\E c \in {"invalid_credentials", "email_not_verified"} : Fail(r, DomainError(c))
    BY <1>7, <2>2 DEF LoginAccount, LoginProfile, Goto, Passes
  <2>3. QED  BY <2>1, <2>2
<1>8. CASE LoginMint(r) \/ RefreshReply(r)
  BY <1>2, <1>8, Refusals DEF LoginMint, RefreshReply
<1>9. CASE RefreshVerify(r) \/ RefreshOwner(r) \/ RefreshSpend(r)
  <2>1. CASE Fail(r, TokenError("token_not_valid")) \/ Fail(r, Framework("no_active_account"))
    BY <1>3, <1>9, <2>1, Refusals
       DEF RefreshVerify, RefreshOwner, RefreshSpend, FrameworkStatus
  <2>2. CASE ~(Fail(r, TokenError("token_not_valid")) \/ Fail(r, Framework("no_active_account")))
    BY <1>9, <2>2 DEF RefreshVerify, RefreshOwner, RefreshSpend, Goto, Passes
  <2>3. QED  BY <2>1, <2>2
<1>10. CASE Permission(r)
  <2>1. CASE \E c \in {"not_authenticated", "permission_denied", "method_not_allowed"} :
               Fail(r, Framework(c))
    BY <1>3, <1>10, <2>1, Refusals DEF Permission, FrameworkStatus
  <2>2. CASE Finish(r, Ok)
    BY <1>2, <1>10, <2>2, Refusals DEF Permission
  <2>3. CASE /\ Goto(r, "object") /\ call[r].token # NoToken
             /\ InRole(r, Needs[call[r].endpoint]) /\ call[r].endpoint \in Fetching \cup Querying
    BY <1>10, <2>3 DEF Permission, Goto, Passes
  <2>4. QED  BY <1>10, <2>1, <2>2, <2>3 DEF Permission
<1>11. CASE Object(r)
  <2>1. \/ Finish(r, Ok) \/ Fail(r, Http404) \/ Fail(r, Unhandled)
        \/ \E c \in {"permission_denied", "not_found"} : Fail(r, Framework(c))
        \/ Fail(r, DomainError("not_enrolled"))
    BY <1>11 DEF Object, NoEvent
  <2>2. pc[r] # "idle"  BY <1>11 DEF Object
  <2>3. QED  BY <1>2, <1>3, <2>1, <2>2, Refusals DEF FrameworkStatus, DomainStatus
<1>12. QED
  BY <1>1, <1>4, <1>5, <1>6, <1>7, <1>8, <1>9, <1>10, <1>11 DEF Step, Login, Refresh, Authorize

----------------------------------------------------------------------------
(* Type correctness                                                        *)

LEMMA LifetimesTyped ==
    AccessLifetime \in Nat /\ RefreshLifetime \in Nat
BY SessionAssumption DEF SessionAssumption

LEMMA MintedTyped == ASSUME TypeOK  PROVE Minted \in RefreshToken
BY LifetimesTyped DEF TypeOK, Minted, RefreshToken

(* The rows a rotation leaves: a new token, and the one it was bought for. *)
LEMMA ReplyRows ==
    ASSUME TypeOK, StepsOfCalls, RotationInv, NEW r \in Requests, RefreshReply(r)
    PROVE  LET token == call[r].token IN
           /\ token \in Tokens
           /\ \E fresh \in Tokens :
                /\ fresh # token /\ refresh[fresh].state = "unminted"
                /\ refresh' \in [Tokens -> RefreshToken]
                /\ refresh'[fresh] = Minted
                /\ refresh'[token] = [refresh[token] EXCEPT !.exchanged = @ + 1]
                /\ \A t \in Tokens \ {fresh, token} : refresh'[t] = refresh[t]
<1> DEFINE token == call[r].token
<1>1. token \in Tokens /\ refresh[token].state # "unminted"
  BY CallTyped DEF RefreshReply, StepsOfCalls, RotationInv
<1>2. PICK fresh \in Tokens :
        /\ refresh[fresh].state = "unminted"
        /\ refresh' = [refresh EXCEPT ![fresh] = Minted, ![token].exchanged = @ + 1]
  BY DEF RefreshReply, MintPair
<1>3. fresh # token  BY <1>1, <1>2
<1>4. Minted \in RefreshToken /\ refresh \in [Tokens -> RefreshToken]
  BY MintedTyped DEF TypeOK
<1>5. [refresh[token] EXCEPT !.exchanged = @ + 1] \in RefreshToken
  BY <1>1, <1>4 DEF RefreshToken
<1> HIDE DEF token
<1>6. refresh' = [t \in Tokens |->
                    IF t = token THEN [refresh[token] EXCEPT !.exchanged = @ + 1]
                    ELSE IF t = fresh THEN Minted ELSE refresh[t]]
  BY <1>1, <1>2, <1>3, <1>4
<1>7. refresh' \in [Tokens -> RefreshToken]
  BY <1>4, <1>5, <1>6
<1>8. QED  BY <1>1, <1>2, <1>3, <1>6, <1>7 DEF token

LEMMA DataTyped ==
    ASSUME TypeOK, StepsOfCalls, RotationInv, NEW r \in Requests, Step(r)
    PROVE  refresh' \in [Tokens -> RefreshToken] /\ access' \subseteq AccessToken
<1>1. CASE refresh' = refresh /\ access' = access
  BY <1>1 DEF TypeOK
<1>2. CASE LoginMint(r) \/ RefreshReply(r)
  <2>1. [expires |-> now + AccessLifetime, role |-> account.role] \in AccessToken
    BY LifetimesTyped DEF TypeOK, AccessToken, Account
  <2>2. access' \subseteq AccessToken
    BY <1>2, <2>1 DEF LoginMint, RefreshReply, MintPair, TypeOK
  <2>3. CASE LoginMint(r)
    BY <2>2, <2>3, MintedTyped DEF LoginMint, TypeOK
  <2>4. CASE RefreshReply(r)
    BY <2>2, <2>4, ReplyRows
  <2>5. QED  BY <1>2, <2>3, <2>4
<1>3. CASE RefreshSpend(r)
  <2>1. \A x \in RefreshToken : [x EXCEPT !.state = "blacklisted"] \in RefreshToken
    BY DEF RefreshToken
  <2>2. QED  BY <1>3, <2>1 DEF RefreshSpend, TypeOK
<1>4. QED  BY <1>1, <1>2, <1>3, DataStep

LEMMA LocalsTyped ==
    ASSUME TypeOK, NEW r \in Requests, Step(r)
    PROVE  /\ call' \in [Requests -> Call \cup {NoCall}] /\ pc' \in [Requests -> Names]
           /\ since' \in [Requests -> SUBSET Account]
           /\ answer' \in Responses \cup {NoAnswer}
<1>1. pc'[r] \in Names /\ call'[r] \in Call \cup {NoCall} /\ since'[r] \in SUBSET Account
  <2>1. CASE Arrives(r)
    BY <2>1, SendableTyped DEF Arrives, Names, TypeOK
  <2>2. CASE Leaves(r)
    BY <2>2 DEF Leaves, Names
  <2>3. CASE Passes(r)
    BY <2>3 DEF Passes, Names, TypeOK
  <2>4. QED  BY <2>1, <2>2, <2>3, ThreadStep
<1>2. QED  BY <1>1, LocalForms, ThreadStep DEF TypeOK, Names

LEMMA EditStep ==
    ASSUME TypeOK, Edit \/ VerifyEmail
    PROVE  /\ account' \in Account /\ edits' \in Nat
           /\ (account.verified => account'.verified)
           /\ now' = now /\ refresh' = refresh /\ access' = access /\ call' = call /\ pc' = pc
           /\ answer' = NoAnswer
           /\ since' = [r \in Requests |-> IF pc[r] = "idle" THEN {} ELSE since[r] \cup {account'}]
<1>1. account \in Account /\ edits \in Nat  BY DEF TypeOK
<1>2. CASE Edit
  <2>1. [account EXCEPT !.active = ~@] \in Account
    BY <1>1 DEF Account
  <2>2. ASSUME NEW g \in SUBSET Role  PROVE [account EXCEPT !.groups = g] \in Account
    BY <1>1 DEF Account
  <2>3. /\ [account EXCEPT !.active = ~@].verified = account.verified
        /\ \A g : [account EXCEPT !.groups = g].verified = account.verified
    BY <1>1 DEF Account
  <2>4. account' \in Account /\ account'.verified = account.verified
    BY <1>2, <2>1, <2>2, <2>3 DEF Edit
  <2>5. QED  BY <1>1, <1>2, <2>4 DEF Edit, Witnessed
<1>3. CASE VerifyEmail
  BY <1>1, <1>3 DEF VerifyEmail, Account, Witnessed
<1>4. QED  BY <1>2, <1>3

LEMMA TypeStep ==
    ASSUME TypeOK, StepsOfCalls, RotationInv, [Next]_vars  PROVE TypeOK'
<1>1. ASSUME NEW r \in Requests, Step(r)  PROVE TypeOK'
  BY <1>1, DataStep, DataTyped, LocalsTyped DEF TypeOK, Names
<1>2. CASE Edit \/ VerifyEmail
  BY <1>2, EditStep DEF TypeOK
<1>3. CASE Tick \/ UNCHANGED vars
  BY <1>3 DEF Tick, vars, TypeOK
<1>4. QED  BY <1>1, <1>2, <1>3 DEF Next, Step

----------------------------------------------------------------------------
(* The conjuncts of SessionInv                                             *)

LEMMA StepsOfCallsStep ==
    ASSUME TypeOK, StepsOfCalls, [Next]_vars  PROVE StepsOfCalls'
<1> DEFINE Coherent(p, c) ==
             /\ p = "idle" <=> c = NoCall
             /\ p = "route" => c.op = "no_route"
             /\ p = "parse" => c.op \in {"login", "refresh"}
             /\ p \in {"account", "profile", "mint"} => c.op = "login"
             /\ p \in {"verify", "owner", "spend", "reply"} => c.op = "refresh"
             /\ p \in {"authenticate", "permission", "object"} => c.op = "api"
<1>1. ASSUME NEW r \in Requests, Step(r), NEW q \in Requests  PROVE Coherent(pc'[q], call'[q])
  <2>1. CASE q # r
    BY <1>1, <2>1, OthersUntouched DEF StepsOfCalls
  <2>2. CASE Arrives(r)
    BY <2>1, <2>2, SendableTyped DEF Arrives
  <2>3. CASE Leaves(r)
    BY <2>1, <2>3 DEF Leaves
  <2>4. CASE Passes(r)
    BY <2>1, <2>4 DEF Passes, StepsOfCalls
  <2>5. QED  BY <1>1, <2>2, <2>3, <2>4, ThreadStep
<1>2. CASE Edit \/ VerifyEmail
  BY <1>2, EditStep DEF StepsOfCalls
<1>3. CASE Tick \/ UNCHANGED vars
  BY <1>3 DEF Tick, vars, StepsOfCalls
<1>4. QED  BY <1>1, <1>2, <1>3 DEF Next, Step, StepsOfCalls

LEMMA SinceInvStep ==
    ASSUME SessionInv, [Next]_vars  PROVE SinceInv'
<1>0. TypeOK /\ StepsOfCalls /\ SinceInv /\ TypeOK'
  BY TypeStep DEF SessionInv
<1> DEFINE Entitled(p, c, S) ==
             /\ p \in {"profile", "mint", "spend", "reply", "object"} => \E a \in S : a.active
             /\ p = "permission" /\ c.token # NoToken => \E a \in S : a.active
             /\ p = "mint" => \E a \in S : a.verified
             /\ p = "object" => \E a \in S : Needs[c.endpoint] \in a.groups \cup {Anyone}
<1>1. \A q \in Requests : Entitled(pc[q], call[q], since[q])
  BY <1>0 DEF SinceInv
<1>2. ASSUME NEW r \in Requests, Step(r), NEW q \in Requests
      PROVE  /\ pc'[q] # "idle" => account' \in since'[q]
             /\ Entitled(pc'[q], call'[q], since'[q])
  <2>0. account' = account  BY <1>2, DataStep
  <2>1. CASE q # r
    BY <1>0, <1>1, <1>2, <2>0, <2>1, OthersUntouched DEF SinceInv
  <2>2. CASE q = r /\ Arrives(r)
    BY <1>0, <2>0, <2>2, SendableTyped DEF Arrives
  <2>3. CASE q = r /\ Leaves(r)
    BY <2>3 DEF Leaves
  <2>4. CASE q = r /\ Passes(r)
    <3>1. account \in since[r] /\ Entitled(pc[r], call[r], since[r])
      BY <1>0, <1>1, <2>4 DEF Passes, SinceInv
    <3>2. QED  BY <2>0, <2>4, <3>1 DEF Passes, InRole
  <2>5. QED  BY <1>0, <1>2, <2>1, <2>2, <2>3, <2>4, ThreadStep
<1>3. CASE Edit \/ VerifyEmail
  <2>1. \A q \in Requests : /\ pc'[q] = pc[q] /\ call'[q] = call[q]
                            /\ pc[q] # "idle" => since'[q] = since[q] \cup {account'}
    BY <1>0, <1>3, EditStep
  <2>2. QED  BY <1>0, <2>1 DEF SinceInv
<1>4. CASE Tick \/ UNCHANGED vars
  BY <1>0, <1>4 DEF Tick, vars, SinceInv
<1>5. QED  BY <1>2, <1>3, <1>4 DEF Next, Step, SinceInv

(* What a step does to one refresh token.                                  *)
LEMMA TokenStep ==
    ASSUME TypeOK, StepsOfCalls, RotationInv, NEW r \in Requests, Step(r), NEW t \in Tokens
    PROVE  \/ refresh'[t] = refresh[t]
           \/ /\ refresh[t].state = "unminted" /\ refresh'[t] = Minted
              /\ LoginMint(r) \/ RefreshReply(r)
           \/ /\ RefreshSpend(r) /\ t = call[r].token /\ refresh'[t].state = "blacklisted"
              /\ refresh'[t].exchanged = refresh[t].exchanged
           \/ /\ RefreshReply(r) /\ t = call[r].token /\ refresh'[t].state = "blacklisted"
              /\ refresh'[t].exchanged = refresh[t].exchanged + 1
<1>0. refresh \in [Tokens -> RefreshToken]  BY DEF TypeOK
<1>1. CASE LoginMint(r)
  BY <1>0, <1>1 DEF LoginMint, MintPair
<1>2. CASE RefreshSpend(r)
  <2>1. \A x \in RefreshToken : /\ [x EXCEPT !.state = "blacklisted"].state = "blacklisted"
                                /\ [x EXCEPT !.state = "blacklisted"].exchanged = x.exchanged
    BY DEF RefreshToken
  <2>2. QED  BY <1>0, <1>2, <2>1 DEF RefreshSpend
<1>3. CASE RefreshReply(r)
  <2>1. refresh[call[r].token].state = "blacklisted"
    BY <1>3 DEF RefreshReply, RotationInv
  <2>2. \A x \in RefreshToken : /\ [x EXCEPT !.exchanged = @ + 1].state = x.state
                                /\ [x EXCEPT !.exchanged = @ + 1].exchanged = x.exchanged + 1
    BY DEF RefreshToken
  <2>3. PICK fresh \in Tokens :
          /\ refresh[fresh].state = "unminted" /\ refresh'[fresh] = Minted
          /\ refresh'[call[r].token] = [refresh[call[r].token] EXCEPT !.exchanged = @ + 1]
          /\ \A u \in Tokens \ {fresh, call[r].token} : refresh'[u] = refresh[u]
    BY <1>3, ReplyRows
  <2>4. CASE t = call[r].token
    <3>1. refresh[t] \in RefreshToken  BY <1>0
    <3>2. QED  BY <1>3, <2>1, <2>2, <2>3, <2>4, <3>1
  <2>5. CASE t = fresh
    BY <1>3, <2>3, <2>5
  <2>6. CASE t \notin {fresh, call[r].token}
    BY <2>3, <2>6
  <2>7. QED  BY <2>4, <2>5, <2>6
<1>4. CASE refresh' = refresh
  BY <1>4
<1>5. QED  BY <1>1, <1>2, <1>3, <1>4, DataStep

(* Only RefreshVerify lets a thread start an exchange.                     *)
LEMMA ExchangingStep ==
    ASSUME TypeOK, StepsOfCalls, NEW r \in Requests, Step(r), NEW t \in Tokens
    PROVE  \/ Exchanging(t)' \subseteq Exchanging(t) \ (IF pc'[r] = "idle" THEN {r} ELSE {})
           \/ /\ t = call[r].token /\ pc[r] = "verify" /\ pc'[r] = "owner" /\ refresh' = refresh
              /\ refresh[t].state # "blacklisted" /\ Exchanging(t)' \subseteq Requests
<1>1. \A q \in Requests : q # r => (q \in Exchanging(t)' <=> q \in Exchanging(t))
  BY OthersUntouched DEF Exchanging
<1>2. CASE Arrives(r)
  <2>1. r \notin Exchanging(t)' /\ pc'[r] # "idle"
    BY <1>2, SendableTyped DEF Arrives, Exchanging
  <2>2. QED  BY <1>1, <2>1 DEF Exchanging
<1>3. CASE Leaves(r)
  <2>1. r \notin Exchanging(t)'  BY <1>3 DEF Leaves, Exchanging
  <2>2. QED  BY <1>1, <2>1 DEF Exchanging
<1>4. CASE Passes(r)
  <2>1. CASE pc[r] = "verify"
    <3>1. refresh' = refresh
      BY <2>1, DataStep DEF LoginMint, RefreshSpend, RefreshReply
    <3>2. QED  BY <1>1, <1>4, <2>1, <3>1 DEF Passes, Exchanging
  <2>2. CASE pc[r] # "verify"
    <3>1. r \in Exchanging(t)' => r \in Exchanging(t)
      BY <1>4, <2>2 DEF Passes, Exchanging
    <3>2. pc'[r] # "idle"  BY <1>4 DEF Passes
    <3>3. QED  BY <1>1, <3>1, <3>2 DEF Exchanging
  <2>3. QED  BY <2>1, <2>2
<1>5. QED  BY <1>2, <1>3, <1>4, ThreadStep

LEMMA RotationInvStep ==
    ASSUME SessionInv, [Next]_vars  PROVE RotationInv'
<1>0. TypeOK /\ StepsOfCalls /\ RotationInv /\ TypeOK' /\ StepsOfCalls'
  BY TypeStep, StepsOfCallsStep DEF SessionInv
<1>1. ASSUME NEW r \in Requests, Step(r)  PROVE RotationInv'
  <2>1. ASSUME NEW t \in Tokens
        PROVE  refresh'[t].exchanged > 0 => refresh'[t].state = "blacklisted"
    <3>1. Minted.exchanged = 0  BY DEF Minted
    <3>2. refresh[t].exchanged > 0 => refresh[t].state = "blacklisted"
      BY <1>0 DEF RotationInv
    <3>3. QED  BY <1>0, <1>1, <3>1, <3>2, TokenStep
  <2>2. ASSUME NEW t \in Tokens
        PROVE  refresh'[t].exchanged + Cardinality(Exchanging(t)') <= Cardinality(Requests)
    <3>1. /\ Exchanging(t) \in SUBSET Requests /\ Exchanging(t)' \in SUBSET Requests
          /\ IsFiniteSet(Requests)
      BY SessionAssumption DEF Exchanging, SessionAssumption
    <3>2. /\ IsFiniteSet(Exchanging(t)) /\ Cardinality(Exchanging(t)) \in Nat
          /\ Cardinality(Exchanging(t)') \in Nat /\ Cardinality(Requests) \in Nat
          /\ Cardinality(Exchanging(t)') <= Cardinality(Requests)
      BY <3>1, FS_Subset, FS_CardinalityType
    <3>3. /\ refresh[t].exchanged + Cardinality(Exchanging(t)) <= Cardinality(Requests)
          /\ refresh[t].exchanged \in Nat /\ refresh'[t].exchanged \in Nat
          /\ refresh[t].state # "blacklisted" => refresh[t].exchanged = 0
      BY <1>0 DEF RotationInv, TypeOK, RefreshToken
    <3>4. CASE refresh'[t].exchanged = 0
      BY <3>2, <3>4
    <3>5. CASE refresh'[t].exchanged = refresh[t].exchanged
      <4>1. CASE Exchanging(t)' \subseteq Exchanging(t)
        <5>1. Cardinality(Exchanging(t)') <= Cardinality(Exchanging(t))
          BY <3>2, <4>1, FS_Subset
        <5>2. QED  BY <3>2, <3>3, <3>5, <5>1
      <4>2. CASE refresh[t].state # "blacklisted"
        BY <3>3, <3>4, <3>5, <4>2
      <4>3. QED  BY <1>0, <1>1, <4>1, <4>2, ExchangingStep
    <3>6. CASE RefreshReply(r) /\ t = call[r].token
               /\ refresh'[t].exchanged = refresh[t].exchanged + 1
      <4>1. pc[r] = "reply" /\ pc'[r] = "idle" /\ call[r].op = "refresh"
        BY <1>0, <3>6 DEF RefreshReply, Finish, TypeOK, StepsOfCalls
      <4>2. r \in Exchanging(t)  BY <3>6, <4>1 DEF Exchanging
      <4>3. Exchanging(t)' \subseteq Exchanging(t) \ {r}
        BY <1>0, <1>1, <4>1, ExchangingStep
      <4>4. IsFiniteSet(Exchanging(t) \ {r})
            /\ Cardinality(Exchanging(t) \ {r}) = Cardinality(Exchanging(t)) - 1
        BY <3>2, <4>2, FS_RemoveElement
      <4>5. Cardinality(Exchanging(t)') <= Cardinality(Exchanging(t)) - 1
        BY <4>3, <4>4, FS_Subset
      <4>6. QED  BY <3>2, <3>3, <3>6, <4>5
    <3>7. Minted.exchanged = 0  BY DEF Minted
    <3>8. QED  BY <1>0, <1>1, <3>4, <3>5, <3>6, <3>7, TokenStep
  <2>3. ASSUME NEW t \in Tokens
        PROVE  /\ refresh[t].state # "unminted" => refresh'[t].state # "unminted"
               /\ refresh[t].state = "blacklisted" => refresh'[t].state = "blacklisted"
               /\ refresh[t].exchanged > 0 => refresh'[t].exchanged > 0
    <3>1. refresh[t].exchanged \in Nat  BY <1>0 DEF TypeOK, RefreshToken
    <3>2. Minted.state = "live"  BY DEF Minted
    <3>3. refresh[t].state = "unminted" => ~(refresh[t].exchanged > 0)
      BY <1>0 DEF RotationInv
    <3>4. QED  BY <1>0, <1>1, <3>1, <3>2, <3>3, TokenStep
  <2> DEFINE Fits(q, p, c, rows) ==
               /\ c.op = "refresh" => rows[c.token].state # "unminted"
               /\ p = "reply" => rows[c.token].state = "blacklisted"
               /\ c.op = "refresh" /\ c.replay =>
                    p \in {"parse", "verify"} /\ rows[c.token].exchanged > 0
  <2>4. \A q \in Requests : Fits(q, pc[q], call[q], refresh)
    BY <1>0 DEF RotationInv
  <2>5. ASSUME NEW q \in Requests, pc'[q] = pc[q] \/ pc'[q] = "verify", call'[q] = call[q]
        PROVE  Fits(q, pc'[q], call'[q], refresh')
    <3>1. call[q].op = "refresh" => call[q].token \in Tokens
      BY <1>0, CallTyped
    <3>2. pc[q] = "reply" => call[q].op = "refresh"
      BY <1>0 DEF StepsOfCalls
    <3>3. QED  BY <2>3, <2>4, <2>5, <3>1, <3>2
  <2>6. Fits(r, pc'[r], call'[r], refresh')
    <3>1. CASE Arrives(r)
      BY <1>0, <3>1, SendableTyped DEF Arrives
    <3>2. CASE Leaves(r)
      BY <3>2 DEF Leaves, NoCall
    <3>3. CASE Passes(r)
      <4>1. CASE pc[r] \notin {"parse", "verify", "spend"}
        <5>1. call'[r] = call[r] /\ pc'[r] # "reply" /\ ~(call[r].op = "refresh" /\ call[r].replay)
          BY <2>4, <3>3, <4>1 DEF Passes
        <5>2. call[r].op = "refresh" => call[r].token \in Tokens
          BY <1>0, CallTyped
        <5>3. QED  BY <2>3, <2>4, <5>1, <5>2
      <4>2. CASE pc[r] = "parse"
        BY <1>0, <2>4, <2>5, <3>3, <4>2 DEF Passes, StepsOfCalls
      <4>3. CASE pc[r] = "verify"
        <5>1. /\ call'[r] = call[r] /\ pc'[r] = "owner" /\ call[r].op = "refresh"
              /\ refresh[call[r].token].state # "blacklisted" /\ call[r].token \in Tokens
          BY <1>0, <3>3, <4>3, CallTyped DEF Passes, StepsOfCalls
        <5>2. ~(refresh[call[r].token].exchanged > 0)
          BY <1>0, <5>1 DEF RotationInv
        <5>3. QED  BY <2>3, <2>4, <5>1, <5>2
      <4>4. CASE pc[r] = "spend"
        <5>1. /\ call'[r] = call[r] /\ RefreshSpend(r) /\ call[r].op = "refresh"
              /\ call[r].token \in Tokens
          BY <1>0, <3>3, <4>4, CallTyped DEF Passes, StepsOfCalls
        <5>2. refresh'[call[r].token].state = "blacklisted"
          <6>1. \A x \in RefreshToken : [x EXCEPT !.state = "blacklisted"].state = "blacklisted"
            BY DEF RefreshToken
          <6>2. QED  BY <1>0, <5>1, <6>1 DEF RefreshSpend, TypeOK
        <5>3. ~call[r].replay
          BY <2>4, <4>4, <5>1
        <5>4. QED  BY <5>1, <5>2, <5>3
      <4>5. QED  BY <4>1, <4>2, <4>3, <4>4
    <3>4. QED  BY <1>0, <1>1, <3>1, <3>2, <3>3, ThreadStep
  <2>7. \A q \in Requests : Fits(q, pc'[q], call'[q], refresh')
    BY <1>0, <1>1, <2>5, <2>6, OthersUntouched
  <2>8. QED  BY <2>1, <2>2, <2>7 DEF RotationInv
<1>2. CASE Edit \/ VerifyEmail
  BY <1>0, <1>2, EditStep DEF RotationInv, Exchanging
<1>3. CASE Tick \/ UNCHANGED vars
  BY <1>0, <1>3 DEF Tick, vars, RotationInv, Exchanging
<1>4. QED  BY <1>1, <1>2, <1>3 DEF Next, Step

LEMMA TokensInvStep ==
    ASSUME SessionInv, [Next]_vars  PROVE TokensInv'
<1>0. TypeOK /\ StepsOfCalls /\ RotationInv /\ TokensInv
  BY DEF SessionInv
<1>1. ASSUME NEW r \in Requests, Step(r)  PROVE TokensInv'
  <2>1. account' = account  BY <1>1, DataStep
  <2>2. LoginMint(r) \/ RefreshReply(r) => account.verified
    <3>1. CASE LoginMint(r)
      BY <1>0, <3>1 DEF LoginMint, TokensInv
    <3>2. CASE RefreshReply(r)
      BY <1>0, <3>2, CallTyped DEF RefreshReply, StepsOfCalls, RotationInv, TokensInv
    <3>3. QED  BY <3>1, <3>2
  <2>3. ASSUME NEW t \in Tokens, refresh'[t].state # "unminted"  PROVE account.verified
    <3>1. CASE refresh[t].state # "unminted"
      BY <1>0, <3>1 DEF TokensInv
    <3>2. CASE RefreshSpend(r) /\ t = call[r].token
      BY <1>0, <3>2 DEF RefreshSpend, StepsOfCalls, RotationInv, TokensInv
    <3>3. QED  BY <1>0, <1>1, <2>2, <2>3, <3>1, <3>2, TokenStep
  <2>4. access' # {} => account.verified
    <3>1. CASE RefreshSpend(r)
      BY <1>0, <3>1 DEF RefreshSpend, TokensInv
    <3>2. QED  BY <1>0, <1>1, <2>2, <3>1, DataStep DEF TokensInv
  <2>5. ASSUME NEW q \in Requests, pc'[q] = "mint"  PROVE account.verified
    <3>1. CASE q # r
      BY <1>0, <1>1, <2>5, <3>1, OthersUntouched DEF TokensInv
    <3>2. CASE q = r
      BY <1>0, <1>1, <2>5, <3>2, ThreadStep, SendableTyped DEF Arrives, Leaves, Passes
    <3>3. QED  BY <3>1, <3>2
  <2>6. QED  BY <2>1, <2>3, <2>4, <2>5 DEF TokensInv
<1>2. CASE Edit \/ VerifyEmail
  BY <1>0, <1>2, EditStep DEF TokensInv
<1>3. CASE Tick \/ UNCHANGED vars
  BY <1>0, <1>3 DEF Tick, vars, TokensInv
<1>4. QED  BY <1>1, <1>2, <1>3 DEF Next, Step

LEMMA InitInv == Init => SessionInv
<1> SUFFICES ASSUME Init  PROVE SessionInv
  OBVIOUS
<1>1. TypeOK
  <2>1. account \in Account
    <3>1. PICK role \in Signups :
            account = [active |-> TRUE, verified |-> FALSE, role |-> role, groups |-> {role}]
      BY DEF Init
    <3>2. role \in Role /\ {role} \in SUBSET Role
      BY SessionAssumption DEF SessionAssumption
    <3>3. QED  BY <3>1, <3>2 DEF Account
  <2>2. QED  BY <2>1 DEF Init, TypeOK, RefreshToken
<1>2. StepsOfCalls /\ TokensInv /\ SinceInv
  BY DEF Init, StepsOfCalls, TokensInv, SinceInv, NoCall
<1>3. RotationInv
  <2>1. \A t \in Tokens : Exchanging(t) = {}  BY DEF Init, Exchanging
  <2>2. Cardinality({}) = 0 /\ Cardinality(Requests) \in Nat
    BY SessionAssumption, FS_EmptySet, FS_CardinalityType DEF SessionAssumption
  <2>3. \A t \in Tokens : refresh[t].exchanged = 0  BY DEF Init
  <2>4. \A r \in Requests : pc[r] = "idle" /\ call[r].op = "none"
    BY DEF Init, NoCall
  <2>5. \A t \in Tokens :
          /\ ~(refresh[t].exchanged > 0)
          /\ refresh[t].exchanged + Cardinality(Exchanging(t)) <= Cardinality(Requests)
    BY <2>1, <2>2, <2>3
  <2>6. QED  BY <2>4, <2>5 DEF RotationInv
<1>4. QED  BY <1>1, <1>2, <1>3 DEF SessionInv

(* SessionInv holds always, whatever requests overlap and whatever the     *)
(* administrator does between two of their statements: an exchanged token  *)
(* is blacklisted, exchanges of one token are never more than threads, and *)
(* nobody has a token before the address is verified.                      *)
THEOREM SessionInvariant == Spec => []SessionInv
<1>1. SessionInv /\ [Next]_vars => SessionInv'
  BY TypeStep, StepsOfCallsStep, RotationInvStep, TokensInvStep, SinceInvStep DEF SessionInv
<1>2. QED  BY <1>1, InitInv, PTL DEF Spec

----------------------------------------------------------------------------
(* The answers                                                             *)

(* Every answer, with the step that sends it and what that step has seen.  *)
Answered(r) ==
    \/ answer'.code \in {"none", "not_found", "parse_error", "validation_error",
                         "invalid_credentials", "method_not_allowed", "server_error",
                         "not_enrolled"}
    \/ answer'.code = "ok" /\ pc[r] \in {"mint", "reply", "object"}
    \/ /\ answer'.code = "ok" /\ pc[r] = "permission" /\ call[r].token # NoToken
       /\ InRole(r, Needs[call[r].endpoint])
    \/ answer'.code = "token_not_valid" /\ pc[r] = "authenticate" /\ Expired(call[r].token)
    \/ answer'.code = "authentication_failed" /\ ~account.active
    \/ answer'.code = "email_not_verified" /\ ~account.verified
    \/ /\ answer'.code = "token_not_valid" /\ pc[r] = "verify"
       /\ LET token == refresh[call[r].token] IN Expired(token) \/ token.state = "blacklisted"
    \/ answer'.code = "no_active_account" /\ ~account.active
    \/ answer'.code = "not_authenticated" /\ call[r].token = NoToken
    \/ /\ answer'.code = "permission_denied" /\ pc[r] = "permission"
       /\ ~InRole(r, Needs[call[r].endpoint])
    \/ answer'.code = "permission_denied" /\ pc[r] = "object" /\ call[r].endpoint \in Fetching

LEMMA FailCode ==
    ASSUME NEW r
    PROVE  /\ \A c \in {"token_not_valid", "authentication_failed"} :
                 Fail(r, TokenError(c)) => answer'.code = c
           /\ \A c \in DOMAIN FrameworkStatus : Fail(r, Framework(c)) => answer'.code = c
           /\ \A c \in DOMAIN DomainStatus : Fail(r, DomainError(c)) => answer'.code = c
           /\ Fail(r, ValidationError) => answer'.code = "validation_error"
           /\ Fail(r, Http404) => answer'.code = "not_found"
           /\ Fail(r, Unhandled) => answer'.code = "server_error"
           /\ Finish(r, Ok) => answer'.code = "ok"
           /\ Finish(r, UrlNotFound) => answer'.code = "not_found"
           /\ Finish(r, NoAnswer) => answer'.code = "none"
<1>1. \A s, c : Response(s, c).code = c  BY DEF Response
<1>2. \A exc : Fail(r, exc) => answer' = Handled(exc)  BY DEF Fail, Finish
<1>3. Ok.code = "ok" /\ UrlNotFound.code = "not_found" /\ NoAnswer.code = "none"
  BY DEF Ok, UrlNotFound, NoAnswer, Response
<1>4. QED  BY <1>1, <1>2, <1>3, Codes DEF Finish

LEMMA EndStep ==
    ASSUME TypeOK, StepsOfCalls, NEW r \in Requests, Step(r), Ended(r)
    PROVE  Answered(r)
<1>0. call'[r] = NoCall /\ call[r] # NoCall  BY DEF Ended
<1>1. \A step : ~Goto(r, step)
  BY <1>0 DEF Goto
<1>2. CASE Receive(r) \/ Crash(r) \/ Unrouted(r)
  <2>1. ~Receive(r)  BY <1>0 DEF Receive, StepsOfCalls
  <2>2. QED  BY <1>2, <2>1, FailCode DEF Crash, Unrouted, Answered
<1>3. CASE AuthenticateToken(r)
  BY <1>1, <1>3, FailCode DEF AuthenticateToken, Answered
<1>4. CASE Parse(r) \/ LoginAccount(r) \/ LoginProfile(r)
  BY <1>1, <1>4, FailCode
     DEF Parse, LoginAccount, LoginProfile, Answered, FrameworkStatus, DomainStatus
<1>5. CASE LoginMint(r) \/ RefreshReply(r)
  BY <1>5, FailCode DEF LoginMint, RefreshReply, Answered
<1>6. CASE RefreshVerify(r) \/ RefreshOwner(r) \/ RefreshSpend(r)
  BY <1>1, <1>6, FailCode
     DEF RefreshVerify, RefreshOwner, RefreshSpend, Answered, FrameworkStatus
<1>7. CASE Permission(r)
  BY <1>1, <1>7, FailCode DEF Permission, Answered, FrameworkStatus
<1>8. CASE Object(r)
  <2>1. \/ Finish(r, Ok) \/ Fail(r, Http404) \/ Fail(r, Unhandled)
        \/ Fail(r, Framework("permission_denied")) /\ call[r].endpoint \in Fetching
        \/ Fail(r, Framework("not_found")) \/ Fail(r, DomainError("not_enrolled"))
    BY <1>8 DEF Object, NoEvent
  <2>2. pc[r] = "object"  BY <1>8 DEF Object
  <2>3. QED  BY <2>1, <2>2, FailCode DEF Answered, FrameworkStatus, DomainStatus
<1>9. QED
  BY <1>2, <1>3, <1>4, <1>5, <1>6, <1>7, <1>8 DEF Step, Login, Refresh, Authorize

LEMMA OnlyServedEnds ==
    ASSUME SessionInv, [Next]_vars, NEW r \in Requests, Ended(r)
    PROVE  Step(r) /\ Answered(r) /\ pc[r] # "idle"
<1>0. TypeOK /\ StepsOfCalls  BY DEF SessionInv
<1>1. pc[r] # "idle"  BY <1>0 DEF Ended, StepsOfCalls
<1>2. ASSUME NEW q \in Requests, Step(q)  PROVE q = r
  BY <1>0, <1>2, OthersUntouched DEF Ended
<1>3. ~(Edit \/ VerifyEmail \/ Tick \/ UNCHANGED vars)
  BY <1>0, EditStep DEF Ended, Tick, vars
<1>4. Step(r)  BY <1>2, <1>3 DEF Next, Step
<1>5. QED  BY <1>0, <1>1, <1>4, EndStep

(* A refresh token sent again after it has been exchanged is refused.      *)
THEOREM ReplaysAreRefused == Spec => ReplayIsRefused
<1>1. ASSUME SessionInv, [Next]_vars
      PROVE  [\A r \in Requests :
                Ended(r) /\ call[r].op = "refresh" /\ call[r].replay => answer' # Ok]_vars
  <2> SUFFICES ASSUME NEW r \in Requests, Ended(r), call[r].op = "refresh", call[r].replay
               PROVE  answer' # Ok
    OBVIOUS
  <2>1. Answered(r)  BY <1>1, OnlyServedEnds
  <2>2. pc[r] \in {"parse", "verify"}  BY <1>1 DEF SessionInv, RotationInv
  <2>3. answer'.code # "ok"  BY <2>1, <2>2 DEF Answered
  <2>4. QED  BY <2>3 DEF Ok, Response
<1>2. QED  BY <1>1, SessionInvariant, PTL DEF Spec, ReplayIsRefused

(* Success is answered only to an account that was active, verified (to    *)
(* log in) and in the group the endpoint needs, at some moment since the   *)
(* request arrived.                                                        *)
THEOREM ServedAreEntitled == Spec => ServedIsEntitled
<1>1. ASSUME SessionInv, [Next]_vars
      PROVE  [\A r \in Requests : Ended(r) /\ answer' = Ok =>
                /\ \E a \in since[r] : a.active
                /\ call[r].op = "login" => \E a \in since[r] : a.verified
                /\ call[r].op = "api" =>
                     \E a \in since[r] : Needs[call[r].endpoint] \in a.groups \cup {Anyone}]_vars
  <2> SUFFICES ASSUME NEW r \in Requests, Ended(r), answer' = Ok
               PROVE  /\ \E a \in since[r] : a.active
                      /\ call[r].op = "login" => \E a \in since[r] : a.verified
                      /\ call[r].op = "api" =>
                           \E a \in since[r] : Needs[call[r].endpoint] \in a.groups \cup {Anyone}
    OBVIOUS
  <2>1. Answered(r) /\ pc[r] # "idle"  BY <1>1, OnlyServedEnds
  <2>2. answer'.code = "ok"  BY DEF Ok, Response
  <2>3. \/ pc[r] \in {"mint", "reply", "object"}
        \/ /\ pc[r] = "permission" /\ call[r].token # NoToken
           /\ InRole(r, Needs[call[r].endpoint])
    BY <2>1, <2>2 DEF Answered
  <2>4. SinceInv /\ StepsOfCalls  BY <1>1 DEF SessionInv
  <2>5. CASE pc[r] \in {"mint", "reply", "object"}
    BY <2>4, <2>5 DEF SinceInv, StepsOfCalls
  <2>6. CASE pc[r] = "permission" /\ call[r].token # NoToken
             /\ InRole(r, Needs[call[r].endpoint])
    <3>1. account \in since[r] /\ (\E a \in since[r] : a.active) /\ call[r].op = "api"
      BY <2>4, <2>6 DEF SinceInv, StepsOfCalls
    <3>2. Needs[call[r].endpoint] \in account.groups \cup {Anyone}
      BY <2>6 DEF InRole
    <3>3. QED  BY <3>1, <3>2
  <2>7. QED  BY <2>3, <2>5, <2>6
<1>2. QED  BY <1>1, SessionInvariant, PTL DEF Spec, ServedIsEntitled

(* The code of a refusal names its true reason.                            *)
THEOREM RefusalsNameTheirReason == Spec => RefusalsAreTrue
<1>1. ASSUME SessionInv, [Next]_vars
      PROVE  [\A r \in Requests : Ended(r) =>
         /\ answer'.code = "not_authenticated" => call[r].token = NoToken
         /\ answer'.code = "token_not_valid" =>
              \/ call[r].op = "refresh" /\ refresh[call[r].token].state = "blacklisted"
              \/ call[r].op = "refresh" /\ Expired(refresh[call[r].token])
              \/ call[r].op = "api" /\ Expired(call[r].token)
         /\ answer'.code \in {"authentication_failed", "no_active_account"} =>
              \E a \in since[r] : ~a.active
         /\ answer'.code = "email_not_verified" => \E a \in since[r] : ~a.verified
         /\ answer'.code = "permission_denied" =>
              \/ pc[r] = "object" /\ call[r].endpoint \in Fetching
              \/ \E a \in since[r] : Needs[call[r].endpoint] \notin a.groups \cup {Anyone}]_vars
  <2>1. ASSUME NEW r \in Requests, Ended(r)
        PROVE  /\ Answered(r) /\ account \in since[r]
               /\ pc[r] = "authenticate" => call[r].op = "api"
               /\ pc[r] = "verify" => call[r].op = "refresh"
    BY <1>1, <2>1, OnlyServedEnds DEF SessionInv, SinceInv, StepsOfCalls
  <2>2. QED  BY <2>1 DEF Answered, InRole
<1>2. QED  BY <1>1, SessionInvariant, PTL DEF Spec, RefusalsAreTrue
=============================================================================
