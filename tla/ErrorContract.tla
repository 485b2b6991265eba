--------------------------- MODULE ErrorContract ---------------------------
(***************************************************************************)
(* What an exception that leaves a view becomes on the wire                *)
(* (apps/common/exceptions.py, apps/common/errors.py): a status, a code    *)
(* and, for validation errors, a map of messages.  Messages themselves are *)
(* wording and are left out.                                               *)
(*                                                                         *)
(* An exception is a record of its class, its HTTP status and what         *)
(* get_codes() returns: a code, a list of codes, or a dict of them of      *)
(* which "detail", "code" and the first entry are ever looked at.          *)
(***************************************************************************)
EXTENDS Naturals, Sequences

ErrorCode ==
    {"validation_error", "not_authenticated", "authentication_failed",
     "token_not_valid", "permission_denied", "not_found", "method_not_allowed",
     "throttled", "server_error", "email_not_verified", "invalid_credentials",
     "otp_invalid", "otp_expired", "otp_max_attempts", "otp_cooldown",
     "event_full", "event_already_started", "already_enrolled", "not_enrolled"}

(* The subclasses of DomainError, each with its status.                    *)
DomainStatus ==
    [email_not_verified |-> 403, invalid_credentials |-> 401,
     otp_invalid |-> 400, otp_expired |-> 400,
     otp_max_attempts |-> 429, otp_cooldown |-> 429,
     event_full |-> 409, event_already_started |-> 409,
     already_enrolled |-> 409, not_enrolled |-> 409]

(* The exceptions of DRF and simplejwt whose detail is one message.        *)
FrameworkStatus ==
    [not_authenticated |-> 401, no_active_account |-> 401,
     permission_denied |-> 403, not_found |-> 404, method_not_allowed |-> 405,
     not_acceptable |-> 406, unsupported_media_type |-> 415,
     parse_error |-> 400]

Absent == [form |-> "absent"]
Text(c) == [form |-> "text", value |-> c]
List(s) == [form |-> "list", items |-> s]
Dict(d, c, f) == [form |-> "dict", detail |-> d, code |-> c, first |-> f]

Api(status, codes) == [class |-> "api", status |-> status, codes |-> codes]

DomainError(c) == Api(DomainStatus[c], Text(c))
Framework(c) == Api(FrameworkStatus[c], Text(c))

(* simplejwt's DetailDictMixin: a detail of two entries, both of which DRF *)
(* gives the default code of the exception's class.                        *)
TokenError(c) == Api(401, Dict(Text(c), Text(c), Text(c)))

ValidationError == [class |-> "validation", status |-> 400, codes |-> Text("invalid")]
Http404 == [class |-> "http404", status |-> 404, codes |-> Absent]
DjangoPermissionDenied == [class |-> "denied", status |-> 403, codes |-> Absent]
Unhandled == [class |-> "other", status |-> 500, codes |-> Absent]

(* Everything the endpoints raise.                                         *)
Raised ==
    {DomainError(c) : c \in DOMAIN DomainStatus}
        \cup {Framework(c) : c \in DOMAIN FrameworkStatus}
        \cup {TokenError(c) : c \in {"token_not_valid", "authentication_failed"}}
        \cup {ValidationError, Http404, DjangoPermissionDenied, Unhandled}

----------------------------------------------------------------------------
Fallback(status) ==
    CASE status = 401 -> "not_authenticated"
      [] status = 403 -> "permission_denied"
      [] status = 404 -> "not_found"
      [] status = 405 -> "method_not_allowed"
      [] status = 429 -> "throttled"
      [] OTHER        -> "validation_error"

Truthy(c) == c # Absent /\ c # List(<<>>)

OfDict(c) ==
    IF c.form # "dict" THEN c
    ELSE IF Truthy(c.detail) THEN c.detail
    ELSE IF Truthy(c.code) THEN c.code ELSE c.first

OfList(c) ==
    IF c.form # "list" THEN c
    ELSE IF c.items = <<>> THEN Absent ELSE Head(c.items)

(* Without the branch for dicts.                                           *)
ResolveNoDict(exc) ==
    LET c == OfList(exc.codes)
    IN  IF c.form = "text" /\ c.value \notin {"error", "invalid"}
        THEN c.value ELSE Fallback(exc.status)

(* _resolve_code                                                           *)
Resolve(exc) ==
    LET c == OfList(OfDict(exc.codes))
    IN  IF c.form = "text" /\ c.value \notin {"error", "invalid"}
        THEN c.value ELSE Fallback(exc.status)

Converted(exc) ==
    CASE exc.class = "http404" -> Framework("not_found")
      [] exc.class = "denied"  -> Framework("permission_denied")
      [] OTHER                 -> exc

Response(status, code) == [status |-> status, code |-> code]

Ok == Response(200, "ok")

(* The JSON bodies of Django's own 500 and 404 pages.                      *)
ServerError == Response(500, "server_error")
UrlNotFound == Response(404, "not_found")

(* exception_handler; what is no APIException ends on the 500 page.        *)
Handled(exc) ==
    LET e == Converted(exc)
    IN  CASE e.class = "validation" -> Response(e.status, "validation_error")
          [] e.class = "api"        -> Response(e.status, Resolve(e))
          [] OTHER                  -> ServerError

Responses == {Ok, UrlNotFound} \cup {Handled(exc) : exc \in Raised}
=============================================================================
