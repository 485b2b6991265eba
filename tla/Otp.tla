-------------------------------- MODULE Otp --------------------------------
(***************************************************************************)
(* Registration of one email address (apps/accounts/services.py): signup,  *)
(* verify-email and resend-otp, served concurrently.  No statement of them *)
(* touches two addresses, so one account is modelled.                      *)
(*                                                                         *)
(* As in Booking, a request is a process and each SQL statement a step.    *)
(* signup is one transaction; resend runs outside one, so its UPDATE and   *)
(* its INSERT commit apart; verify locks one code from its SELECT on.      *)
(***************************************************************************)
EXTENDS Integers, FiniteSets

CONSTANTS
    Requests,       \* concurrent server threads
    Codes,          \* what secrets.randbelow may return
    Operations,     \* the endpoints clients call
    TTL,            \* settings.OTP_TTL_SECONDS
    Cooldown,       \* settings.OTP_RESEND_COOLDOWN_SECONDS
    MaxAttempts,    \* settings.OTP_MAX_ATTEMPTS
    BrokerFails,    \* may the broker refuse a task?
    MaxTime,        \* bound on the clock
    MaxOtps         \* bound on codes ever created

VARIABLES
    now,
    account,        \* the user and its profile; "bare": a user without one
    otps,           \* accounts_emailotp
    nextId,         \* its primary key sequence
    compared,       \* wrong guesses compared with each code (history)
    queued,         \* codes whose email task was put on the queue
    call,           \* the request each thread is serving
    pc,             \* the statement each thread executes next
    at,             \* issue_otp's now
    rows,           \* primary keys a thread has read or locked
    candidate,      \* the EmailOTP instance a thread has locked
    answer          \* the last response sent to any client

vars == <<now, account, otps, nextId, compared, queued, call, pc, at, rows,
          candidate, answer>>

Database == <<account, otps, nextId, compared, queued>>
Locals == <<at, rows, candidate>>

Ids == 1 .. MaxOtps

OtpRow == [id: Ids, code: Codes, made: Nat, expires: Nat, attempts: Nat,
           live: BOOLEAN]

Call == [op: {"verify"} \cap Operations, otp: Codes]
            \cup [op: {"signup", "resend"} \cap Operations]
NoCall == [op |-> "none"]

SignupSteps == {"existing", "user"}
IssueSteps  == {"latest", "valid", "invalidate", "insert"}
VerifySteps == {"profile", "select", "claim", "check", "save"}
Steps == SignupSteps \cup {"resend"} \cup IssueSteps \cup {"enqueue"} \cup VerifySteps

Answers == {"ok", "otp_invalid", "otp_expired", "otp_max_attempts", "server_error"}

ASSUME OtpAssumption ==
    /\ IsFiniteSet(Requests)
    /\ TTL \in Nat /\ Cooldown \in Nat /\ MaxAttempts \in Nat
    /\ BrokerFails \in BOOLEAN
    /\ MaxTime \in Nat /\ MaxOtps \in Nat

----------------------------------------------------------------------------
Live == {x \in otps : x.live}
IdsOf(S) == {x.id : x \in S}

(* order_by("-created_at").first(): any of those created at one instant.   *)
NewestFirst(S) == {x \in S : \A y \in S : y.made <= x.made}

(* Locked rows: those signup's UPDATE has written, and verify's candidate. *)
HoldsNothing(r, i) == FALSE
Holds(r, i) ==
    \/ pc[r] = "insert" /\ i \in rows[r]
    \/ pc[r] \in {"check", "save"} /\ i = candidate[r].id

Free(i) == \A r \in Requests : ~Holds(r, i)

(* A signup that has inserted the user and not committed.                  *)
Creating(r) == account = "none" /\ pc[r] \in IssueSteps

Issuing == {r \in Requests : pc[r] # "idle" /\ call[r].op # "verify"}

Goto(r, step) ==
    /\ pc' = [pc EXCEPT ![r] = step]
    /\ UNCHANGED <<call, answer>>

NoOtp == [id |-> 0]

Finish(r, code) ==
    /\ pc' = [pc EXCEPT ![r] = "idle"]
    /\ call' = [call EXCEPT ![r] = NoCall]
    /\ at' = [at EXCEPT ![r] = 0]
    /\ rows' = [rows EXCEPT ![r] = {}]
    /\ candidate' = [candidate EXCEPT ![r] = NoOtp]
    /\ answer' = code

FirstStep == [signup |-> "existing", resend |-> "resend", verify |-> "profile"]

Receive(r, c) ==
    /\ pc[r] = "idle"
    /\ c.op # "verify" => nextId + Cardinality(Issuing) <= MaxOtps
    /\ call' = [call EXCEPT ![r] = c]
    /\ pc' = [pc EXCEPT ![r] = FirstStep[c.op]]
    /\ UNCHANGED <<now, Database, Locals, answer>>

(* The process dies; its open transaction is rolled back.                  *)
Crash(r) ==
    /\ pc[r] \in Steps
    /\ Finish(r, "none")
    /\ UNCHANGED <<now, Database>>

----------------------------------------------------------------------------
(* signup and resend_otp up to issue_otp                                   *)

SignupExisting(r) ==
    /\ pc[r] = "existing"
    /\ IF account \in {"verified", "bare"}
       THEN Finish(r, "ok")
       ELSE /\ Goto(r, IF account = "none" THEN "user" ELSE "latest")
            /\ UNCHANGED Locals
    /\ UNCHANGED <<now, Database>>

(* The INSERT of the user waits for one in flight under the unique index   *)
(* on LOWER(email), and fails if that commits; signup does not catch it.   *)
SignupUserCommitted(r) ==
    /\ pc[r] = "user"
    /\ account = "none"
    /\ account' = "unverified" /\ Goto(r, "latest") /\ UNCHANGED Locals
    /\ UNCHANGED <<now, otps, nextId, compared, queued>>

SignupUser(r) ==
    /\ pc[r] = "user"
    /\ \A q \in Requests : ~Creating(q)
    /\ IF account = "none"
       THEN Goto(r, "latest") /\ UNCHANGED Locals
       ELSE Finish(r, "server_error")
    /\ UNCHANGED <<now, Database>>

Resend(r) ==
    /\ pc[r] = "resend"
    /\ IF account = "unverified"
       THEN Goto(r, "latest") /\ UNCHANGED Locals
       ELSE Finish(r, "ok")
    /\ UNCHANGED <<now, Database>>

----------------------------------------------------------------------------
(* issue_otp                                                               *)

IssueLatestUnthrottled(r) ==
    /\ pc[r] = "latest"
    /\ Goto(r, "valid") /\ at' = [at EXCEPT ![r] = now] /\ UNCHANGED <<rows, candidate>>
    /\ UNCHANGED <<now, Database>>

(* Both callers swallow OTPCooldown.                                       *)
IssueLatest(r) ==
    /\ pc[r] = "latest"
    /\ IF \E x \in otps : now - x.made < Cooldown
       THEN Finish(r, "ok")
       ELSE Goto(r, "valid") /\ at' = [at EXCEPT ![r] = now] /\ UNCHANGED <<rows, candidate>>
    /\ UNCHANGED <<now, Database>>

(* The UPDATE picks its rows from a snapshot, waits for their locks and    *)
(* skips those that no longer match.                                       *)
IssueValid(r) ==
    /\ pc[r] = "valid"
    /\ rows' = [rows EXCEPT ![r] = IdsOf(Live)]
    /\ Goto(r, "invalidate")
    /\ UNCHANGED <<now, Database, at, candidate>>

Invalidated(S) == {IF x.id \in S THEN [x EXCEPT !.live = FALSE] ELSE x : x \in otps}

(* signup keeps the locks and what it wrote to itself; resend commits.     *)
IssueInvalidate(r) ==
    /\ pc[r] = "invalidate"
    /\ \A i \in rows[r] : Free(i)
    /\ IF call[r].op = "signup"
       THEN /\ rows' = [rows EXCEPT ![r] = @ \cap IdsOf(Live)]
            /\ UNCHANGED otps
       ELSE /\ rows' = [rows EXCEPT ![r] = {}]
            /\ otps' = Invalidated(rows[r])
    /\ Goto(r, "insert")
    /\ UNCHANGED <<now, account, nextId, compared, queued, at, candidate>>

IssueInsert(r, code) ==
    /\ pc[r] = "insert"
    /\ otps' = Invalidated(rows[r]) \cup
                 {[id |-> nextId, code |-> code, made |-> now,
                   expires |-> at[r] + TTL, attempts |-> 0, live |-> TRUE]}
    /\ nextId' = nextId + 1
    /\ account' = IF account = "none" THEN "unverified" ELSE account
    /\ rows' = [rows EXCEPT ![r] = {nextId}]
    /\ Goto(r, "enqueue")
    /\ UNCHANGED <<now, compared, queued, at, candidate>>

(* transaction.on_commit: .delay() of the email task.                      *)
IssueEnqueueEarly(r) ==
    /\ pc[r] = "insert"
    /\ queued' = queued \cup {nextId}
    /\ Goto(r, "insert")
    /\ UNCHANGED <<now, account, otps, nextId, compared, Locals>>

IssueEnqueue(r) ==
    /\ pc[r] = "enqueue"
    /\ \/ queued' = queued \cup rows[r] /\ Finish(r, "ok")
       \/ BrokerFails /\ Finish(r, "server_error") /\ UNCHANGED queued
    /\ UNCHANGED <<now, account, otps, nextId, compared>>

----------------------------------------------------------------------------
(* verify_email                                                            *)

VerifyProfile(r) ==
    /\ pc[r] = "profile"
    /\ CASE account \in {"none", "bare"} -> Finish(r, "otp_invalid")
         [] account = "verified"         -> Finish(r, "ok")
         [] account = "unverified"       -> Goto(r, "select") /\ UNCHANGED Locals
    /\ UNCHANGED <<now, Database>>

(* SELECT ... ORDER BY ... LIMIT 1 FOR UPDATE: the newest row of the       *)
(* snapshot, or if it was invalidated while its lock was awaited the next. *)
VerifySelect(r) ==
    /\ pc[r] = "select"
    /\ rows' = [rows EXCEPT ![r] = IdsOf(Live)]
    /\ Goto(r, "claim")
    /\ UNCHANGED <<now, Database, at, candidate>>

VerifyClaim(r) ==
    /\ pc[r] = "claim"
    /\ \/ rows[r] = {} /\ Finish(r, "otp_invalid")
       \/ \E x \in NewestFirst({y \in otps : y.id \in rows[r]}) :
             /\ Free(x.id)
             /\ IF x.live
                THEN /\ candidate' = [candidate EXCEPT ![r] = x]
                     /\ rows' = [rows EXCEPT ![r] = {}]
                     /\ Goto(r, "check")
                ELSE /\ rows' = [rows EXCEPT ![r] = @ \ {x.id}]
                     /\ Goto(r, "claim") /\ UNCHANGED candidate
             /\ UNCHANGED at
    /\ UNCHANGED <<now, Database>>

VerifyCheckNoLimit(r) ==
    /\ pc[r] = "check"
    /\ IF now >= candidate[r].expires
       THEN Finish(r, "otp_expired")
       ELSE Goto(r, "save") /\ UNCHANGED Locals
    /\ UNCHANGED <<now, Database>>

VerifyCheck(r) ==
    /\ pc[r] = "check"
    /\ IF now >= candidate[r].expires
       THEN Finish(r, "otp_expired")
       ELSE IF candidate[r].attempts >= MaxAttempts
            THEN Finish(r, "otp_max_attempts")
            ELSE Goto(r, "save") /\ UNCHANGED Locals
    /\ UNCHANGED <<now, Database>>

Stored(x) == {IF y.id = x.id THEN x ELSE y : y \in otps}

(* check_password, the UPDATEs and COMMIT; a mismatch is raised after it.  *)
VerifySaveRolledBack(r) ==
    LET x == candidate[r] IN
    /\ pc[r] = "save"
    /\ IF call[r].otp = x.code
       THEN /\ otps' = Stored([x EXCEPT !.live = FALSE])
            /\ account' = "verified"
            /\ UNCHANGED compared
            /\ Finish(r, "ok")
       ELSE /\ compared' = [compared EXCEPT ![x.id] = @ + 1]
            /\ UNCHANGED <<account, otps>>
            /\ Finish(r, IF x.attempts + 1 >= MaxAttempts THEN "otp_max_attempts"
                                                          ELSE "otp_invalid")
    /\ UNCHANGED <<now, nextId, queued>>

VerifySave(r) ==
    LET x == candidate[r] IN
    /\ pc[r] = "save"
    /\ IF call[r].otp = x.code
       THEN /\ otps' = Stored([x EXCEPT !.live = FALSE])
            /\ account' = "verified"
            /\ UNCHANGED compared
            /\ Finish(r, "ok")
       ELSE /\ otps' = Stored([x EXCEPT !.attempts = @ + 1])
            /\ compared' = [compared EXCEPT ![x.id] = @ + 1]
            /\ UNCHANGED account
            /\ Finish(r, IF x.attempts + 1 >= MaxAttempts THEN "otp_max_attempts"
                                                          ELSE "otp_invalid")
    /\ UNCHANGED <<now, nextId, queued>>

----------------------------------------------------------------------------
Tick ==
    /\ now < MaxTime
    /\ now' = now + 1
    /\ UNCHANGED <<Database, call, pc, Locals, answer>>

(* A bare user is one an administrator made: signup never leaves one.      *)
Init ==
    /\ now = 0 /\ account \in {"none", "bare"} /\ otps = {} /\ nextId = 1
    /\ compared = [i \in Ids |-> 0]
    /\ queued = {}
    /\ call = [r \in Requests |-> NoCall]
    /\ pc = [r \in Requests |-> "idle"]
    /\ at = [r \in Requests |-> 0]
    /\ rows = [r \in Requests |-> {}]
    /\ candidate = [r \in Requests |-> NoOtp]
    /\ answer = "none"

Issue(r) ==
    \/ IssueLatest(r) \/ IssueValid(r) \/ IssueInvalidate(r)
    \/ \E code \in Codes : IssueInsert(r, code)
    \/ IssueEnqueue(r)
Verify(r) ==
    VerifyProfile(r) \/ VerifySelect(r) \/ VerifyClaim(r) \/ VerifyCheck(r) \/ VerifySave(r)

Serve(r) == SignupExisting(r) \/ SignupUser(r) \/ Resend(r) \/ Issue(r) \/ Verify(r)

Next ==
    \/ \E r \in Requests : Serve(r) \/ Crash(r) \/ \E c \in Call : Receive(r, c)
    \/ Tick

Spec == Init /\ [][Next]_vars

----------------------------------------------------------------------------
(* The types of the tables and of the threads' locals.                     *)
TypeOK ==
    /\ now \in Nat
    /\ account \in {"none", "bare", "unverified", "verified"}
    /\ otps \subseteq OtpRow
    /\ IsFiniteSet(otps)
    /\ nextId \in 1 .. MaxOtps + 1
    /\ compared \in [Ids -> Nat]
    /\ queued \subseteq Ids
    /\ call \in [Requests -> Call \cup {NoCall}]
    /\ pc \in [Requests -> Steps \cup {"idle"}]
    /\ at \in [Requests -> Nat]
    /\ rows \in [Requests -> SUBSET Ids]
    /\ candidate \in [Requests -> OtpRow \cup {NoOtp}]
    /\ answer \in Answers \cup {"none"}

(* Every wrong guess counts, however many verify requests race: the        *)
(* attempts of a code are the guesses it was compared with, and past       *)
(* OTP_MAX_ATTEMPTS it is compared with no more.                           *)
GuessesCounted ==
    \A x \in otps : x.attempts = compared[x.id] /\ x.attempts <= MaxAttempts

(* An account that signup made has been issued a code: a signup that fails *)
(* or dies on the way leaves neither a user nor a profile behind.          *)
AccountHasCode == account \in {"unverified", "verified"} => otps # {}

(* Resends that follow one another are throttled: of two codes closer than *)
(* OTP_RESEND_COOLDOWN_SECONDS the later one comes from a request that had *)
(* read the clock for its test of the cooldown (TTL before its expires_at) *)
(* by the time the earlier one was inserted.                               *)
ResendsThrottled ==
    \A x, y \in otps : x.id < y.id =>
        LET tested == y.expires - TTL
        IN  tested <= x.made \/ tested - x.made >= Cooldown

(* No email is queued for a code that was rolled back.                     *)
MailedCodeExists == queued \subseteq IdsOf(otps)

----------------------------------------------------------------------------
(* A thread is where the endpoint it serves can be.                        *)
StepsOfCalls ==
    \A r \in Requests :
        /\ pc[r] \in VerifySteps => call[r].op = "verify"
        /\ pc[r] \in Steps \ VerifySteps => call[r].op \in {"signup", "resend"}

(* Threads that may still insert a code, and those among them that have    *)
(* passed the test of the cooldown.                                        *)
Coming == {r \in Requests : pc[r] \in SignupSteps \cup {"resend"} \cup IssueSteps}
Passed == {r \in Requests : pc[r] \in IssueSteps \ {"latest"}}

(* A primary key is used once; an account comes with its first code, and a *)
(* bare one never has any.                                                 *)
RowsInv ==
    /\ nextId + Cardinality(Coming) <= MaxOtps + 1
    /\ \A x \in otps : x.id < nextId
    /\ \A x, y \in otps : x.id = y.id => x = y
    /\ account \in {"none", "bare"} <=> otps = {}
    /\ account = "bare" => \A r \in Requests : pc[r] \notin {"user"} \cup IssueSteps
    /\ \A r, q \in Requests : Creating(r) /\ Creating(q) => r = q

(* A row is locked by one request at a time, and what verify has in hand   *)
(* is the row as it stands.                                                *)
LocksInv ==
    /\ \A r, q \in Requests, i \in Ids : Holds(r, i) /\ Holds(q, i) => r = q
    /\ \A r \in Requests : pc[r] \in {"check", "save"} => candidate[r] \in Live

(* So no guess goes uncounted, and none is made on a code used up.         *)
GuessesInv ==
    /\ GuessesCounted
    /\ \A i \in Ids : i >= nextId => compared[i] = 0
    /\ \A r \in Requests : pc[r] = "save" => candidate[r].attempts < MaxAttempts

MailInv ==
    /\ MailedCodeExists
    /\ \A r \in Requests : pc[r] = "enqueue" => rows[r] \subseteq IdsOf(otps)

(* A thread passes the test only when every code is out of the cooldown;   *)
(* those it does not know of were made since.                              *)
ThrottleInv ==
    /\ ResendsThrottled
    /\ \A r \in Passed :
         /\ at[r] <= now
         /\ \A x \in otps : at[r] <= x.made \/ at[r] - x.made >= Cooldown

(* Why the properties above hold: the inductive invariant of OtpProofs.    *)
OtpInv == TypeOK /\ StepsOfCalls /\ RowsInv /\ LocksInv /\ GuessesInv /\ MailInv /\ ThrottleInv

----------------------------------------------------------------------------
(* The promise of OneTimeCode, kept by every interleaving of requests.     *)
OneTime == INSTANCE OneTimeCode
    WITH issued <- IdsOf(otps), live <- IdsOf(Live), wrong <- compared,
         verified <- account = "verified"
ImplementsOneTimeCode == OneTime!Spec

(* "60-second resend cooldown", and a fresh code comes with "invalidating  *)
(* previous ones": either of them excludes two live codes made within one  *)
(* cooldown.                                                               *)
OneCodePerCooldown ==
    ~ \E x, y \in Live : x.id < y.id /\ y.made - x.made < Cooldown

(* "Identical response whether or not the email already existed."          *)
SignupAnswersAlike == answer # "server_error"
=============================================================================
