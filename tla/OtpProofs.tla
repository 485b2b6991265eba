----------------------------- MODULE OtpProofs -----------------------------
(***************************************************************************)
(* Otp, proved for any number of threads and codes, any TTL, cooldown and  *)
(* limit of attempts.  OtpInv is inductive; what the registration promises *)
(* follows from it, and that every step is one OneTimeCode allows.         *)
(***************************************************************************)
EXTENDS Otp, FiniteSetTheorems, TLAPS

(* One thread's part of Next.                                              *)
Step(r) == Serve(r) \/ Crash(r) \/ \E c \in Call : Receive(r, c)

LocalsOK ==
    /\ call \in [Requests -> Call \cup {NoCall}]
    /\ pc \in [Requests -> Steps \cup {"idle"}]
    /\ at \in [Requests -> Nat]
    /\ rows \in [Requests -> SUBSET Ids]
    /\ candidate \in [Requests -> OtpRow \cup {NoOtp}]
    /\ answer \in Answers \cup {"none"}

TablesOK ==
    /\ now \in Nat
    /\ account \in {"none", "bare", "unverified", "verified"}
    /\ otps \subseteq OtpRow
    /\ IsFiniteSet(otps)
    /\ nextId \in 1 .. MaxOtps + 1
    /\ compared \in [Ids -> Nat]
    /\ queued \subseteq Ids

LEMMA TypeSplit == TypeOK <=> TablesOK /\ LocalsOK
BY DEF TypeOK, TablesOK, LocalsOK

LEMMA StepNames ==
    /\ Steps = {"existing", "user", "resend", "latest", "valid", "invalidate", "insert",
                "enqueue", "profile", "select", "claim", "check", "save"}
    /\ VerifySteps = {"profile", "select", "claim", "check", "save"}
    /\ IssueSteps = {"latest", "valid", "invalidate", "insert"}
    /\ SignupSteps = {"existing", "user"}
BY DEF Steps, VerifySteps, IssueSteps, SignupSteps

LEMMA CallOps ==
    ASSUME NEW c \in Call
    PROVE  \/ c.op = "signup" /\ FirstStep[c.op] = "existing"
           \/ c.op = "resend" /\ FirstStep[c.op] = "resend"
           \/ c.op = "verify" /\ FirstStep[c.op] = "profile"
BY DEF Call, FirstStep

----------------------------------------------------------------------------
(* Rewriting rows in place                                                 *)

(* The UPDATEs of the code are maps on the rows that keep the primary key, *)
(* the time of creation and the expiry.                                    *)
KeepsKeys(f) ==
    /\ f \in [otps -> OtpRow]
    /\ \A x \in otps : f[x].id = x.id /\ f[x].made = x.made /\ f[x].expires = x.expires

Rewritten(f) == {f[x] : x \in otps}

Invalidation(S) == [x \in otps |-> IF x.id \in S THEN [x EXCEPT !.live = FALSE] ELSE x]
Storing(z) == [y \in otps |-> IF y.id = z.id THEN z ELSE y]

LEMMA InvalidatedRows ==
    ASSUME TablesOK, NEW S
    PROVE  /\ KeepsKeys(Invalidation(S))
           /\ Invalidated(S) = Rewritten(Invalidation(S))
           /\ \A x \in otps :
                 /\ Invalidation(S)[x].attempts = x.attempts
                 /\ Invalidation(S)[x].live = (x.live /\ x.id \notin S)
                 /\ x.id \notin S => Invalidation(S)[x] = x
<1>1. \A x \in otps : /\ x \in OtpRow /\ [x EXCEPT !.live = FALSE] \in OtpRow
                      /\ [x EXCEPT !.live = FALSE].id = x.id
                      /\ [x EXCEPT !.live = FALSE].made = x.made
                      /\ [x EXCEPT !.live = FALSE].expires = x.expires
                      /\ [x EXCEPT !.live = FALSE].attempts = x.attempts
                      /\ [x EXCEPT !.live = FALSE].live = FALSE
  BY DEF TablesOK, OtpRow
<1>2. QED  BY <1>1 DEF KeepsKeys, Invalidation, Invalidated, Rewritten, OtpRow

LEMMA StoredRows ==
    ASSUME TablesOK, NEW x \in otps, NEW z \in OtpRow, z.id = x.id, z.made = x.made,
           z.expires = x.expires,
           \A y \in otps : y.id = x.id => y = x
    PROVE  /\ KeepsKeys(Storing(z))
           /\ Stored(z) = Rewritten(Storing(z))
           /\ Storing(z)[x] = z
           /\ \A y \in otps : y # x => Storing(z)[y] = y
BY DEF TablesOK, KeepsKeys, Storing, Stored, Rewritten

LEMMA RewrittenRows ==
    ASSUME TablesOK, NEW f, KeepsKeys(f)
    PROVE  /\ Rewritten(f) \subseteq OtpRow
           /\ IsFiniteSet(Rewritten(f))
           /\ IdsOf(Rewritten(f)) = IdsOf(otps)
           /\ Rewritten(f) = {} <=> otps = {}
           /\ \A y \in Rewritten(f) : \E x \in otps :
                 y = f[x] /\ y.id = x.id /\ y.made = x.made /\ y.expires = x.expires
           /\ (\A x, y \in otps : x.id = y.id => x = y)
                => \A x, y \in Rewritten(f) : x.id = y.id => x = y
<1>1. f \in Surjection(otps, Rewritten(f))
  BY DEF Surjection, KeepsKeys, Rewritten
<1>2. IsFiniteSet(Rewritten(f))  BY <1>1, FS_Surjection DEF TablesOK
<1>3. \A x \in otps : /\ f[x] \in OtpRow /\ f[x].id = x.id
                      /\ f[x].made = x.made /\ f[x].expires = x.expires
  BY DEF KeepsKeys
<1>4. \A y \in Rewritten(f) : \E x \in otps :
        y = f[x] /\ y.id = x.id /\ y.made = x.made /\ y.expires = x.expires
  BY <1>3 DEF Rewritten
<1>5. IdsOf(Rewritten(f)) = IdsOf(otps)
  BY <1>3, <1>4 DEF Rewritten, IdsOf
<1>6. ASSUME \A x, y \in otps : x.id = y.id => x = y
      PROVE  \A x, y \in Rewritten(f) : x.id = y.id => x = y
  BY <1>4, <1>6
<1>7. Rewritten(f) \subseteq OtpRow /\ (Rewritten(f) = {} <=> otps = {})
  BY <1>3 DEF Rewritten
<1>8. QED  BY <1>2, <1>4, <1>5, <1>6, <1>7

----------------------------------------------------------------------------
(* Steps of a thread                                                       *)

LEMMA OthersUntouched ==
    ASSUME TypeOK, NEW r \in Requests, NEW q \in Requests, q # r, Step(r)
    PROVE  /\ pc'[q] = pc[q] /\ call'[q] = call[q] /\ rows'[q] = rows[q]
           /\ candidate'[q] = candidate[q] /\ at'[q] = at[q]
<1>0. TablesOK /\ LocalsOK  BY TypeSplit
<1>1. \E step : pc' = [pc EXCEPT ![r] = step]
  BY <1>0 DEF TablesOK, Step, Serve, Issue, Verify, SignupExisting, SignupUser, Resend,
         IssueLatest, IssueValid, IssueInvalidate, IssueInsert, IssueEnqueue, VerifyProfile,
         VerifySelect, VerifyClaim, VerifyCheck, VerifySave, Crash, Receive, Goto, Finish
<1>2. call' = call \/ \E c : call' = [call EXCEPT ![r] = c]
  BY <1>0 DEF TablesOK, Step, Serve, Issue, Verify, SignupExisting, SignupUser, Resend,
         IssueLatest, IssueValid, IssueInvalidate, IssueInsert, IssueEnqueue, VerifyProfile,
         VerifySelect, VerifyClaim, VerifyCheck, VerifySave, Crash, Receive, Goto, Finish
<1>3. rows' = rows \/ \E S : rows' = [rows EXCEPT ![r] = S]
  BY <1>0 DEF TablesOK, Step, Serve, Issue, Verify, SignupExisting, SignupUser, Resend,
         IssueLatest, IssueValid, IssueInvalidate, IssueInsert, IssueEnqueue, VerifyProfile,
         VerifySelect, VerifyClaim, VerifyCheck, VerifySave, Crash, Receive, Goto, Finish,
         Locals
<1>4. candidate' = candidate \/ \E x : candidate' = [candidate EXCEPT ![r] = x]
  BY <1>0 DEF TablesOK, Step, Serve, Issue, Verify, SignupExisting, SignupUser, Resend,
         IssueLatest, IssueValid, IssueInvalidate, IssueInsert, IssueEnqueue, VerifyProfile,
         VerifySelect, VerifyClaim, VerifyCheck, VerifySave, Crash, Receive, Goto, Finish,
         Locals
<1>5. at' = at \/ \E t : at' = [at EXCEPT ![r] = t]
  BY <1>0 DEF TablesOK, Step, Serve, Issue, Verify, SignupExisting, SignupUser, Resend,
         IssueLatest, IssueValid, IssueInvalidate, IssueInsert, IssueEnqueue, VerifyProfile,
         VerifySelect, VerifyClaim, VerifyCheck, VerifySave, Crash, Receive, Goto, Finish,
         Locals
<1>6. QED  BY <1>0, <1>1, <1>2, <1>3, <1>4, <1>5 DEF LocalsOK

(* What a thread does to the rows of accounts_emailotp.                    *)
New(r, code) ==
    [id |-> nextId, code |-> code, made |-> now, expires |-> at[r] + TTL,
     attempts |-> 0, live |-> TRUE]

LEMMA OtpsStep ==
    ASSUME TablesOK, NEW r \in Requests, Step(r)
    PROVE  \/ otps' = otps /\ nextId' = nextId /\ account' = account /\ compared' = compared
           \/ IssueInvalidate(r) /\ call[r].op # "signup"
           \/ \E code \in Codes : IssueInsert(r, code)
           \/ VerifySave(r)
BY DEF TablesOK, Step, Serve, Issue, Verify, SignupExisting, SignupUser, Resend,
       IssueLatest, IssueValid, IssueInvalidate, IssueEnqueue, VerifyProfile, VerifySelect,
       VerifyClaim, VerifyCheck, Crash, Receive, Database

----------------------------------------------------------------------------
(* Type correctness                                                        *)

LEMMA FinishTyped ==
    ASSUME LocalsOK, NEW r \in Requests, NEW code \in Answers \cup {"none"}, Finish(r, code)
    PROVE  LocalsOK'
BY DEF LocalsOK, Finish

LEMMA GotoTyped ==
    ASSUME LocalsOK, NEW r \in Requests, NEW step \in Steps, Goto(r, step),
           at' \in [Requests -> Nat], rows' \in [Requests -> SUBSET Ids],
           candidate' \in [Requests -> OtpRow \cup {NoOtp}]
    PROVE  LocalsOK'
BY DEF LocalsOK, Goto

(* A thread that may still insert a code finds a primary key left.         *)
LEMMA KeyLeft ==
    ASSUME TypeOK, RowsInv, NEW r \in Coming  PROVE nextId \in Ids
<1>1. Cardinality(Coming) \in Nat /\ Cardinality(Coming) # 0
  BY OtpAssumption, FS_Subset, FS_CardinalityType, FS_EmptySet DEF OtpAssumption, Coming
<1>2. QED  BY <1>1, OtpAssumption DEF OtpAssumption, RowsInv, TypeOK, Ids

LEMMA ServedLocals ==
    ASSUME TypeOK, RowsInv, NEW r \in Requests, Serve(r)  PROVE LocalsOK'
<1> USE StepNames DEF Locals
<1>0. TablesOK /\ LocalsOK  BY TypeSplit
<1>1. IdsOf(Live) \subseteq Ids
  BY <1>0 DEF TablesOK, IdsOf, Live, OtpRow
<1>2. Answers = {"ok", "otp_invalid", "otp_expired", "otp_max_attempts", "server_error"}
  BY DEF Answers
<1>3. CASE SignupExisting(r) \/ SignupUser(r) \/ Resend(r) \/ VerifyProfile(r)
  <2>1. PICK code \in Answers, step \in Steps :
          Finish(r, code) \/ (Goto(r, step) /\ UNCHANGED Locals)
    BY <1>0, <1>2, <1>3 DEF SignupExisting, SignupUser, Resend, VerifyProfile, TablesOK
  <2>2. CASE Finish(r, code)
    BY <1>0, <2>2, FinishTyped
  <2>3. CASE Goto(r, step) /\ UNCHANGED Locals
    <3>1. at' = at /\ rows' = rows /\ candidate' = candidate  BY <2>3
    <3>2. QED  BY <1>0, <2>3, <3>1, GotoTyped DEF LocalsOK
  <2>4. QED  BY <2>1, <2>2, <2>3
<1>4. CASE IssueLatest(r) \/ IssueValid(r) \/ IssueInvalidate(r) \/ IssueEnqueue(r)
  <2>1. PICK code \in Answers, step \in Steps :
          \/ Finish(r, code)
          \/ /\ Goto(r, step)
             /\ \/ at' = [at EXCEPT ![r] = now] /\ rows' = rows
                \/ /\ at' = at
                   /\ \/ rows' = [rows EXCEPT ![r] = IdsOf(Live)]
                      \/ rows' = [rows EXCEPT ![r] = @ \cap IdsOf(Live)]
                      \/ rows' = [rows EXCEPT ![r] = {}]
             /\ candidate' = candidate
    BY <1>2, <1>4 DEF IssueLatest, IssueValid, IssueInvalidate, IssueEnqueue
  <2>2. CASE Finish(r, code)
    BY <1>0, <2>2, FinishTyped
  <2>3. CASE Goto(r, step) /\ ~Finish(r, code)
    <3>1. at' \in [Requests -> Nat] /\ candidate' \in [Requests -> OtpRow \cup {NoOtp}]
      BY <1>0, <2>1, <2>3 DEF LocalsOK, TablesOK
    <3>2. rows' \in [Requests -> SUBSET Ids]
      BY <1>0, <1>1, <2>1, <2>3 DEF LocalsOK
    <3>3. QED  BY <1>0, <2>3, <3>1, <3>2, GotoTyped
  <2>4. QED  BY <2>1, <2>2, <2>3
<1>5. ASSUME NEW code \in Codes, IssueInsert(r, code)  PROVE LocalsOK'
  <2>1. r \in Coming
    BY <1>5 DEF IssueInsert, Coming
  <2>3. nextId \in Ids  BY <2>1, KeyLeft
  <2>4. rows' \in [Requests -> SUBSET Ids] /\ at' = at /\ candidate' = candidate
    BY <1>0, <1>5, <2>3 DEF IssueInsert, LocalsOK
  <2>5. QED  BY <1>0, <1>5, <2>4, GotoTyped DEF IssueInsert, LocalsOK
<1>6. CASE VerifySelect(r) \/ VerifyCheck(r)
  <2>1. PICK code \in Answers, step \in Steps :
          \/ Finish(r, code)
          \/ /\ Goto(r, step) /\ at' = at /\ candidate' = candidate
             /\ rows' = rows \/ rows' = [rows EXCEPT ![r] = IdsOf(Live)]
    BY <1>2, <1>6 DEF VerifySelect, VerifyCheck
  <2>2. CASE Finish(r, code)
    BY <1>0, <2>2, FinishTyped
  <2>3. CASE Goto(r, step) /\ ~Finish(r, code)
    <3>1. rows' \in [Requests -> SUBSET Ids]
      BY <1>0, <1>1, <2>1, <2>3 DEF LocalsOK
    <3>2. QED  BY <1>0, <2>1, <2>3, <3>1, GotoTyped DEF LocalsOK
  <2>4. QED  BY <2>1, <2>2, <2>3
<1>7. CASE VerifyClaim(r)
  <2>1. CASE Finish(r, "otp_invalid")
    BY <1>0, <1>2, <2>1, FinishTyped
  <2>2. CASE ~Finish(r, "otp_invalid")
    <3>1. PICK x \in otps, step \in Steps :
            /\ Goto(r, step) /\ at' = at
            /\ \/ candidate' = [candidate EXCEPT ![r] = x] /\ rows' = [rows EXCEPT ![r] = {}]
               \/ candidate' = candidate /\ rows' = [rows EXCEPT ![r] = @ \ {x.id}]
      BY <1>7, <2>2 DEF VerifyClaim, NewestFirst
    <3>2. x \in OtpRow  BY <1>0 DEF TablesOK
    <3>3. candidate' \in [Requests -> OtpRow \cup {NoOtp}] /\ rows' \in [Requests -> SUBSET Ids]
      BY <1>0, <3>1, <3>2 DEF LocalsOK
    <3>4. QED  BY <1>0, <3>1, <3>3, GotoTyped DEF LocalsOK
  <2>3. QED  BY <2>1, <2>2
<1>8. CASE VerifySave(r)
  <2>1. PICK code \in Answers : Finish(r, code)
    BY <1>2, <1>8 DEF VerifySave
  <2>2. QED  BY <1>0, <2>1, FinishTyped
<1>9. QED  BY <1>3, <1>4, <1>5, <1>6, <1>7, <1>8 DEF Serve, Issue, Verify

LEMMA ReceiveLocals ==
    ASSUME TypeOK, NEW r \in Requests, NEW c \in Call, Receive(r, c)  PROVE LocalsOK'
<1>0. LocalsOK  BY TypeSplit
<1>1. FirstStep[c.op] \in Steps  BY CallOps, StepNames
<1>2. QED  BY <1>0, <1>1 DEF Receive, Locals, LocalsOK

LEMMA NewTyped ==
    ASSUME TypeOK, RowsInv, NEW r \in Coming, NEW code \in Codes
    PROVE  New(r, code) \in OtpRow
<1>1. nextId \in Ids /\ at[r] + TTL \in Nat
  BY KeyLeft, OtpAssumption DEF OtpAssumption, Coming, TypeOK
<1>2. QED  BY <1>1 DEF New, OtpRow, TypeOK

(* The row verify has in hand, with the attempt counted or the code used.  *)
LEMMA SavedRow ==
    ASSUME TypeOK, LocksInv, RowsInv, NEW r \in Requests, VerifySave(r)
    PROVE  LET x == candidate[r] IN
           /\ x \in Live /\ x \in OtpRow
           /\ \E z \in OtpRow :
                /\ otps' = Stored(z) /\ z.id = x.id /\ z.made = x.made
                /\ z.expires = x.expires
                /\ \/ /\ z.live = FALSE /\ z.attempts = x.attempts /\ compared' = compared
                      /\ account' = "verified"
                   \/ /\ z.live = TRUE /\ z.attempts = x.attempts + 1
                      /\ compared' = [compared EXCEPT ![x.id] = @ + 1]
                      /\ account' = account
<1> DEFINE x == candidate[r]
<1>1. x \in Live /\ x \in OtpRow /\ x.live = TRUE
  BY DEF VerifySave, LocksInv, Live, TypeOK, OtpRow
<1>2. /\ [x EXCEPT !.live = FALSE] \in OtpRow
      /\ [x EXCEPT !.live = FALSE].id = x.id
      /\ [x EXCEPT !.live = FALSE].made = x.made
      /\ [x EXCEPT !.live = FALSE].expires = x.expires
      /\ [x EXCEPT !.live = FALSE].attempts = x.attempts
      /\ [x EXCEPT !.live = FALSE].live = FALSE
  BY <1>1 DEF OtpRow
<1>3. /\ [x EXCEPT !.attempts = @ + 1] \in OtpRow
      /\ [x EXCEPT !.attempts = @ + 1].id = x.id
      /\ [x EXCEPT !.attempts = @ + 1].made = x.made
      /\ [x EXCEPT !.attempts = @ + 1].expires = x.expires
      /\ [x EXCEPT !.attempts = @ + 1].attempts = x.attempts + 1
      /\ [x EXCEPT !.attempts = @ + 1].live = TRUE
  BY <1>1 DEF OtpRow
<1>4. \/ /\ otps' = Stored([x EXCEPT !.live = FALSE]) /\ account' = "verified"
         /\ compared' = compared
      \/ /\ otps' = Stored([x EXCEPT !.attempts = @ + 1]) /\ account' = account
         /\ compared' = [compared EXCEPT ![x.id] = @ + 1]
  BY DEF VerifySave
<1> HIDE DEF x
<1>5. CASE otps' = Stored([x EXCEPT !.live = FALSE]) /\ account' = "verified" /\ compared' = compared
  BY <1>1, <1>2, <1>5 DEF x
<1>6. CASE /\ otps' = Stored([x EXCEPT !.attempts = @ + 1]) /\ account' = account
           /\ compared' = [compared EXCEPT ![x.id] = @ + 1]
  BY <1>1, <1>3, <1>6 DEF x
<1>7. QED  BY <1>4, <1>5, <1>6

(* What a step of a thread does to the rows: each keeps its key and its    *)
(* times, those others have locked stay as they are, attempts and wrong     *)
(* guesses go together, and one row at most is added, by a thread that     *)
(* passed the test of the cooldown.                                        *)
RowsMove(r, f) ==
    /\ KeepsKeys(f)
    /\ now' = now /\ (account # "none" => account' # "none")
    /\ \A q \in Requests \ {r}, x \in otps : Holds(q, x.id) => f[x] = x
    /\ \A x \in otps : f[x].attempts = compared'[x.id] /\ f[x].attempts <= MaxAttempts
    /\ compared' \in [Ids -> Nat]
    /\ \A i \in Ids : i >= nextId => compared'[i] = 0
    /\ \/ /\ otps' = Rewritten(f) /\ nextId' = nextId
          /\ account' = account \/ (account' = "verified" /\ otps # {})
       \/ \E code \in Codes :
            /\ otps' = Rewritten(f) \cup {New(r, code)} /\ nextId' = nextId + 1
            /\ account' \in {"unverified", "verified"} /\ compared' = compared
            /\ pc[r] = "insert" /\ pc'[r] = "enqueue" /\ r \in Passed

LEMMA RowsStep ==
    ASSUME OtpInv, NEW r \in Requests, Step(r)  PROVE \E f : RowsMove(r, f)
<1> DEFINE same == [x \in otps |-> x]
<1>0. TypeOK /\ TablesOK /\ LocalsOK  BY TypeSplit DEF OtpInv
<1>1. KeepsKeys(same) /\ Rewritten(same) = otps
  BY <1>0 DEF KeepsKeys, Rewritten, TablesOK
<1>2. /\ \A x \in otps : x.attempts = compared[x.id] /\ x.attempts <= MaxAttempts
      /\ \A i \in Ids : i >= nextId => compared[i] = 0
  BY DEF OtpInv, GuessesInv, GuessesCounted
<1>3. now' = now
  BY <1>0 DEF TablesOK, Step, Serve, Issue, Verify, SignupExisting, SignupUser, Resend,
     IssueLatest, IssueValid, IssueInvalidate, IssueInsert, IssueEnqueue, VerifyProfile,
     VerifySelect, VerifyClaim, VerifyCheck, VerifySave, Crash, Receive
<1>4. CASE otps' = otps /\ nextId' = nextId /\ account' = account /\ compared' = compared
  <2>1. RowsMove(r, same)
    BY <1>0, <1>1, <1>2, <1>3, <1>4 DEF RowsMove, TablesOK
  <2>2. QED  BY <2>1
<1>5. CASE IssueInvalidate(r) /\ call[r].op # "signup"
  <2> DEFINE f == Invalidation(rows[r])
  <2>1. /\ KeepsKeys(f) /\ otps' = Rewritten(f)
        /\ \A x \in otps : f[x].attempts = x.attempts /\ (x.id \notin rows[r] => f[x] = x)
    BY <1>0, <1>5, InvalidatedRows DEF IssueInvalidate
  <2>2. \A q \in Requests, x \in otps : Holds(q, x.id) => x.id \notin rows[r]
    BY <1>5 DEF IssueInvalidate, Free
  <2> HIDE DEF f
  <2>3. RowsMove(r, f)
    BY <1>0, <1>2, <1>3, <1>5, <2>1, <2>2 DEF RowsMove, IssueInvalidate, TablesOK
  <2>4. QED  BY <2>3
<1>6. ASSUME NEW code \in Codes, IssueInsert(r, code)  PROVE \E f : RowsMove(r, f)
  <2> DEFINE f == Invalidation(rows[r])
  <2>1. /\ KeepsKeys(f) /\ otps' = Rewritten(f) \cup {New(r, code)}
        /\ \A x \in otps : f[x].attempts = x.attempts /\ (x.id \notin rows[r] => f[x] = x)
    BY <1>0, <1>6, InvalidatedRows DEF IssueInsert, New
  <2>2. \A q \in Requests \ {r}, x \in otps : Holds(q, x.id) => x.id \notin rows[r]
    <3>1. \A x \in otps : x.id \in Ids  BY <1>0 DEF TablesOK, OtpRow
    <3>2. \A i \in rows[r] : Holds(r, i)  BY <1>6 DEF IssueInsert, Holds
    <3>3. QED  BY <3>1, <3>2 DEF OtpInv, LocksInv
  <2>3. pc[r] = "insert" /\ pc'[r] = "enqueue" /\ r \in Passed
    BY <1>0, <1>6, StepNames DEF IssueInsert, Goto, LocalsOK, Passed
  <2>4. /\ nextId' = nextId + 1 /\ compared' = compared
        /\ account' = IF account = "none" THEN "unverified" ELSE account
        /\ account # "bare"
    BY <1>6, StepNames DEF IssueInsert, OtpInv, RowsInv
  <2> HIDE DEF f
  <2>5. RowsMove(r, f)
    BY <1>0, <1>2, <1>3, <2>1, <2>2, <2>3, <2>4 DEF RowsMove, TablesOK
  <2>6. QED  BY <2>5
<1>7. CASE VerifySave(r)
  <2> DEFINE x == candidate[r]
  <2>1. x \in Live /\ x \in otps /\ x \in OtpRow /\ x.attempts < MaxAttempts
    BY <1>0, <1>7, SavedRow DEF OtpInv, Live, GuessesInv, VerifySave
  <2>2. PICK z \in OtpRow :
          /\ otps' = Stored(z) /\ z.id = x.id /\ z.made = x.made /\ z.expires = x.expires
          /\ \/ z.attempts = x.attempts /\ compared' = compared /\ account' = "verified"
             \/ /\ z.attempts = x.attempts + 1 /\ account' = account
                /\ compared' = [compared EXCEPT ![x.id] = @ + 1]
    BY <1>0, <1>7, SavedRow DEF OtpInv
  <2>3. \A y \in otps : y.id = x.id => y = x
    BY <2>1 DEF OtpInv, RowsInv
  <2> DEFINE f == Storing(z)
  <2>4. KeepsKeys(f) /\ otps' = Rewritten(f) /\ f[x] = z /\ \A y \in otps : y # x => f[y] = y
    BY <1>0, <2>1, <2>2, <2>3, StoredRows
  <2>5. \A q \in Requests \ {r}, y \in otps : Holds(q, y.id) => y # x
    <3>1. Holds(r, x.id) /\ x.id \in Ids  BY <1>7, <2>1 DEF VerifySave, Holds, OtpRow
    <3>2. QED  BY <3>1 DEF OtpInv, LocksInv
  <2>6. nextId' = nextId  BY <1>7 DEF VerifySave
  <2>7. x.id < nextId /\ x.attempts \in Nat /\ MaxAttempts \in Nat /\ x.id \in Ids
    BY <2>1, OtpAssumption DEF OtpInv, RowsInv, OtpRow, OtpAssumption
  <2> HIDE DEF x, f
  <2>8. /\ \A y \in otps : f[y].attempts = compared'[y.id] /\ f[y].attempts <= MaxAttempts
        /\ compared' \in [Ids -> Nat]
        /\ \A i \in Ids : i >= nextId => compared'[i] = 0
    <3>1. CASE z.attempts = x.attempts /\ compared' = compared
      BY <1>0, <1>2, <2>1, <2>4, <3>1 DEF TablesOK
    <3>2. CASE z.attempts = x.attempts + 1 /\ compared' = [compared EXCEPT ![x.id] = @ + 1]
      <4>1. \A y \in otps : y # x => y.id # x.id /\ y.id \in Ids
        BY <1>0, <2>3 DEF TablesOK, OtpRow
      <4>2. /\ compared'[x.id] = compared[x.id] + 1 /\ compared' \in [Ids -> Nat]
            /\ \A i \in Ids : i # x.id => compared'[i] = compared[i]
        BY <1>0, <2>7, <3>2 DEF TablesOK
      <4>3. z.attempts = compared'[x.id] /\ z.attempts <= MaxAttempts
        BY <1>2, <2>1, <2>7, <3>2, <4>2
      <4>4. \A i \in Ids : i >= nextId => i # x.id
        BY <1>0, <2>7 DEF TablesOK, Ids
      <4>5. QED  BY <1>2, <2>1, <2>4, <4>1, <4>2, <4>3, <4>4
    <3>3. QED  BY <2>2, <3>1, <3>2
  <2>9. account # "none" => account' # "none"
    BY <2>2
  <2>10. RowsMove(r, f)
    BY <1>3, <2>1, <2>2, <2>4, <2>5, <2>6, <2>8, <2>9 DEF RowsMove
  <2>11. QED  BY <2>10
<1>8. QED  BY <1>0, <1>4, <1>5, <1>6, <1>7, OtpsStep

LEMMA TypeStep ==
    ASSUME OtpInv, [Next]_vars  PROVE TypeOK'
<1>0. TypeOK /\ TablesOK /\ LocalsOK /\ RowsInv /\ MaxOtps \in Nat
  BY TypeSplit, OtpAssumption DEF OtpInv, OtpAssumption
<1> SUFFICES TablesOK' /\ LocalsOK'  BY DEF TypeOK, TablesOK, LocalsOK
<1>1. ASSUME NEW r \in Requests, Step(r)  PROVE TablesOK' /\ LocalsOK'
  <2>1. PICK f : RowsMove(r, f)  BY <1>1, RowsStep
  <2>2. Rewritten(f) \subseteq OtpRow /\ IsFiniteSet(Rewritten(f))
    BY <1>0, <2>1, RewrittenRows DEF RowsMove
  <2>3. otps' \subseteq OtpRow /\ IsFiniteSet(otps') /\ nextId' \in 1 .. MaxOtps + 1
    <3>1. ASSUME NEW code \in Codes, r \in Passed, otps' = Rewritten(f) \cup {New(r, code)},
                 nextId' = nextId + 1
          PROVE  otps' \subseteq OtpRow /\ IsFiniteSet(otps') /\ nextId' \in 1 .. MaxOtps + 1
      <4>1. r \in Coming  BY <3>1, StepNames DEF Passed, Coming
      <4>2. New(r, code) \in OtpRow /\ nextId \in Ids
        BY <1>0, <4>1, NewTyped, KeyLeft
      <4>3. IsFiniteSet(Rewritten(f) \cup {New(r, code)})
        BY <2>2, FS_AddElement
      <4>4. QED  BY <1>0, <2>2, <3>1, <4>2, <4>3 DEF Ids
    <3>2. QED  BY <1>0, <2>1, <2>2, <3>1 DEF RowsMove, TablesOK
  <2>4. queued' \subseteq Ids
    <3>1. CASE IssueEnqueue(r)
      BY <1>0, <3>1 DEF IssueEnqueue, TablesOK, LocalsOK
    <3>2. CASE ~IssueEnqueue(r)
      BY <1>0, <1>1, <3>2
         DEF TablesOK, Step, Serve, Issue, Verify, SignupExisting, SignupUser, Resend,
             IssueLatest, IssueValid, IssueInvalidate, IssueInsert, VerifyProfile,
             VerifySelect, VerifyClaim, VerifyCheck, VerifySave, Crash, Receive, Database
    <3>3. QED  BY <3>1, <3>2
  <2>5. TablesOK'
    BY <1>0, <2>1, <2>3, <2>4 DEF RowsMove, TablesOK
  <2>6. LocalsOK'
    <3>1. CASE Crash(r)
      BY <1>0, <3>1, FinishTyped DEF Crash
    <3>2. QED  BY <1>0, <1>1, <3>1, ServedLocals, ReceiveLocals DEF Step
  <2>7. QED  BY <2>5, <2>6
<1>2. CASE Tick \/ UNCHANGED vars
  BY <1>0, <1>2 DEF Tick, vars, Database, Locals, TablesOK, LocalsOK
<1>3. QED  BY <1>1, <1>2 DEF Next, Step

----------------------------------------------------------------------------
(* The conjuncts of OtpInv                                                 *)

(* Where a thread can come from.                                           *)
LEMMA ThreadStep ==
    ASSUME TypeOK, StepsOfCalls, NEW r \in Requests, Step(r)
    PROVE  \/ pc'[r] = "idle"
           \/ Receive(r, call'[r]) /\ call'[r] \in Call /\ pc'[r] \in {"existing", "resend", "profile"}
           \/ /\ call'[r] = call[r] /\ pc[r] \in Steps
              /\ \/ pc[r] = "existing" /\ pc'[r] = "user" /\ account = "none"
                 \/ pc[r] = "existing" /\ pc'[r] = "latest" /\ account = "unverified"
                 \/ pc[r] = "user" /\ pc'[r] = "latest" /\ \A q \in Requests : ~Creating(q)
                 \/ pc[r] = "resend" /\ pc'[r] = "latest" /\ account = "unverified"
                 \/ IssueLatest(r) /\ pc[r] = "latest" /\ pc'[r] = "valid"
                 \/ IssueValid(r) /\ pc[r] = "valid" /\ pc'[r] = "invalidate"
                 \/ IssueInvalidate(r) /\ pc[r] = "invalidate" /\ pc'[r] = "insert"
                 \/ (\E code \in Codes : IssueInsert(r, code)) /\ pc[r] = "insert" /\ pc'[r] = "enqueue"
                 \/ pc[r] = "profile" /\ pc'[r] = "select"
                 \/ pc[r] = "select" /\ pc'[r] = "claim"
                 \/ VerifyClaim(r) /\ pc[r] = "claim" /\ pc'[r] \in {"claim", "check"}
                 \/ VerifyCheck(r) /\ pc[r] = "check" /\ pc'[r] = "save"
<1>0. TablesOK /\ LocalsOK  BY TypeSplit
<1>1. CASE Crash(r)
  BY <1>0, <1>1 DEF Crash, Finish, LocalsOK
<1>2. ASSUME NEW c \in Call, Receive(r, c)
      PROVE  /\ Receive(r, call'[r]) /\ call'[r] \in Call
             /\ pc'[r] \in {"existing", "resend", "profile"}
  BY <1>0, <1>2, CallOps DEF Receive, LocalsOK
<1>3. CASE SignupExisting(r) \/ SignupUser(r) \/ Resend(r) \/ IssueLatest(r) \/ IssueValid(r)
  BY <1>0, <1>3, StepNames
     DEF SignupExisting, SignupUser, Resend, IssueLatest, IssueValid, Goto, Finish,
         LocalsOK, TablesOK
<1>4. CASE IssueInvalidate(r) \/ (\E code \in Codes : IssueInsert(r, code)) \/ IssueEnqueue(r)
  BY <1>0, <1>4, StepNames DEF IssueInvalidate, IssueInsert, IssueEnqueue, Goto, Finish, LocalsOK
<1>5. CASE VerifyProfile(r) \/ VerifySelect(r) \/ VerifyCheck(r) \/ VerifySave(r)
  BY <1>0, <1>5, StepNames
     DEF VerifyProfile, VerifySelect, VerifyCheck, VerifySave, Goto, Finish, LocalsOK, TablesOK
<1>6. CASE VerifyClaim(r)
  BY <1>0, <1>6, StepNames DEF VerifyClaim, Goto, Finish, LocalsOK
<1>7. QED  BY <1>1, <1>2, <1>3, <1>4, <1>5, <1>6 DEF Step, Serve, Issue, Verify

LEMMA StepsOfCallsStep ==
    ASSUME OtpInv, [Next]_vars  PROVE StepsOfCalls'
<1>0. TypeOK /\ TypeOK' /\ StepsOfCalls  BY TypeStep DEF OtpInv
<1>1. ASSUME NEW r \in Requests, Step(r), NEW q \in Requests
      PROVE  /\ pc'[q] \in VerifySteps => call'[q].op = "verify"
             /\ pc'[q] \in Steps \ VerifySteps => call'[q].op \in {"signup", "resend"}
  <2>1. CASE q # r
    BY <1>0, <1>1, <2>1, OthersUntouched DEF StepsOfCalls
  <2>2. CASE q = r
    <3>1. CASE pc'[r] = "idle"
      BY <2>2, <3>1, StepNames
    <3>2. CASE Receive(r, call'[r]) /\ call'[r] \in Call
      <4>1. pc'[r] = FirstStep[call'[r].op]
        BY <1>0, <3>2 DEF Receive, TypeOK
      <4>2. QED  BY <2>2, <3>2, <4>1, CallOps, StepNames
    <3>3. CASE call'[r] = call[r] /\ pc[r] \in Steps /\ pc'[r] # "idle"
               /\ ~(Receive(r, call'[r]) /\ call'[r] \in Call)
      BY <1>0, <1>1, <2>2, <3>3, ThreadStep, StepNames DEF StepsOfCalls
    <3>4. QED  BY <1>0, <1>1, <3>1, <3>2, <3>3, ThreadStep
  <2>3. QED  BY <2>1, <2>2
<1>2. CASE Tick \/ UNCHANGED vars
  BY <1>0, <1>2 DEF Tick, vars, StepsOfCalls
<1>3. QED  BY <1>1, <1>2 DEF Next, Step, StepsOfCalls

(* The threads to come and those that passed change by one at most.        *)
LEMMA ComingStep ==
    ASSUME OtpInv, NEW r \in Requests, Step(r)
    PROVE  /\ Coming' \subseteq Coming \cup {r} /\ Passed' \subseteq Passed \cup {r}
           /\ \/ Coming' \subseteq Coming
              \/ /\ otps' = otps /\ nextId' = nextId /\ r \notin Coming /\ r \notin Passed'
                 /\ nextId + Cardinality(Issuing) <= MaxOtps
           /\ \/ Passed' \subseteq Passed
              \/ /\ otps' = otps /\ now' = now /\ \A x \in otps : now - x.made >= Cooldown
           /\ pc'[r] = "enqueue" => r \notin Coming' /\ r \notin Passed'
<1>0. TypeOK /\ TypeOK' /\ StepsOfCalls  BY TypeStep DEF OtpInv, Next, Step
<1>1. \A q \in Requests : q # r => pc'[q] = pc[q]
  BY <1>0, OthersUntouched
<1>2. CASE Receive(r, call'[r]) /\ call'[r] \in Call
  <2>1. pc[r] = "idle" /\ pc'[r] \in {"existing", "resend", "profile"} /\ otps' = otps /\ nextId' = nextId
    BY <1>0, <1>2, CallOps DEF Receive, Database, TypeOK
  <2>2. \/ pc'[r] = "profile"
        \/ nextId + Cardinality(Issuing) <= MaxOtps
    BY <1>0, <1>2, CallOps DEF Receive, TypeOK
  <2>3. Passed' \subseteq Passed /\ r \notin Coming
    BY <1>1, <2>1, StepNames DEF Passed, Coming
  <2>4. pc'[r] = "profile" => Coming' \subseteq Coming
    BY <1>1, StepNames DEF Coming
  <2>5. Coming' \subseteq Coming \cup {r} /\ r \notin Passed'
    BY <1>1, <2>1, StepNames DEF Coming, Passed
  <2>6. pc'[r] # "enqueue"  BY <2>1
  <2>7. QED  BY <2>1, <2>2, <2>3, <2>4, <2>5, <2>6
<1>3. CASE ~(Receive(r, call'[r]) /\ call'[r] \in Call)
  <2>1. r \in Coming' => r \in Coming
    BY <1>0, <1>3, ThreadStep, StepNames DEF Coming
  <2>2. r \in Passed' => r \in Passed \/ (IssueLatest(r) /\ pc'[r] = "valid")
    BY <1>0, <1>3, ThreadStep, StepNames DEF Passed
  <2>3. pc'[r] = "enqueue" => r \notin Coming' /\ r \notin Passed'
    BY StepNames DEF Coming, Passed
  <2>4. Coming' \subseteq Coming
    BY <1>1, <2>1 DEF Coming
  <2>5. Passed' \subseteq Passed \cup {r} /\ (~(r \in Passed' /\ r \notin Passed) => Passed' \subseteq Passed)
    BY <1>1 DEF Passed
  <2>6. ASSUME IssueLatest(r), pc'[r] = "valid"
        PROVE  otps' = otps /\ now' = now /\ \A x \in otps : now - x.made >= Cooldown
    <3>1. ~Finish(r, "ok")
      BY <1>0, <2>6 DEF Finish, TypeOK
    <3>2. /\ otps' = otps /\ now' = now
          /\ \A x \in otps : ~(now - x.made < Cooldown)
      BY <2>6, <3>1 DEF IssueLatest, Database
    <3>3. now \in Int /\ Cooldown \in Int /\ \A x \in otps : x.made \in Int
      BY <1>0, OtpAssumption DEF OtpAssumption, TypeOK, OtpRow
    <3>4. QED  BY <3>2, <3>3
  <2>7. QED  BY <2>2, <2>3, <2>4, <2>5, <2>6
<1>4. QED  BY <1>2, <1>3

LEMMA RowsInvStep ==
    ASSUME OtpInv, [Next]_vars  PROVE RowsInv'
<1>0. TypeOK /\ TypeOK' /\ TablesOK /\ RowsInv /\ StepsOfCalls
  BY TypeStep, TypeSplit DEF OtpInv
<1>1. ASSUME NEW r \in Requests, Step(r)  PROVE RowsInv'
  <2>1. PICK f : RowsMove(r, f)  BY <1>1, RowsStep
  <2>2. /\ IdsOf(Rewritten(f)) = IdsOf(otps) /\ (Rewritten(f) = {} <=> otps = {})
        /\ \A x, y \in Rewritten(f) : x.id = y.id => x = y
        /\ \A y \in Rewritten(f) : \E x \in otps : y.id = x.id
    BY <1>0, <2>1, RewrittenRows DEF RowsMove, RowsInv
  <2>3. \A y \in Rewritten(f) : y.id < nextId
    BY <1>0, <2>2 DEF RowsInv
  <2>4. nextId' = nextId \/ nextId' = nextId + 1
    BY <2>1 DEF RowsMove
  <2>5. /\ \A x \in otps' : x.id < nextId'
        /\ \A x, y \in otps' : x.id = y.id => x = y
        /\ account' \in {"none", "bare"} <=> otps' = {}
    <3>1. CASE otps' = Rewritten(f) /\ nextId' = nextId
               /\ (account' = account \/ (account' = "verified" /\ otps # {}))
      BY <1>0, <2>2, <2>3, <3>1 DEF RowsInv
    <3>2. ASSUME NEW code \in Codes, otps' = Rewritten(f) \cup {New(r, code)},
                 nextId' = nextId + 1, account' \in {"unverified", "verified"}
          PROVE  /\ \A x \in otps' : x.id < nextId'
                 /\ \A x, y \in otps' : x.id = y.id => x = y
                 /\ account' \in {"none", "bare"} <=> otps' = {}
      <4>1. New(r, code).id = nextId /\ nextId \in Nat /\ \A y \in Rewritten(f) : y.id \in Nat
        BY <1>0, <2>1, RewrittenRows DEF New, TablesOK, RowsMove, OtpRow, Ids
      <4>2. QED  BY <2>2, <2>3, <3>2, <4>1
    <3>3. QED  BY <2>1, <3>1, <3>2 DEF RowsMove
  <2>6. nextId' + Cardinality(Coming') <= MaxOtps + 1
    <3>1. /\ IsFiniteSet(Coming) /\ IsFiniteSet(Coming') /\ IsFiniteSet(Issuing)
          /\ Cardinality(Coming) \in Nat /\ Cardinality(Coming') \in Nat
          /\ Cardinality(Issuing) \in Nat
      BY OtpAssumption, FS_Subset, FS_CardinalityType DEF OtpAssumption, Coming, Issuing
    <3>2. MaxOtps \in Nat /\ nextId \in Nat  BY <1>0, OtpAssumption DEF OtpAssumption, TablesOK
    <3>3. Cardinality(Coming) <= Cardinality(Issuing)
      <4>1. Coming \subseteq Issuing
        BY <1>0, StepNames DEF Coming, Issuing, StepsOfCalls
      <4>2. QED  BY <3>1, <4>1, FS_Subset
    <3>4. CASE Coming' \subseteq Coming /\ nextId' = nextId
      <4>1. Cardinality(Coming') <= Cardinality(Coming)  BY <3>1, <3>4, FS_Subset
      <4>2. QED  BY <1>0, <3>1, <3>2, <3>4, <4>1 DEF RowsInv
    <3>5. CASE nextId' = nextId + 1
      <4>1. r \in Passed /\ pc'[r] = "enqueue"
        BY <2>1, <3>2, <3>5 DEF RowsMove
      <4>2. r \in Coming /\ r \notin Coming' /\ Coming' \subseteq Coming
        BY <1>1, <4>1, ComingStep, StepNames DEF Passed, Coming
      <4>3. Coming' \subseteq Coming \ {r}  BY <4>2
      <4>4. Cardinality(Coming') <= Cardinality(Coming) - 1
        <5>1. IsFiniteSet(Coming \ {r}) /\ Cardinality(Coming \ {r}) = Cardinality(Coming) - 1
          BY <3>1, <4>2, FS_RemoveElement
        <5>2. QED  BY <4>3, <5>1, FS_Subset
      <4>5. QED  BY <1>0, <3>1, <3>2, <3>5, <4>4 DEF RowsInv
    <3>6. CASE /\ nextId' = nextId /\ Coming' \subseteq Coming \cup {r}
               /\ nextId + Cardinality(Issuing) <= MaxOtps
      <4>1. Cardinality(Coming') <= Cardinality(Coming) + 1
        <5>1. /\ IsFiniteSet(Coming \cup {r})
              /\ Cardinality(Coming \cup {r}) <= Cardinality(Coming) + 1
          <6>1. /\ IsFiniteSet(Coming \cup {r})
                /\ Cardinality(Coming \cup {r}) =
                     IF r \in Coming THEN Cardinality(Coming) ELSE Cardinality(Coming) + 1
            BY <3>1, FS_AddElement, Zenon
          <6>2. QED  BY <3>1, <6>1
        <5>2. Cardinality(Coming') <= Cardinality(Coming \cup {r})
          BY <3>6, <5>1, FS_Subset
        <5>3. Cardinality(Coming \cup {r}) \in Nat  BY <5>1, FS_CardinalityType
        <5>4. QED  BY <3>1, <5>1, <5>2, <5>3
      <4>2. QED  BY <3>1, <3>2, <3>3, <3>6, <4>1
    <3>7. QED  BY <1>1, <2>4, <3>4, <3>5, <3>6, ComingStep
  <2>7. ASSUME NEW p \in Requests, NEW q \in Requests, Creating(p)', Creating(q)'
        PROVE  p = q
    <3>1. account = "none"
      BY <2>1, <2>7 DEF RowsMove, Creating
    <3>2. \A o \in Requests \ {r} : Creating(o)' => Creating(o)
      BY <1>0, <1>1, <3>1, OthersUntouched DEF Creating
    <3>3. Creating(r)' => Creating(r) \/ \A o \in Requests : ~Creating(o)
      <4>1. CASE pc'[r] = "latest"
        BY <1>0, <1>1, <3>1, <4>1, ThreadStep DEF Creating
      <4>2. CASE pc'[r] \in {"valid", "invalidate", "insert"}
        BY <1>0, <1>1, <3>1, <4>2, ThreadStep, StepNames DEF Creating
      <4>3. QED  BY <4>1, <4>2, StepNames DEF Creating
    <3>4. QED  BY <1>0, <2>7, <3>2, <3>3 DEF RowsInv
  <2>8. ASSUME account' = "bare", NEW q \in Requests
        PROVE  pc'[q] \notin {"user"} \cup IssueSteps
    <3>1. account = "bare"
      BY <2>1, <2>8 DEF RowsMove
    <3>2. pc[q] \notin {"user"} \cup IssueSteps
      BY <1>0, <3>1 DEF RowsInv
    <3>3. CASE q = r
      BY <1>0, <1>1, <3>1, <3>2, <3>3, ThreadStep, StepNames
    <3>4. CASE q # r
      BY <1>0, <1>1, <3>2, <3>4, OthersUntouched
    <3>5. QED  BY <3>3, <3>4
  <2>9. QED  BY <2>5, <2>6, <2>7, <2>8 DEF RowsInv
<1>2. CASE Tick \/ UNCHANGED vars
  BY <1>0, <1>2 DEF Tick, vars, RowsInv, Database, Coming, Creating
<1>3. QED  BY <1>1, <1>2 DEF Next, Step

(* A lock another thread holds is kept; the one a thread has afterwards it *)
(* had before or found free, and what verify takes in hand is a live row.  *)
LEMMA HoldsStep ==
    ASSUME OtpInv, NEW r \in Requests, Step(r)
    PROVE  /\ \A q \in Requests \ {r}, i \in Ids : Holds(q, i)' <=> Holds(q, i)
           /\ \A i \in Ids : Holds(r, i)' => Holds(r, i) \/ Free(i)
           /\ pc'[r] = "check" => otps' = otps /\ candidate'[r] \in Live
           /\ pc'[r] = "save" =>
                /\ otps' = otps /\ candidate'[r] = candidate[r] /\ pc[r] = "check"
                /\ candidate[r].attempts < MaxAttempts
<1>0. TypeOK /\ TypeOK' /\ LocalsOK /\ LocalsOK' /\ StepsOfCalls
  BY TypeStep, TypeSplit DEF OtpInv, Next, Step, TypeOK, LocalsOK
<1>1. \A q \in Requests \ {r}, i \in Ids : Holds(q, i)' <=> Holds(q, i)
  BY <1>0, OthersUntouched DEF Holds
<1>2. CASE pc'[r] = "insert"
  <2>1. IssueInvalidate(r) /\ \A i \in rows[r] : Free(i)
    BY <1>0, <1>2, ThreadStep DEF IssueInvalidate
  <2>2. rows'[r] \subseteq rows[r]
    BY <1>0, <2>1 DEF IssueInvalidate, LocalsOK
  <2>3. QED  BY <1>1, <1>2, <2>1, <2>2 DEF Holds
<1>3. CASE pc'[r] = "check"
  <2>1. VerifyClaim(r)
    BY <1>0, <1>3, ThreadStep
  <2>2. PICK x \in otps : /\ Free(x.id) /\ x.live /\ otps' = otps
                          /\ candidate' = [candidate EXCEPT ![r] = x]
    BY <1>0, <1>3, <2>1 DEF VerifyClaim, NewestFirst, Goto, Finish, LocalsOK, Database
  <2>3. candidate'[r] = x  BY <1>0, <2>2 DEF LocalsOK
  <2>4. QED  BY <1>1, <1>3, <2>2, <2>3 DEF Holds, Live
<1>4. CASE pc'[r] = "save"
  <2>1. VerifyCheck(r) /\ pc[r] = "check"
    BY <1>0, <1>4, ThreadStep
  <2>2. /\ candidate' = candidate /\ otps' = otps
        /\ ~(candidate[r].attempts >= MaxAttempts)
    BY <1>0, <1>4, <2>1 DEF VerifyCheck, Goto, Finish, LocalsOK, Locals, Database
  <2>3. candidate[r].attempts \in Int /\ MaxAttempts \in Int
    BY <2>1, OtpAssumption DEF OtpInv, LocksInv, Live, TypeOK, OtpRow, OtpAssumption
  <2>4. candidate[r].attempts < MaxAttempts  BY <2>2, <2>3
  <2>5. QED  BY <1>1, <1>4, <2>1, <2>2, <2>4 DEF Holds
<1>5. CASE pc'[r] \notin {"insert", "check", "save"}
  BY <1>1, <1>5 DEF Holds
<1>6. QED  BY <1>2, <1>3, <1>4, <1>5

LEMMA LocksInvStep ==
    ASSUME OtpInv, [Next]_vars  PROVE LocksInv'
<1>0. TypeOK /\ TablesOK /\ LocksInv  BY TypeSplit DEF OtpInv
<1>1. ASSUME NEW r \in Requests, Step(r)  PROVE LocksInv'
  <2>1. PICK f : RowsMove(r, f)  BY <1>1, RowsStep
  <2>2. ASSUME NEW p \in Requests, NEW q \in Requests, NEW i \in Ids, Holds(p, i)', Holds(q, i)'
        PROVE  p = q
    BY <1>0, <1>1, <2>2, HoldsStep DEF LocksInv, Free
  <2>3. ASSUME NEW q \in Requests, pc'[q] \in {"check", "save"}
        PROVE  candidate'[q] \in Live'
    <3>1. CASE q = r
      BY <1>0, <1>1, <2>3, <3>1, HoldsStep DEF LocksInv, Live
    <3>2. CASE q # r
      <4>1. pc[q] \in {"check", "save"} /\ candidate'[q] = candidate[q]
        BY <1>0, <1>1, <2>3, <3>2, OthersUntouched
      <4>2. candidate[q] \in otps /\ candidate[q].live
        BY <1>0, <4>1 DEF LocksInv, Live
      <4>3. Holds(q, candidate[q].id)  BY <4>1 DEF Holds
      <4>4. f[candidate[q]] = candidate[q]
        BY <2>1, <3>2, <4>2, <4>3 DEF RowsMove
      <4>5. candidate[q] \in Rewritten(f)
        BY <4>2, <4>4 DEF Rewritten
      <4>6. Rewritten(f) \subseteq otps'  BY <2>1 DEF RowsMove
      <4>7. QED  BY <4>1, <4>2, <4>5, <4>6 DEF Live
    <3>3. QED  BY <3>1, <3>2
  <2>4. QED  BY <2>2, <2>3 DEF LocksInv
<1>2. CASE Tick \/ UNCHANGED vars
  BY <1>0, <1>2 DEF Tick, vars, LocksInv, Holds, Live, Locals, Database
<1>3. QED  BY <1>1, <1>2 DEF Next, Step

LEMMA GuessesInvStep ==
    ASSUME OtpInv, [Next]_vars  PROVE GuessesInv'
<1>0. TypeOK /\ TypeOK' /\ TablesOK /\ GuessesInv /\ RowsInv
  BY TypeStep, TypeSplit DEF OtpInv
<1>1. ASSUME NEW r \in Requests, Step(r)  PROVE GuessesInv'
  <2>1. PICK f : RowsMove(r, f)  BY <1>1, RowsStep
  <2>2. nextId \in Nat /\ nextId' \in Nat /\ nextId' >= nextId /\ MaxAttempts \in Nat
    BY <1>0, <2>1, OtpAssumption DEF RowsMove, TablesOK, OtpAssumption
  <2>3. \A y \in Rewritten(f) : y.attempts = compared'[y.id] /\ y.attempts <= MaxAttempts
    BY <2>1 DEF RowsMove, KeepsKeys, Rewritten
  <2>4. \A y \in otps' : y.attempts = compared'[y.id] /\ y.attempts <= MaxAttempts
    <3>1. ASSUME NEW code \in Codes, compared' = compared, r \in Passed
          PROVE  /\ New(r, code).attempts = compared'[New(r, code).id]
                 /\ New(r, code).attempts <= MaxAttempts
      <4>1. nextId \in Ids  BY <1>0, <3>1, KeyLeft, StepNames DEF Passed, Coming
      <4>2. compared[nextId] = 0  BY <1>0, <2>2, <4>1 DEF GuessesInv
      <4>3. New(r, code).attempts = 0 /\ New(r, code).id = nextId  BY DEF New
      <4>4. QED  BY <2>2, <3>1, <4>2, <4>3
    <3>2. QED  BY <2>1, <2>3, <3>1 DEF RowsMove
  <2>5. \A i \in Ids : i >= nextId' => compared'[i] = 0
    BY <2>1, <2>2 DEF RowsMove, Ids
  <2>6. ASSUME NEW q \in Requests, pc'[q] = "save"
        PROVE  candidate'[q].attempts < MaxAttempts
    BY <1>0, <1>1, <2>6, HoldsStep, OthersUntouched DEF GuessesInv
  <2>7. QED  BY <2>4, <2>5, <2>6 DEF GuessesInv, GuessesCounted
<1>2. CASE Tick \/ UNCHANGED vars
  BY <1>0, <1>2 DEF Tick, vars, GuessesInv, GuessesCounted, Locals, Database
<1>3. QED  BY <1>1, <1>2 DEF Next, Step

LEMMA MailInvStep ==
    ASSUME OtpInv, [Next]_vars  PROVE MailInv'
<1>0. TypeOK /\ TablesOK /\ LocalsOK /\ MailInv /\ StepsOfCalls
  BY TypeSplit DEF OtpInv
<1>1. ASSUME NEW r \in Requests, Step(r)  PROVE MailInv'
  <2>1. PICK f : RowsMove(r, f)  BY <1>1, RowsStep
  <2>2. IdsOf(otps) \subseteq IdsOf(otps')
    <3>1. IdsOf(Rewritten(f)) = IdsOf(otps)
      BY <1>0, <2>1, RewrittenRows DEF RowsMove
    <3>2. Rewritten(f) \subseteq otps'  BY <2>1 DEF RowsMove
    <3>3. QED  BY <3>1, <3>2 DEF IdsOf
  <2>3. queued' \subseteq IdsOf(otps)
    <3>1. CASE IssueEnqueue(r)
      BY <1>0, <3>1 DEF IssueEnqueue, MailInv, MailedCodeExists
    <3>2. CASE ~IssueEnqueue(r)
      <4>1. queued' = queued
        BY <1>0, <1>1, <3>2
           DEF TablesOK, Step, Serve, Issue, Verify, SignupExisting, SignupUser, Resend,
             IssueLatest, IssueValid, IssueInvalidate, IssueInsert, VerifyProfile,
             VerifySelect, VerifyClaim, VerifyCheck, VerifySave, Crash, Receive, Database
      <4>2. QED  BY <1>0, <4>1 DEF MailInv, MailedCodeExists
    <3>3. QED  BY <3>1, <3>2
  <2>4. ASSUME NEW q \in Requests, pc'[q] = "enqueue"
        PROVE  rows'[q] \subseteq IdsOf(otps')
    <3>1. CASE q # r
      BY <1>0, <1>1, <2>2, <2>4, <3>1, OthersUntouched DEF MailInv
    <3>2. CASE q = r
      <4>1. PICK code \in Codes : IssueInsert(r, code)
        BY <1>0, <1>1, <2>4, <3>2, ThreadStep
      <4>2. rows'[r] = {nextId} /\ New(r, code) \in otps'
        BY <1>0, <4>1 DEF IssueInsert, LocalsOK, New
      <4>3. New(r, code).id = nextId  BY DEF New
      <4>4. QED  BY <3>2, <4>2, <4>3 DEF IdsOf
    <3>3. QED  BY <3>1, <3>2
  <2>5. QED
    <3>1. MailedCodeExists'  BY <2>2, <2>3 DEF MailedCodeExists, IdsOf
    <3>2. QED  BY <2>4, <3>1 DEF MailInv, IdsOf
<1>2. CASE Tick \/ UNCHANGED vars
  BY <1>0, <1>2 DEF Tick, vars, MailInv, MailedCodeExists, IdsOf, Locals, Database
<1>3. QED  BY <1>1, <1>2 DEF Next, Step

(* A thread that passed the test keeps the time at which it did.           *)
LEMMA PassedStep ==
    ASSUME OtpInv, NEW r \in Requests, Step(r), NEW q \in Passed'
    PROVE  \/ q \in Passed /\ at'[q] = at[q]
           \/ /\ at'[q] = now /\ otps' = otps
              /\ \A x \in otps : now - x.made >= Cooldown
<1>0. TypeOK /\ LocalsOK /\ StepsOfCalls  BY TypeSplit DEF OtpInv
<1>1. q \in Requests  BY DEF Passed
<1>2. CASE q # r
  BY <1>0, <1>1, <1>2, OthersUntouched DEF Passed
<1>3. CASE q = r
  <2>1. pc'[r] \in {"valid", "invalidate", "insert"}
    BY <1>3, StepNames DEF Passed
  <2>2. CASE IssueLatest(r) /\ pc'[r] = "valid"
    <3>1. ~Finish(r, "ok")
      BY <1>0, <2>2 DEF Finish, LocalsOK
    <3>2. /\ otps' = otps /\ at' = [at EXCEPT ![r] = now]
          /\ \A x \in otps : ~(now - x.made < Cooldown)
      BY <2>2, <3>1 DEF IssueLatest, Database
    <3>3. now \in Int /\ Cooldown \in Int /\ \A x \in otps : x.made \in Int
      BY <1>0, OtpAssumption DEF OtpAssumption, TypeOK, OtpRow
    <3>4. QED  BY <1>0, <1>3, <3>2, <3>3 DEF LocalsOK
  <2>3. CASE (IssueValid(r) \/ IssueInvalidate(r)) /\ pc[r] \in {"valid", "invalidate"}
    <3>1. at' = at  BY <2>3 DEF IssueValid, IssueInvalidate
    <3>2. r \in Passed  BY <2>3, StepNames DEF Passed
    <3>3. QED  BY <1>3, <3>1, <3>2
  <2>4. QED  BY <1>0, <2>1, <2>2, <2>3, ThreadStep
<1>4. QED  BY <1>2, <1>3

LEMMA ThrottleInvStep ==
    ASSUME OtpInv, [Next]_vars  PROVE ThrottleInv'
<1>0. /\ TypeOK /\ TypeOK' /\ TablesOK /\ ThrottleInv /\ now \in Nat
      /\ TTL \in Nat /\ Cooldown \in Nat
  BY TypeStep, TypeSplit, OtpAssumption DEF OtpInv, OtpAssumption, TypeOK
<1> DEFINE Apart(S) == \A x, y \in S : x.id < y.id =>
                         LET tested == y.expires - TTL
                         IN  tested <= x.made \/ tested - x.made >= Cooldown
<1>1. ASSUME NEW r \in Requests, Step(r)  PROVE ThrottleInv'
  <2>1. PICK f : RowsMove(r, f)  BY <1>1, RowsStep
  <2>2. now' = now /\ KeepsKeys(f)  BY <2>1 DEF RowsMove
  <2>3. \A y \in Rewritten(f) : \E x \in otps :
          y.id = x.id /\ y.made = x.made /\ y.expires = x.expires
    BY <1>0, <2>2, RewrittenRows
  <2>4. Apart(otps)
    BY <1>0 DEF ThrottleInv, ResendsThrottled
  <2>5. Apart(Rewritten(f))
    BY <2>3, <2>4
  <2>6. \A code \in Codes :
          /\ New(r, code).id = nextId /\ New(r, code).made = now
          /\ New(r, code).expires - TTL = at[r]
    BY <1>0 DEF New, TypeOK
  <2>7. ASSUME NEW code \in Codes, r \in Passed, otps' = Rewritten(f) \cup {New(r, code)}
        PROVE  Apart(otps')
    <3> DEFINE new == New(r, code)
    <3>1. \A y \in Rewritten(f) : y.id < nextId /\ y.id \in Nat /\ nextId \in Nat
      BY <1>0, <2>3 DEF OtpInv, RowsInv, TablesOK, OtpRow, Ids
    <3>2. \A x \in Rewritten(f) : at[r] <= x.made \/ at[r] - x.made >= Cooldown
      BY <1>0, <2>3, <2>7 DEF ThrottleInv
    <3>3. new.id = nextId /\ new.expires - TTL = at[r]  BY <2>6
    <3> HIDE DEF new
    <3>4. ASSUME NEW x \in otps', NEW y \in otps', x.id < y.id
          PROVE  y.expires - TTL <= x.made \/ y.expires - TTL - x.made >= Cooldown
      <4>1. x \in Rewritten(f)
        <5>1. otps' = Rewritten(f) \cup {new}  BY <2>7 DEF new
        <5>2. nextId \in Nat  BY <1>0 DEF TablesOK
        <5>3. \A z \in otps' : z.id \in Nat /\ z.id <= nextId
          BY <3>1, <3>3, <5>1, <5>2
        <5>4. x # new  BY <3>3, <3>4, <5>2, <5>3
        <5>5. QED  BY <5>1, <5>4
      <4>2. CASE y = new
        BY <3>2, <3>3, <4>1, <4>2
      <4>3. CASE y \in Rewritten(f)
        BY <2>5, <3>4, <4>1, <4>3
      <4>4. QED  BY <2>7, <4>2, <4>3 DEF new
    <3>5. QED  BY <3>4
  <2>8. Apart(otps')
    BY <2>1, <2>5, <2>7 DEF RowsMove
  <2>9. ASSUME NEW q \in Passed'
        PROVE  /\ at'[q] <= now'
               /\ \A x \in otps' : at'[q] <= x.made \/ at'[q] - x.made >= Cooldown
    <3>1. CASE /\ at'[q] = now /\ otps' = otps
               /\ \A x \in otps : now - x.made >= Cooldown
      BY <1>0, <2>2, <3>1
    <3>2. CASE q \in Passed /\ at'[q] = at[q]
      <4>1. at[q] <= now /\ \A x \in Rewritten(f) : at[q] <= x.made \/ at[q] - x.made >= Cooldown
        BY <1>0, <2>3, <3>2 DEF ThrottleInv
      <4>2. \A x \in otps' : x \in Rewritten(f) \/ x.made = now
        BY <2>1, <2>6 DEF RowsMove
      <4>3. QED  BY <2>2, <3>2, <4>1, <4>2
    <3>3. QED  BY <1>1, <2>9, <3>1, <3>2, PassedStep
  <2>10. QED  BY <2>8, <2>9 DEF ThrottleInv, ResendsThrottled
<1>2. CASE Tick
  <2>1. now' = now + 1 /\ otps' = otps /\ pc' = pc /\ at' = at
    BY <1>2 DEF Tick, Database, Locals
  <2>2. Passed' = Passed /\ \A q \in Passed : at[q] \in Nat
    BY <1>0, <2>1 DEF Passed, TypeOK
  <2>3. QED  BY <1>0, <2>1, <2>2 DEF ThrottleInv, ResendsThrottled
<1>3. CASE UNCHANGED vars
  BY <1>0, <1>3 DEF vars, ThrottleInv, ResendsThrottled, Passed
<1>4. QED  BY <1>1, <1>2, <1>3 DEF Next, Step

LEMMA InitInv == Init => OtpInv
<1> SUFFICES ASSUME Init  PROVE OtpInv
  OBVIOUS
<1> USE OtpAssumption DEF OtpAssumption
<1>1. TypeOK
  BY FS_EmptySet, StepNames DEF Init, TypeOK, NoOtp, OtpRow, Answers
<1>2. Coming = {} /\ Passed = {}
  BY StepNames DEF Init, Coming, Passed
<1>3. Cardinality({}) = 0 /\ Cardinality(Requests) \in Nat
  BY FS_EmptySet, FS_CardinalityType
<1>4. StepsOfCalls /\ RowsInv
  BY <1>2, <1>3, StepNames DEF Init, StepsOfCalls, RowsInv, Creating
<1>5. LocksInv /\ GuessesInv /\ MailInv
  BY DEF Init, LocksInv, Holds, GuessesInv, GuessesCounted, MailInv, MailedCodeExists, IdsOf
<1>6. ThrottleInv
  BY <1>2 DEF Init, ThrottleInv, ResendsThrottled
<1>7. QED  BY <1>1, <1>4, <1>5, <1>6 DEF OtpInv

(* OtpInv holds always: whatever requests race, whichever threads die and  *)
(* whatever the clock does between two statements.                         *)
THEOREM OtpInvariant == Spec => []OtpInv
<1>1. OtpInv /\ [Next]_vars => OtpInv'
  BY TypeStep, StepsOfCallsStep, RowsInvStep, LocksInvStep, GuessesInvStep, MailInvStep,
     ThrottleInvStep DEF OtpInv
<1>2. QED  BY <1>1, InitInv, PTL DEF Spec

(* No wrong guess is lost to a race of verify requests, and no code is     *)
(* compared with more than OTP_MAX_ATTEMPTS of them.                       *)
THEOREM GuessesAreCounted == Spec => []GuessesCounted
<1>1. OtpInv => GuessesCounted  BY DEF OtpInv, GuessesInv
<1>2. QED  BY <1>1, OtpInvariant, PTL

(* A user row is there only with the code its signup issued.               *)
THEOREM AccountsHaveCodes == Spec => []AccountHasCode
<1>1. OtpInv => AccountHasCode  BY DEF OtpInv, RowsInv, AccountHasCode
<1>2. QED  BY <1>1, OtpInvariant, PTL

(* An email is queued for committed codes only.                            *)
THEOREM MailedCodesExist == Spec => []MailedCodeExists
<1>1. OtpInv => MailedCodeExists  BY DEF OtpInv, MailInv
<1>2. QED  BY <1>1, OtpInvariant, PTL

(* Two codes come within OTP_RESEND_COOLDOWN_SECONDS of each other only    *)
(* when the later one's request read the clock for its test before the     *)
(* earlier one was inserted: resends that follow one another are throttled.*)
THEOREM ResendsAreThrottled == Spec => []ResendsThrottled
<1>1. OtpInv => ResendsThrottled  BY DEF OtpInv, ThrottleInv
<1>2. QED  BY <1>1, OtpInvariant, PTL

----------------------------------------------------------------------------
(* Otp implements OneTimeCode                                              *)

LiveOf(S) == IdsOf({x \in S : x.live})

LEMMA LiveInvalidated ==
    ASSUME TablesOK, NEW S
    PROVE  LiveOf(Invalidated(S)) = LiveOf(otps) \ S /\ IdsOf(Invalidated(S)) = IdsOf(otps)
<1> DEFINE f == Invalidation(S)
<1>1. /\ KeepsKeys(f) /\ Invalidated(S) = Rewritten(f)
      /\ \A x \in otps : f[x].live = (x.live /\ x.id \notin S)
  BY InvalidatedRows
<1>2. \A x \in otps : x.live \in BOOLEAN /\ f[x].live \in BOOLEAN /\ f[x].id = x.id
  BY <1>1 DEF TablesOK, OtpRow, KeepsKeys
<1> HIDE DEF f
<1>3. \A x \in otps : f[x].live <=> x.live /\ x.id \notin S
  BY <1>1, <1>2
<1>4. LiveOf(Rewritten(f)) = LiveOf(otps) \ S
  <2>1. ASSUME NEW i \in LiveOf(Rewritten(f))  PROVE i \in LiveOf(otps) \ S
    <3>1. PICK x \in otps : f[x].live /\ f[x].id = i
      BY <2>1 DEF LiveOf, IdsOf, Rewritten
    <3>2. QED  BY <1>2, <1>3, <3>1 DEF LiveOf, IdsOf
  <2>2. ASSUME NEW i \in LiveOf(otps) \ S  PROVE i \in LiveOf(Rewritten(f))
    <3>1. PICK x \in otps : x.live /\ x.id = i
      BY <2>2 DEF LiveOf, IdsOf
    <3>2. f[x] \in Rewritten(f) /\ f[x].live /\ f[x].id = i
      BY <1>2, <1>3, <2>2, <3>1 DEF Rewritten
    <3>3. QED  BY <3>2 DEF LiveOf, IdsOf
  <2>3. QED  BY <2>1, <2>2
<1>5. QED  BY <1>1, <1>4, RewrittenRows

LEMMA LiveAdded ==
    ASSUME NEW S, NEW x, x.live
    PROVE  IdsOf(S \cup {x}) = IdsOf(S) \cup {x.id} /\ LiveOf(S \cup {x}) = LiveOf(S) \cup {x.id}
<1>1. {y \in S \cup {x} : y.live} = {y \in S : y.live} \cup {x}
  OBVIOUS
<1>2. \A T : IdsOf(T \cup {x}) = IdsOf(T) \cup {x.id}
  BY DEF IdsOf
<1>3. QED  BY <1>1, <1>2 DEF LiveOf

LEMMA LiveStored ==
    ASSUME OtpInv, NEW x \in Live, NEW z \in OtpRow, z.id = x.id, z.made = x.made,
           z.expires = x.expires
    PROVE  /\ IdsOf(Stored(z)) = IdsOf(otps)
           /\ z.live  => LiveOf(Stored(z)) = LiveOf(otps)
           /\ ~z.live => LiveOf(Stored(z)) = LiveOf(otps) \ {x.id}
<1>0. TypeOK /\ TablesOK /\ x \in otps /\ x.live
  BY TypeSplit DEF OtpInv, Live
<1>1. \A y \in otps : y.id = x.id => y = x
  BY <1>0 DEF OtpInv, RowsInv
<1> DEFINE f == Storing(z)
<1>2. KeepsKeys(f) /\ Stored(z) = Rewritten(f) /\ f[x] = z /\ \A y \in otps : y # x => f[y] = y
  BY <1>0, <1>1, StoredRows
<1> HIDE DEF f
<1>3. IdsOf(Stored(z)) = IdsOf(otps)
  BY <1>0, <1>2, RewrittenRows
<1>4. \A i : i \in LiveOf(otps) <=> \E y \in otps : y.live /\ y.id = i
  BY DEF LiveOf, IdsOf
<1>5. \A i : i \in LiveOf(Rewritten(f)) <=> \E y \in otps : f[y].live /\ f[y].id = i
  BY DEF LiveOf, IdsOf, Rewritten
<1>6. CASE z.live
  <2>1. \A y \in otps : (f[y].live <=> y.live) /\ f[y].id = y.id
    BY <1>0, <1>2, <1>6
  <2>2. \A i : i \in LiveOf(Rewritten(f)) <=> i \in LiveOf(otps)
    BY <1>4, <1>5, <2>1
  <2>3. LiveOf(Rewritten(f)) = LiveOf(otps)  BY <2>2
  <2>4. QED  BY <1>2, <1>3, <1>6, <2>3
<1>7. CASE ~z.live
  <2>1. \A y \in otps : (f[y].live <=> y.live /\ y # x) /\ f[y].id = y.id
    BY <1>0, <1>2, <1>7
  <2>2. \A i : i \in LiveOf(Rewritten(f)) <=> i \in LiveOf(otps) /\ i # x.id
    BY <1>0, <1>1, <1>4, <1>5, <2>1
  <2>3. QED  BY <1>2, <1>3, <1>7, <2>2
<1>8. QED  BY <1>6, <1>7

LEMMA OneTimeInit == Init => OneTime!Init
BY DEF Init, OneTime!Init, IdsOf, Live

LEMMA OneTimeStep ==
    ASSUME OtpInv, [Next]_vars  PROVE [OneTime!Next]_(OneTime!vars)
<1>0. TypeOK /\ TablesOK  BY TypeSplit DEF OtpInv
<1>1. Live = {x \in otps : x.live} /\ IdsOf(Live) = LiveOf(otps) /\ IdsOf(Live)' = LiveOf(otps')
  BY DEF Live, LiveOf, IdsOf
<1>2. CASE otps' = otps /\ compared' = compared /\ account' = account
  <2>1. UNCHANGED OneTime!vars
    BY <1>2 DEF OneTime!vars, IdsOf, Live
  <2>2. QED  BY <2>1
<1>3. ASSUME NEW r \in Requests, IssueInvalidate(r), call[r].op # "signup"
      PROVE  OneTime!Next
  <2>1. otps' = Invalidated(rows[r]) /\ compared' = compared /\ account' = account
    BY <1>3 DEF IssueInvalidate
  <2>2. IdsOf(otps') = IdsOf(otps) /\ LiveOf(otps') = LiveOf(otps) \ rows[r]
    BY <1>0, <2>1, LiveInvalidated
  <2> DEFINE old == LiveOf(otps) \cap rows[r]
  <2>3. LiveOf(otps') = LiveOf(otps) \ old /\ old \in SUBSET LiveOf(otps)
    BY <2>2
  <2>4. OneTime!Invalidate(old)
    BY <1>1, <2>1, <2>2, <2>3 DEF OneTime!Invalidate, IdsOf
  <2>5. QED  BY <1>1, <2>3, <2>4 DEF OneTime!Next
<1>4. ASSUME NEW r \in Requests, NEW code \in Codes, IssueInsert(r, code)
      PROVE  OneTime!Next
  <2>1. /\ otps' = Invalidated(rows[r]) \cup {New(r, code)} /\ compared' = compared
        /\ account' = "verified" <=> account = "verified"
    BY <1>4 DEF IssueInsert, New
  <2>2. /\ IdsOf(Invalidated(rows[r])) = IdsOf(otps)
        /\ LiveOf(Invalidated(rows[r])) = LiveOf(otps) \ rows[r]
    BY <1>0, LiveInvalidated
  <2>3. New(r, code).id = nextId /\ New(r, code).live
    BY DEF New
  <2> DEFINE old == LiveOf(otps) \cap rows[r]
  <2>4. /\ IdsOf(otps') = IdsOf(otps) \cup {nextId}
        /\ LiveOf(otps') = (LiveOf(otps) \ old) \cup {nextId}
    BY <2>1, <2>2, <2>3, LiveAdded
  <2>5. nextId \in Ids \ IdsOf(otps)
    <3>1. r \in Coming  BY <1>4, StepNames DEF IssueInsert, Coming
    <3>2. nextId \in Ids  BY <1>0, <3>1, KeyLeft DEF OtpInv
    <3>3. \A x \in otps : x.id # nextId
      BY <1>0 DEF OtpInv, RowsInv, TablesOK, OtpRow, Ids
    <3>4. QED  BY <3>2, <3>3 DEF IdsOf
  <2>6. OneTime!Issue(nextId, old)
    BY <1>1, <2>1, <2>4, <2>5 DEF OneTime!Issue, IdsOf
  <2>7. old \in SUBSET IdsOf(Live) /\ nextId \in Ids  BY <1>1, <2>5
  <2>8. QED  BY <2>6, <2>7 DEF OneTime!Next
<1>5. ASSUME NEW r \in Requests, VerifySave(r)
      PROVE  OneTime!Next
  <2> DEFINE x == candidate[r]
  <2>1. x \in Live /\ x \in OtpRow /\ x.id \in Ids
    BY <1>0, <1>5, SavedRow DEF OtpInv, OtpRow
  <2>2. PICK z \in OtpRow :
          /\ otps' = Stored(z) /\ z.id = x.id /\ z.made = x.made /\ z.expires = x.expires
          /\ \/ z.live = FALSE /\ compared' = compared /\ account' = "verified"
             \/ /\ z.live = TRUE /\ compared' = [compared EXCEPT ![x.id] = @ + 1]
                /\ account' = account
    BY <1>0, <1>5, SavedRow DEF OtpInv
  <2>3. compared[x.id] < MaxAttempts
    BY <1>5, <2>1 DEF OtpInv, GuessesInv, GuessesCounted, VerifySave, Live
  <2>4. x.id \in LiveOf(otps)
    BY <2>1 DEF LiveOf, IdsOf, Live
  <2> HIDE DEF x
  <2>5. CASE z.live = FALSE /\ compared' = compared /\ account' = "verified"
    <3>1. IdsOf(otps') = IdsOf(otps) /\ LiveOf(otps') = LiveOf(otps) \ {x.id}
      BY <2>1, <2>2, <2>5, LiveStored
    <3>2. OneTime!Use(x.id)
      BY <1>1, <2>3, <2>4, <2>5, <3>1 DEF OneTime!Use, IdsOf
    <3>3. QED  BY <2>1, <3>2 DEF OneTime!Next
  <2>6. CASE /\ z.live = TRUE /\ compared' = [compared EXCEPT ![x.id] = @ + 1]
             /\ account' = account
    <3>1. IdsOf(otps') = IdsOf(otps) /\ LiveOf(otps') = LiveOf(otps)
      BY <2>1, <2>2, <2>6, LiveStored
    <3>2. OneTime!WrongGuess(x.id)
      BY <1>1, <2>3, <2>4, <2>6, <3>1 DEF OneTime!WrongGuess, IdsOf
    <3>3. QED  BY <2>1, <3>2 DEF OneTime!Next
  <2>7. QED  BY <2>2, <2>5, <2>6
<1>6. CASE Tick \/ UNCHANGED vars
  BY <1>2, <1>6 DEF Tick, vars, Database
<1>7. ASSUME NEW r \in Requests, Step(r)  PROVE [OneTime!Next]_(OneTime!vars)
  BY <1>0, <1>2, <1>3, <1>4, <1>5, <1>7, OtpsStep
<1>8. QED  BY <1>6, <1>7 DEF Next, Step

(* Every behaviour of the endpoints is one of OneTimeCode: an address is   *)
(* verified by a live code with attempts left, used up in the same step.   *)
THEOREM RefinesOneTimeCode == Spec => ImplementsOneTimeCode
<1>1. OtpInv /\ [Next]_vars => [OneTime!Next]_(OneTime!vars)
  BY OneTimeStep
<1>2. QED
  BY <1>1, OneTimeInit, OtpInvariant, PTL DEF Spec, ImplementsOneTimeCode, OneTime!Spec
=============================================================================
