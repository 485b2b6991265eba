# A verification project for ahoum-backend

TLA+ modules that model the parts of this Django/DRF backend in which requests,
background tasks and crashes meet, TLC configurations that check them on small
instances, and TLAPS proofs of what matters most for every value of their
constants. The source is the reference: each definition that models code names
its lines in `PROJECT.json` ("map").

## The system

| part | state | operations | talks to |
|---|---|---|---|
| Enrollment service (`apps/enrollments/services.py`) | `Enrollment` rows, partial unique index on active ones | `enroll`, `cancel` | locks and reads `Event` rows |
| Events API (`apps/events/`) | `Event` rows, two CHECKs | create, PATCH/PUT, DELETE (cascades), list, search, `mine` | counts `Enrollment` rows, deletes them |
| Scheduled mail (`apps/notifications/`) | `EmailLog` rows, unique per enrollment and kind | two beat tasks every five minutes | reads enrollments and events, sends SMTP |
| Accounts (`apps/accounts/`) | `User`, `Profile`, `EmailOTP`, unique index on `LOWER(email)` | signup, verify-email, resend-otp, login | queues the OTP email task on commit |
| Tokens (simplejwt) | outstanding and blacklisted tokens | login, refresh with rotation | reads `User` |
| RBAC (`apps/accounts/permissions.py`) | none (groups) | three permission classes | gates every endpoint |
| Error contract (`apps/common/`) | none | exception handler, codes | every endpoint |
| Listings, search, pagination | none | read-only queries | `Event`, `Enrollment` |
| Demo seeding, admin, configuration | none of their own | operator's tools | all tables |

What is hard here is hard because PostgreSQL runs at READ COMMITTED (every
statement has a new snapshot), because web threads and Celery workers are many,
because half of the writes run outside a transaction (PATCH, DELETE, resend,
the tasks' sends and stamps), and because any of them may die between two
statements. `PROJECT.json` lists the hazards line by line, each with the
properties that watch it.

What makes each part correct:

* **Booking**: no seat is sold twice, nobody is refused a seat that is free,
  nobody holds two, a cancel frees exactly one seat, no booking outlives its
  event, a PATCH never strands bookings, no request waits for ever.
* **Scheduled mail**: one mail per enrollment and kind, a stamp only for a mail
  that went out, nobody's mail forgotten because of others'.
* **Accounts**: guesses of a code are bounded and counted, an address is
  verified only by a live code that is then used up, a failed signup leaves
  nothing behind, answers do not tell addresses apart.
* **Tokens, RBAC**: a token works only for an active account, a refresh token is
  exchanged once (or by requests that overlap), a role comes from the database
  and not from the token.
* **Error contract**: the code of a refusal names its true reason.
* **Listings**: a client that follows the pages, or asks for both halves of its
  enrollments, misses nothing that stayed where it was.
* **Demo seeding**: containers that seed at once do not double the demo data, and
  seeding again changes nothing.

## Modules

| module | what it is |
|---|---|
| `Booking` | enroll, cancel, create, PATCH and DELETE, statement by statement |
| `SeatLedger` | abstract: per event a capacity and the seekers who hold seats |
| `BookingLedger` | `Booking` implements `SeatLedger` (refinement mapping) |
| `BookingProofs` | theorems about `Booking` |
| `BookingLedgerProofs` | the theorem that `Booking` implements `SeatLedger` |
| `Mailer` | both beat tasks, beside what the API does to the rows they read |
| `MailerProofs` | theorems about `Mailer` |
| `Otp` | signup, resend-otp and verify-email of one address |
| `OneTimeCode` | abstract: what a verification code promises; `Otp` implements it |
| `OtpProofs` | theorems about `Otp`, its refinement of `OneTimeCode` among them |
| `ErrorContract` | operators: exceptions, and the status and code each becomes |
| `Sessions` | login, refresh, permissions and refusals of one account; uses `ErrorContract` |
| `SessionsProofs` | theorems about `Sessions` |
| `Catalogue` | lists read page by page, beside writers |
| `CatalogueProofs` | theorems about `Catalogue` |
| `Seeding` | the command seed_demo in several containers, beside the API |
| `SeedingProofs` | theorems about `Seeding` |
| `MC...` | the constants and symmetries of the runs |

### How the models correspond to the code

A request (or a run of a task) is a process with a program counter `pc` whose
values name statements. **One SQL statement is one step**: at READ COMMITTED
that is the unit between which others run. The last write of a transaction and
its COMMIT are one step, since nobody sees the write before. A `SELECT ... FOR
UPDATE`, and an UPDATE of several rows, is two steps, as in PostgreSQL: pick rows
from a snapshot, then wait for their locks and look at each again (`CancelFind`
and `CancelClaim`, `VerifySelect` and `VerifyClaim`, `IssueValid` and
`IssueInvalidate`). Locks are no variable: who holds one follows from the
program counters (`HoldsEvent`, `HoldsRow`, `Holds`), and so ends with the
transaction, by whatever way it ends. `Crash` ends a process between any two
statements. `answer` is the last response sent, by its error code; the views add
nothing to it but the serialization.

* `Booking`: `events` and `enrollments` are the tables with the columns the rules
  look at; `copy[r]` is the `Event` instance a request has loaded, `ids[r]` the
  enrollment keys it has read. `event_ends_after_starts`, the partial unique
  index and the deferred foreign key are in `PatchSave`, `EnrollInsert` and
  `DeleteDrop`, where PostgreSQL enforces them. A PATCH saves the whole loaded
  row as `Model.save()` does: an UPDATE (`PatchSave`), and when that matches no
  row because the event was deleted, an INSERT (`PatchReinsert`). Of two PATCHes
  that both missed the row the second INSERT breaks the primary key and answers
  500; `PatchPassesCheck` is therefore about the CHECK alone. The
  permission classes let only seekers book and only owners write, so calls are
  drawn from those that pass.
* `Mailer`: `log[e][k]` is the `EmailLog` row: none, claimed (`sent_at` null) or
  sent. `Begin` is the task's query, `Claim`, `Send` and `Save` the statements
  of `_send_once`. Messages are acknowledged on receipt (Celery's default), so
  a run that raises or crashes is over. `mailed` is history: mails handed to
  SMTP. The API's side of the rows is one atomic action each; that they are
  statements too is Booking's subject.
* `Otp`: one address, because no statement touches two. `account` is the user
  with its profile, or "bare", a user without one, whom an administrator can
  make: signup and resend then end silently, and verify answers `otp_invalid`.
  `compared` is history: wrong guesses compared with each code. A signup that
  has inserted its user and not committed holds the unique index (`Creating`);
  its invalidations become visible with its commit, those of resend at once.
  `queued` holds the codes whose email task reached the broker.

* `ErrorContract`: an exception is its class, its status and what `get_codes()`
  returns, in the four forms `_resolve_code` tells apart. `Handled` is the whole
  handler, with Django's own 500 and 404 pages for what never reaches it.
* `Sessions`: one account, because no statement touches two. None of these
  endpoints opens a transaction, so each statement commits at once. Of the
  tokens, the server stores only what blacklists a refresh token
  (`refresh[t].state`); access tokens are known to clients (`access`) and carry
  their expiry and the claimed role. What a request contains beyond its token is
  chosen at the step that looks at it: a wrong password at `LoginAccount`, a
  body that does not parse at `Parse`, whose event it names at `Object`.
  Clients log in and refresh without an `Authorization` header. `since` is
  history: the states of the account since a request arrived; `replay` marks a
  refresh token that had already been exchanged when it was sent. simplejwt's
  refresh view is external: it verifies, looks at the blacklist, at the account,
  blacklists and answers, in that order.
* `Seeding`: the command is one transaction, so what it writes (`wrote`) is seen
  by others at `SeedCommit` only and its rows are locked until then. That two
  commands never overlap follows from the first rows they write, the profiles
  (`SeedUser` waits for `Inside` to be empty). Events are those of the demo
  facilitator, who can act as a client once a command has committed (`known`). A
  client's call is one step here (`Booking` takes them apart, and has the PATCH
  that brings a deleted event back); a PATCH may write any title and any
  capacity, as `save()` writes every field, stale ones included. So a client may
  rename one demo event to another's title, and then two events of the command's
  making share one: no property excludes that. `by`, `touched` and `titled`, the
  titles clients gave while the command ran, are history. Dates are not
  modelled: each run sets them from its own clock, and the command never
  compares one.
* `Catalogue`: a page is a COUNT and a SELECT of the slice, after the queryset
  has read the clock (`Query`, `Count`, `Slice`); the SELECT never goes beyond
  the count that was taken. Rows with equal sort keys come in any order. `seen`
  collects what a client was sent, `must` what nothing excuses the server from
  sending: a write that may push rows over the border of two pages empties it,
  one that cannot leaves it alone, and `WalkMissesNone` says so. The tables start
  in any state earlier traffic may have left. Enrollments are the active ones of
  the one seeker who reads. Those of others change none of these lists, only the
  seat counts that `mine` adds to its rows, and these are left out. Either half of
  the enrollments is asked for as one page of `max_page_size` (100) rows, and the
  module assumes that there are no more events than that: how a half that takes
  several pages shifts under writers is what the walks show for the other lists.

The abstract modules have no processes. `SeatLedger` says what bookings are for
clients: one seat is taken or given up at a time, never one that is not there,
and withdrawing an event takes its seats along. `Offer` may set a capacity below
the seats held: that is what the code does (finding `booking_capacity`).
`OneTimeCode` says that an address becomes verified only by using up a live code
with fewer than `MaxAttempts` wrong guesses.

## What TLC checks

| run | instance | shows |
|---|---|---|
| `booking` | 1 event of one seat, 2 seekers, 3 requests of all kinds, 3 enrollment rows, one PATCH body (two seats) | `TypeOK`, `BookingInv` (the inductive invariant), `OneActivePerSeeker`, `EnrollmentHasEvent`, `EnrollNeverOversells`, `FullMeansFull`, `CancelFreesOneSeat`, `ImplementsLedger` |
| `booking_fair` | 2 requests of all kinds, two seats, two PATCHes of dates that are valid only apart, fairness, no symmetry | `PatchPassesCheck`, `EveryRequestEnds` |
| `booking_capacity` | 2 requests, enroll and PATCH | `CapacityRespected` is **violated** |
| `mailer` | 2 enrollments, follow-ups, 2 workers, 1 crash, clock 0..1, fairness | `MailInv`, `MailsBounded`, `SentWasMailed`, `FollowUpClaimed` |
| `mailer_twice` | 1 enrollment, reminders, 2 workers | `AtMostOnce` is **violated** |
| `mailer_retry` | 1 enrollment, follow-ups, fairness, no crash | `FailedSendRetried` is **violated** |
| `otp` | 2 requests, 2 codes, 3 code rows, 2 attempts, clock 0..2, a cooldown of two, an expiry of one, a broker that may refuse | `OtpInv`, `GuessesCounted`, `AccountHasCode`, `MailedCodeExists`, `ResendsThrottled`, `ImplementsOneTimeCode` |
| `otp_cooldown` | 2 requests for codes, a code that outlives the run | `OneCodePerCooldown` is **violated** |
| `otp_signup` | 2 requests, no broker failure | `SignupAnswersAlike` is **violated** |
| `sessions` | 2 requests, 3 refresh tokens, a facilitator's account, one edit by an administrator, lifetimes of one tick | `SessionInv`, `ReplayIsRefused`, `ServedIsEntitled`, `RefusalsAreTrue` |
| `catalogue` | 3 events, pages of one, clock 0..2, 2 writes while a client reads | `CatalogueInv`, `WalkMissesNone`, `SplitMissesNone` |
| `seeding` | 2 starts of 2 containers, 2 demo events (one of one seat, one without limit) and bookings, 3 titles, 3 keys, clients of the demo accounts | `SeedInv`, `SeedsMakeNoTwins`, `SeedIsIdempotent` |

Every property of a passing run has a mutant in `PROJECT.json`: a plausible bug
in one definition (the mutated forms stand before the definitions they change)
with which TLC finds the property violated.

**Bounds and why they are enough.** `MaxTime` ends the clock: the code compares
it with a start, an expiry, a cooldown or a delay, so before, at and after each
suffice. `MaxEnrollments` and `MaxOtps` end the primary keys: three rows allow
two seekers plus one who cancels and books again, or three generations of codes,
of which two may be live. Three requests are one more than any conflict over a
lock needs; two do for `otp`, where every conflict is pairwise. `MaxCrashes`
bounds the crashes of workers so that fairness can be about the runs that do not
crash; web processes crash without bound. One event is enough for safety since
no statement touches two. In `otp` a clock of 0..2, with a cooldown of two ticks
and codes that live for one, lets codes expire, resends be refused, and later ones
pass. In `sessions` tokens
expire within the run, three refresh tokens are a login and two exchanges (of one
token at once, or one after the other), one edit makes a token's claim stale, and
the endpoints are one for each role and one for both, with `get_object` and
without. In `catalogue` pages of one row put a border between
any two rows, two writes let one row come and another go, and the three event
bodies start in the past, now and in the future. In `seeding` three keys are the
two demo events and one more, a client's or a demo event's that was deleted and
comes back, three titles are the demo events' and one that is neither's, and two
starts let the containers overlap or one command follow another. Symmetry is over
requests, seekers, tokens, containers, events and codes, where the module tells
none of them apart, and is not used in the runs of liveness. The run of
`Seeding` does not check for deadlock: when the containers have started, clients
may have nothing left to do.

**Fairness.** `Booking` assumes strong fairness of each request's next statement:
a statement that waits for a row lock is enabled only in between, and PostgreSQL
queues waiters and hands the lock on. `Mailer` assumes weak fairness of a run's
next statement (a worker that does not crash goes on) and strong fairness of
starting a run of each kind: beat keeps sending both messages and the queue is
served in order. Sends may fail for ever: no fairness is assumed of their
success. The run `mailer` has one kind of mail, because liveness is checked
without symmetry; the invariants are proved for both, and `mailer_twice` runs the
other. `FailedSendRetried` does not ask for a mail either: once a run has given up
an enrollment whose send failed, some later run reaches its send for it, if the
seeker stays enrolled. It is violated under that fairness of the runs.

## What TLAPS proves

For every value of the constants that satisfies the named assumptions:

* `BookingProofs` (assumption `BookingAssumption`: bounds are naturals, NULL and
  an absent field are no numbers, event bodies satisfy the serializer):
  `TypeCorrect`, `BookingInvariant`, `OneActiveCorrect`, `NoOrphans`,
  `NeverOversells`, `FullIsFull`, `PatchesPassCheck`, `CancelsFreeOneSeat`,
  `UnpatchedCapacityRespected`. At
  most one request is past its lock of an event (`LockExclusive`). That
  request's copy is still the row, since PATCH and DELETE need the lock for
  their write (`LockedCopyFresh`). What it found, that the seeker has no active
  row and the event has room, stays true up to the INSERT, because cancels only
  remove rows and inserts need the lock (`ChecksHold`). A PATCH never holds the
  copy of a row that was not there (`PatchedLive`). One seat too many then
  contradicts `ChecksHold` at the moment of the INSERT. `EnrollmentHasEvent`
  needs the foreign key: it is inductive because a DELETE goes through only when
  every row of the event was collected. `PatchPassesCheck` is inductive by itself:
  what is saved is the whole row that was validated, however stale. For
  `CancelFreesOneSeat` keys are unique and never handed out again
  (`KeysUnique`), so the keys a cancel has read name one row, its seeker's,
  whatever is inserted meanwhile (`ReadRows`); of the requests that wait for
  that row one gets on at a time (`RowLockExclusive`), and the row it has locked
  stays there and active up to its UPDATE (`ClaimedRow`). The last theorem says
  how far the finding `booking_capacity` goes. If no PATCH carries a capacity, an
  event keeps the one it was created with, and so does every copy a PATCH is
  about to save, however stale (`CapacityInv`); bookings respect it and all else
  makes them fewer, so `CapacityRespected` holds. That hypothesis is on the
  bodies clients send and is no assumption of the module.
* `BookingLedgerProofs` (also `LedgerAssumption`: the mark of an event without a
  row is no capacity): `RefinesSeatLedger`. Every statement but five stutters.
  The INSERT of `enroll` is `Take`, and finds a free seat by `ChecksHold`; the
  UPDATE of `cancel` is `Leave`, of the one row of `ClaimedRow`; the INSERTs and
  the UPDATE of an event are `Offer`; the DELETE of its row is `Withdraw`, the
  deferred foreign key having seen to it that the bookings go too.
* `MailerProofs` (assumption `MailerAssumption`; in it, finitely many workers):
  `MailInvariant`, `MailsAreBounded`, `SentIsMailed`, `OneWorkerMailsOnce`. The
  invariant counts for each enrollment and kind the mails sent and the runs that
  may yet send one (`Sending`): together never more than the workers. A run joins
  `Sending` only by its query, which asks that there be no log row, and without
  one nothing has been mailed; from then on a run leaves when it sends. With one
  worker this is the at-most-once promise of `_send_once`, which with two
  is violated (`mailer_twice`).
* `OtpProofs` (assumption `OtpAssumption`: finitely many requests, limits and
  bounds are naturals): `OtpInvariant`, `GuessesAreCounted`, `AccountsHaveCodes`,
  `MailedCodesExist`, `ResendsAreThrottled`, `RefinesOneTimeCode`. A row is locked
  by one request, and what `verify_email` holds is the row as it stands, because
  resend's and signup's UPDATEs wait for it (`LocksInv`); so the attempt it adds
  is the attempt it compared (`GuessesInv`). The throttle (`ThrottleInv`) is about
  what a request past the test of the cooldown has not seen: each code is either
  older than the cooldown as of its clock or was made since it read the clock. So
  of two codes within one cooldown the later one's request had tested before the
  earlier was inserted; that these happen is the finding `otp_cooldown`. The
  refinement maps the codes' rows to what is issued, live and compared; only
  the INSERT of a code, the UPDATEs that invalidate and the save of a verification
  are not stutters.
* `SessionsProofs` (assumption `SessionAssumption`): `SessionInvariant`,
  `ReplaysAreRefused`, `ServedAreEntitled`, `RefusalsNameTheirReason`,
  `RefusalsKeepTheirCode`. A token that
  was exchanged is blacklisted, and what it was and may yet be exchanged for is
  bounded by the requests that overlap (`RotationInv`), so a replay stops at the
  blacklist. Past each check there was a moment since the request arrived at
  which the account passed it (`SinceInv`): the checks are statements of their own
  and an administrator may write between any two, so nothing stronger holds of
  the moment of the answer. The refusals go through `Handled` of
  `ErrorContract`, case by case. `RefusalsKeepTheirCode` is about that handler
  alone: every exception of `Raised` keeps its status and its code through
  `get_codes()`, and the codes are those of `errors.py` but for four.
* `CatalogueProofs` (assumption `CatalogueAssumption`: finitely many events, no
  more than `max_page_size`, and a page has at least one row): `CatalogueInvariant`,
  `WalksMissNothing`, `SplitsMissNothing`. The argument is about positions. An
  event's rank is the number of rows before it (`Rank`); if no two rows
  start together, it is the event's position in whatever order the database
  returns, less one (`RankIsPosition`). `WalkInv` says that an event that was
  promised and not yet seen has at least the rows of the pages already read
  before it. New rows only raise ranks; a slice shows every rank of its page;
  and a page past the last leaves nobody (`NoPageNothingLeft`), because a rank is
  less than the number of rows. For the halves of the enrollments, `SplitInv`:
  what the first request did not show had ended by its clock, and clocks do not
  go back.
* `SeedingProofs` (assumption `SeedAssumption`; in it, that the demo events have
  distinct titles, as the four of `seed_demo.py` do): `SeedInvariant`,
  `NoDemoTwins`, `SeedingTwiceIsOnce`. One command at a time is past its first
  profile (`OneAtATime`), so what it has written has no twin when it commits,
  but for the titles that clients give meanwhile (`TwinsInv`). How far a command
  has come in its script says what it has written (`AsScripted`), and once it
  has committed the tables hold the script until a client writes (`Settled`):
  then the next command finds each event and each booking and writes them as
  they are.

The proofs are by induction over the steps: one step per action, one level down
per conjunct that the action disturbs. Every invariant that a theorem rests on is
an INVARIANT of a run too (`BookingInv`, `MailInv`, `OtpInv`, `SessionInv`,
`CatalogueInv`, `SeedInv`). What the proofs assume of bounds such as `MaxTime` or
`MaxOtps` is that they are naturals: the theorems hold for all of them, and so
for every finite behaviour of the system without them.

Only model-checked: liveness (`EveryRequestEnds`, `FollowUpClaimed`; fairness and
ENABLED are beyond the prover). No theorem says that the five findings occur:
TLC's traces do.

## Findings

Five things the repository says that the code does not keep, each with a run
that shows the trace: a PATCH may strand bookings (`booking_capacity`),
overlapping runs of a task send twice (`mailer_twice`), a failed mail is never
retried (`mailer_retry`), the loser of two signups of an address gets a 500
(`otp_signup`), and two requests for a code that overlap leave two live codes
within one cooldown (`otp_cooldown`). `PROJECT.json` quotes the lines.

Smaller things the models show, without a run of their own: a second event with
a demo title makes `seed_demo`, and with it the start of the container that
seeds, fail (`SeedConfused`), although its docstring calls it safe to run
repeatedly; of two PATCHes that race a DELETE one may answer 500 and the other
bring the event back, a seeker who cancels after a task's query is mailed all
the same, the loser of two correct verifications is told its code is wrong, four
codes on the wire are not in the enumeration of `errors.py` (`parse_error`,
`no_active_account`, `not_acceptable`, `unsupported_media_type`), a key that is
no number answers 500 at `enroll` and 404 at `retrieve`, and a second refresh
that overlaps the first with the same token is answered too.

## Not modelled, and the plan

Abstracted away: text columns, who owns an event (but for `Sessions`), `updated_at`,
the wording of mails and errors, hashing, the validation of request bodies that
is per field. Deadlocks from the order in which one UPDATE locks several rows are
not represented: a statement takes its row locks at once. In `Sessions` an
administrator edits the account's activity and groups, but neither deletes the
user nor touches its `Profile` (role, `email_verified_at`), and no request carries
a malformed `Authorization` header or the token of a deleted user: what their
401s say is not covered by `RefusalsAreTrue`. In `Catalogue` no reading of the
enrollments takes more than one page.

Not modelled: full-text search and the location, language and ordering
parameters of the list (PostgreSQL and libraries do the work), the rendering of
mails, the Django admin, generated migrations, process configuration. Of the OTP
email only the queueing is modelled: the task writes nothing, and that its
declared retries never happen (neither `autoretry_for` nor `self.retry`) is a
hazard without a property.

What is left, in this order:

1. Proofs of the part of FollowUpClaimed that is safety: a follow-up that is due
   and without a log row is in the next run's query. A theorem like
   `UnpatchedCapacityRespected` for the other findings, saying how far each goes.
2. A composition of `Booking` and `Mailer` over the same tables, so that cancel,
   DELETE and PATCH meet the tasks statement by statement.
3. The queue between `Otp` and the OTP email task, with mails out of order.
