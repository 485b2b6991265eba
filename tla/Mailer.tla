------------------------------- MODULE Mailer -------------------------------
(***************************************************************************)
(* The two beat tasks (apps/notifications/tasks.py): follow-ups an hour    *)
(* after enrolling and reminders an hour before the event.                 *)
(*                                                                         *)
(* Beat puts a message on the queue every five minutes and Celery workers  *)
(* take them as they come, so runs of one task may overlap.  A message is  *)
(* acknowledged when a worker takes it: a run that crashes or raises is    *)
(* lost, and the next message starts another.  A run executes one query    *)
(* and then, for each enrollment it returned, claims the EmailLog row,     *)
(* sends, and stamps the row.  Between two of these statements other runs, *)
(* cancels and deletes go on.                                              *)
(***************************************************************************)
EXTENDS Integers, FiniteSets

CONSTANTS
    Enrollments,    \* primary keys of enrollments
    Kinds,          \* EmailLog.Kind: subset of {"follow_up", "reminder"}
    Workers,        \* Celery worker processes
    Delay,          \* settings.ENROLLMENT_FOLLOW_UP_DELAY
    Window,         \* settings.EVENT_REMINDER_WINDOW
    MaxTime,        \* bound on the clock
    MaxCrashes,     \* bound on worker crashes
    Nobody          \* no enrollment

VARIABLES
    now,
    status,         \* of each enrollment, or of the lack of its row
    created,        \* its created_at
    starts,         \* starts_at of its event
    log,            \* its EmailLog row of each kind: sent_at null is "claimed"
    pc,             \* what each worker does next
    task,           \* the kind its run sends
    todo,           \* what is left of the run's query result
    current,        \* the enrollment between claim and stamp
    mailed,         \* mails delivered, per enrollment and kind
    crashes

vars == <<now, status, created, starts, log, pc, task, todo, current, mailed, crashes>>

tables == <<status, created, starts, log>>
run == <<pc, task, todo, current>>

Times == 0 .. MaxTime

ASSUME MailerAssumption ==
    /\ Kinds \subseteq {"follow_up", "reminder"}
    /\ Delay \in Nat /\ Window \in Nat /\ MaxTime \in Nat /\ MaxCrashes \in Nat
    /\ IsFiniteSet(Workers)
    /\ Nobody \notin Enrollments

----------------------------------------------------------------------------
(* The query of a run: enrolled, in time for the kind, and without a log   *)
(* row of the kind.                                                        *)
InTime(e, k) ==
    \/ k = "follow_up" /\ created[e] + Delay <= now
    \/ k = "reminder" /\ now < starts[e] /\ starts[e] <= now + Window

DueAgain(e, k) == status[e] = "enrolled" /\ InTime(e, k)
Due(e, k) == status[e] = "enrolled" /\ InTime(e, k) /\ log[e][k] = "none"

(* A worker takes a message and its run executes the query.                *)
Begin(w, k) ==
    /\ pc[w] = "idle"
    /\ pc' = [pc EXCEPT ![w] = "next"]
    /\ task' = [task EXCEPT ![w] = k]
    /\ todo' = [todo EXCEPT ![w] = {e \in Enrollments : Due(e, k)}]
    /\ UNCHANGED <<now, tables, current, mailed, crashes>>

Turn(w, step, e) ==
    /\ pc' = [pc EXCEPT ![w] = step]
    /\ current' = [current EXCEPT ![w] = e]

(* get_or_create, a transaction.  An existing row is returned, whoever     *)
(* made it; only sent_at is looked at.  A new row for an enrollment that   *)
(* is gone breaks the foreign key, the IntegrityError _send_once takes for *)
(* a concurrent claim.  The query has no ORDER BY: any order may come.     *)
Claim(w, e) ==
    /\ pc[w] = "next" /\ e \in todo[w]
    /\ todo' = [todo EXCEPT ![w] = @ \ {e}]
    /\ IF status[e] = "deleted" \/ log[e][task[w]] = "sent"
       THEN Turn(w, "next", Nobody) /\ UNCHANGED log
       ELSE /\ log' = [log EXCEPT ![e][task[w]] = "claimed"]
            /\ Turn(w, "send", e)
    /\ UNCHANGED <<now, status, created, starts, task, mailed, crashes>>

Send(w) ==
    /\ pc[w] = "send"
    /\ mailed' = [mailed EXCEPT ![current[w]][task[w]] = @ + 1]
    /\ Turn(w, "save", current[w])
    /\ UNCHANGED <<now, tables, task, todo, crashes>>

(* An exception ends the run, and what was left of it is not sent.         *)
Leave(w) ==
    /\ Turn(w, "idle", Nobody)
    /\ todo' = [todo EXCEPT ![w] = {}]
    /\ UNCHANGED task

SendFailsQuietly(w) ==
    /\ pc[w] = "send"
    /\ Turn(w, "save", current[w])
    /\ UNCHANGED <<now, tables, task, todo, mailed, crashes>>

SendFailsUnclaiming(w) ==
    /\ pc[w] = "send"
    /\ log' = [log EXCEPT ![current[w]][task[w]] = "none"]
    /\ Leave(w)
    /\ UNCHANGED <<now, status, created, starts, mailed, crashes>>

SendFails(w) ==
    /\ pc[w] = "send"
    /\ Leave(w)
    /\ UNCHANGED <<now, tables, mailed, crashes>>

(* save(update_fields) of a row that a cascade deleted is a DatabaseError. *)
Save(w) ==
    /\ pc[w] = "save"
    /\ IF status[current[w]] = "deleted"
       THEN Leave(w) /\ UNCHANGED log
       ELSE /\ log' = [log EXCEPT ![current[w]][task[w]] = "sent"]
            /\ Turn(w, "next", Nobody) /\ UNCHANGED <<task, todo>>
    /\ UNCHANGED <<now, status, created, starts, mailed, crashes>>

Return(w) ==
    /\ pc[w] = "next" /\ todo[w] = {}
    /\ Leave(w)
    /\ UNCHANGED <<now, tables, mailed, crashes>>

Crash(w) ==
    /\ pc[w] # "idle" /\ crashes < MaxCrashes
    /\ crashes' = crashes + 1
    /\ Leave(w)
    /\ UNCHANGED <<now, tables, mailed>>

----------------------------------------------------------------------------
(* What the API does meanwhile to the rows these tasks read                *)

Enroll(e, t) ==
    /\ status[e] = "absent" /\ now < t
    /\ status' = [status EXCEPT ![e] = "enrolled"]
    /\ created' = [created EXCEPT ![e] = now]
    /\ starts' = [starts EXCEPT ![e] = t]
    /\ UNCHANGED <<now, log, run, mailed, crashes>>

Cancel(e) ==
    /\ status[e] = "enrolled"
    /\ status' = [status EXCEPT ![e] = "canceled"]
    /\ UNCHANGED <<now, created, starts, log, run, mailed, crashes>>

(* DELETE of the event takes the enrollment and its log rows with it.      *)
Delete(e) ==
    /\ status[e] \in {"enrolled", "canceled"}
    /\ status' = [status EXCEPT ![e] = "deleted"]
    /\ log' = [log EXCEPT ![e] = [k \in Kinds |-> "none"]]
    /\ UNCHANGED <<now, created, starts, run, mailed, crashes>>

(* PATCH of the event's dates.                                             *)
Reschedule(e, t) ==
    /\ status[e] = "enrolled" /\ starts[e] # t
    /\ starts' = [starts EXCEPT ![e] = t]
    /\ UNCHANGED <<now, status, created, log, run, mailed, crashes>>

Tick ==
    /\ now < MaxTime
    /\ now' = now + 1
    /\ UNCHANGED <<tables, run, mailed, crashes>>

Init ==
    /\ now = 0 /\ crashes = 0
    /\ status = [e \in Enrollments |-> "absent"]
    /\ created = [e \in Enrollments |-> 0]
    /\ starts = [e \in Enrollments |-> 0]
    /\ log = [e \in Enrollments |-> [k \in Kinds |-> "none"]]
    /\ mailed = [e \in Enrollments |-> [k \in Kinds |-> 0]]
    /\ pc = [w \in Workers |-> "idle"]
    /\ task \in [Workers -> Kinds]
    /\ todo = [w \in Workers |-> {}]
    /\ current = [w \in Workers |-> Nobody]

Run(w) ==
    \/ \E e \in Enrollments : Claim(w, e)
    \/ Send(w) \/ SendFails(w) \/ Save(w) \/ Return(w)

Next ==
    \/ \E w \in Workers : Run(w) \/ Crash(w) \/ \E k \in Kinds : Begin(w, k)
    \/ \E e \in Enrollments :
          \/ Cancel(e) \/ Delete(e)
          \/ \E t \in Times : Enroll(e, t) \/ Reschedule(e, t)
    \/ Tick

Spec == Init /\ [][Next]_vars

(* A run that does not crash goes on, and beat keeps putting messages of   *)
(* both tasks on a queue the workers empty in order: whenever workers are  *)
(* free again and again, some message of each kind is taken.               *)
Fairness ==
    /\ \A w \in Workers : WF_vars(Run(w))
    /\ \A k \in Kinds : SF_vars(\E w \in Workers : Begin(w, k))

FairSpec == Spec /\ Fairness

----------------------------------------------------------------------------
(* The types of the tables and of the workers' locals.                     *)
TypeOK ==
    /\ now \in Nat /\ crashes \in Nat
    /\ status \in [Enrollments -> {"absent", "enrolled", "canceled", "deleted"}]
    /\ created \in [Enrollments -> Nat]
    /\ starts \in [Enrollments -> Nat]
    /\ log \in [Enrollments -> [Kinds -> {"none", "claimed", "sent"}]]
    /\ mailed \in [Enrollments -> [Kinds -> Nat]]
    /\ pc \in [Workers -> {"idle", "next", "send", "save"}]
    /\ task \in [Workers -> Kinds]
    /\ todo \in [Workers -> SUBSET Enrollments]
    /\ current \in [Workers -> Enrollments \cup {Nobody}]

(* The runs that may yet send mail of kind k for e.                        *)
Sending(e, k) ==
    {w \in Workers : /\ task[w] = k
                     /\ e \in todo[w] \/ (pc[w] = "send" /\ current[w] = e)}

(* How it works: a mail of kind k for e is sent by a run that selected e   *)
(* while there was no log row, and each such run sends at most one.        *)
MailInv ==
    /\ TypeOK
    /\ \A w \in Workers :
          /\ pc[w] \in {"send", "save"} <=> current[w] # Nobody
          /\ current[w] \notin todo[w]
          /\ \A e \in Enrollments :
                (e \in todo[w] \/ current[w] = e) => status[e] # "absent"
          /\ pc[w] = "save" => mailed[current[w]][task[w]] > 0
          /\ pc[w] = "idle" => todo[w] = {}
    /\ \A e \in Enrollments, k \in Kinds :
          /\ status[e] \in {"absent", "deleted"} => log[e][k] = "none"
          /\ log[e][k] = "sent" => mailed[e][k] > 0
          /\ mailed[e][k] + Cardinality(Sending(e, k)) <= Cardinality(Workers)
          /\ status[e] # "deleted" /\ log[e][k] = "none" =>
                /\ mailed[e][k] = 0
                /\ \A w \in Workers : ~(task[w] = k /\ current[w] = e)

(* However often the task runs, is retried or crashes, one enrollment gets *)
(* no more mails of a kind than there are workers to run the task at once: *)
(* with one worker, at most one (EmailLog's unique row).                   *)
MailsBounded ==
    \A e \in Enrollments, k \in Kinds : mailed[e][k] <= Cardinality(Workers)

(* sent_at is never set for a mail that was not handed over, whatever ends *)
(* a run between its claim and its stamp.                                  *)
SentWasMailed ==
    \A e \in Enrollments, k \in Kinds : log[e][k] = "sent" => mailed[e][k] > 0

(* A follow-up that has fallen due is claimed sooner or later, unless the  *)
(* seeker leaves: mails that fail again and again, for this seeker or for  *)
(* others of the same runs, and runs that abort on them, do not keep it    *)
(* from its turn.                                                          *)
FollowUpClaimed ==
    \A e \in Enrollments :
        (status[e] = "enrolled" /\ created[e] + Delay <= now)
            ~> (status[e] # "enrolled" \/ log[e]["follow_up"] # "none")

(* What the docstrings of _send_once and EmailLog say: at most one mail.   *)
AtMostOnce == \A e \in Enrollments, k \in Kinds : mailed[e][k] <= 1

(* A follow-up that a run claimed and gave up on, when the send failed.    *)
GivenUp(e) ==
    /\ status[e] = "enrolled" /\ log[e]["follow_up"] = "claimed"
    /\ \A w \in Workers : current[w] # e /\ e \notin todo[w]

(* And: "if the send fails the row's sent_at stays null and a later run    *)
(* retries it": some run comes to the send again, whether or not that one  *)
(* succeeds, unless the seeker leaves first.                               *)
FailedSendRetried ==
    \A e \in Enrollments :
        GivenUp(e) ~> (\/ status[e] # "enrolled"
                      \/ \E w \in Workers : pc[w] = "send" /\ current[w] = e)
=============================================================================
