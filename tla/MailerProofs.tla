---------------------------- MODULE MailerProofs ----------------------------
(***************************************************************************)
(* Mailer, proved for any number of enrollments, workers and crashes: the  *)
(* number of mails of a kind an enrollment gets is bounded by the number   *)
(* of workers, and a stamped row was mailed.                               *)
(***************************************************************************)
EXTENDS Mailer, FiniteSetTheorems, TLAPS

(* The parts of MailInv.                                                   *)
RunsOK ==
    \A w \in Workers :
        /\ pc[w] \in {"send", "save"} <=> current[w] # Nobody
        /\ current[w] \notin todo[w]
        /\ \A e \in Enrollments :
              (e \in todo[w] \/ current[w] = e) => status[e] # "absent"
        /\ pc[w] = "save" => mailed[current[w]][task[w]] > 0
        /\ pc[w] = "idle" => todo[w] = {}

LogOK(e, k) ==
    /\ status[e] \in {"absent", "deleted"} => log[e][k] = "none"
    /\ log[e][k] = "sent" => mailed[e][k] > 0
    /\ status[e] # "deleted" /\ log[e][k] = "none" =>
          /\ mailed[e][k] = 0
          /\ \A w \in Workers : ~(task[w] = k /\ current[w] = e)

BoundOK(e, k) == mailed[e][k] + Cardinality(Sending(e, k)) <= Cardinality(Workers)

LEMMA MailInvParts ==
    MailInv <=> /\ TypeOK /\ RunsOK
                /\ \A e \in Enrollments, k \in Kinds : LogOK(e, k) /\ BoundOK(e, k)
BY DEF MailInv, RunsOK, LogOK, BoundOK

(* The workers sending one mail are a part of the workers.                 *)
LEMMA SendingFinite ==
    ASSUME MailerAssumption, NEW e, NEW k
    PROVE  /\ IsFiniteSet(Sending(e, k)) /\ Cardinality(Sending(e, k)) \in Nat
           /\ Cardinality(Sending(e, k)) <= Cardinality(Workers)
           /\ Cardinality(Workers) \in Nat
<1>1. IsFiniteSet(Workers)  BY DEF MailerAssumption
<1>2. Sending(e, k) \subseteq Workers  BY DEF Sending
<1>3. QED  BY <1>1, <1>2, FS_Subset, FS_CardinalityType

LEMMA MailTypeInit == MailerAssumption /\ Init => TypeOK
BY DEF MailerAssumption, Init, TypeOK

LEMMA MailTypeStep ==
    ASSUME MailerAssumption, TypeOK, [Next]_vars  PROVE TypeOK'
<1> DEFINE Marks == {"none", "claimed", "sent"}
           Places == {"idle", "next", "send", "save"}
<1>0. \A w \in Workers, step \in Places, e \in Enrollments \cup {Nobody} :
        Turn(w, step, e) => /\ pc' \in [Workers -> Places]
                            /\ current' \in [Workers -> Enrollments \cup {Nobody}]
  BY DEF TypeOK, Turn
<1>00. \A w \in Workers :
        Leave(w) => /\ pc' \in [Workers -> Places]
                    /\ current' \in [Workers -> Enrollments \cup {Nobody}]
                    /\ todo' \in [Workers -> SUBSET Enrollments]
                    /\ UNCHANGED task
  BY <1>0 DEF TypeOK, Leave
<1>1. ASSUME NEW w \in Workers, NEW k \in Kinds, Begin(w, k)  PROVE TypeOK'
  <2>1. todo' \in [Workers -> SUBSET Enrollments]
    BY <1>1 DEF Begin, TypeOK
  <2>2. QED  BY <1>1, <2>1 DEF Begin, TypeOK, tables
<1>2. ASSUME NEW w \in Workers, NEW e \in Enrollments, Claim(w, e)  PROVE TypeOK'
  <2>1. todo' \in [Workers -> SUBSET Enrollments]
    BY <1>2 DEF Claim, TypeOK
  <2>2. log' \in [Enrollments -> [Kinds -> Marks]]
    <3>1. task[w] \in Kinds /\ log \in [Enrollments -> [Kinds -> Marks]]
      BY DEF TypeOK
    <3>2. log' = [log EXCEPT ![e][task[w]] = "claimed"] \/ log' = log
      BY <1>2 DEF Claim
    <3>3. [log EXCEPT ![e][task[w]] = "claimed"] \in [Enrollments -> [Kinds -> Marks]]
      BY <3>1
    <3>4. QED  BY <3>1, <3>2, <3>3
  <2>3. /\ pc' \in [Workers -> Places]
        /\ current' \in [Workers -> Enrollments \cup {Nobody}]
    BY <1>0, <1>2 DEF Claim
  <2>4. QED  BY <1>2, <2>1, <2>2, <2>3 DEF Claim, TypeOK
<1>3. ASSUME NEW w \in Workers, Send(w)  PROVE TypeOK'
  <2>1. current[w] \in Enrollments \cup {Nobody} /\ task[w] \in Kinds
    BY DEF TypeOK
  <2>2. mailed' \in [Enrollments -> [Kinds -> Nat]]
    <3>1. CASE current[w] \in Enrollments
      <4>1. mailed' = [mailed EXCEPT ![current[w]][task[w]] =
                         mailed[current[w]][task[w]] + 1]
        BY <1>3 DEF Send
      <4>2. mailed \in [Enrollments -> [Kinds -> Nat]]
        BY DEF TypeOK
      <4>3. mailed[current[w]][task[w]] \in Nat
        BY <2>1, <3>1, <4>2
      <4>4. mailed[current[w]][task[w]] + 1 \in Nat
        BY <4>3
      <4>5. QED  BY <2>1, <3>1, <4>1, <4>2, <4>4
    <3>2. CASE current[w] \notin Enrollments
      <4>1. \A v : [mailed EXCEPT ![current[w]][task[w]] = v] = mailed
        BY <3>2 DEF TypeOK
      <4>2. PICK v : mailed' = [mailed EXCEPT ![current[w]][task[w]] = v]
        BY <1>3 DEF Send
      <4>3. QED  BY <4>1, <4>2 DEF TypeOK
    <3>3. QED  BY <3>1, <3>2
  <2>3. /\ pc' \in [Workers -> Places]
        /\ current' \in [Workers -> Enrollments \cup {Nobody}]
    BY <1>0, <1>3, <2>1 DEF Send
  <2>4. QED  BY <1>3, <2>2, <2>3 DEF Send, tables, TypeOK
<1>4. ASSUME NEW w \in Workers, SendFails(w)  PROVE TypeOK'
  BY <1>00, <1>4 DEF SendFails, tables, TypeOK
<1>5. ASSUME NEW w \in Workers, Return(w)  PROVE TypeOK'
  BY <1>00, <1>5 DEF Return, tables, TypeOK
<1>6. ASSUME NEW w \in Workers, Crash(w)  PROVE TypeOK'
  BY <1>00, <1>6 DEF Crash, tables, TypeOK
<1>7. ASSUME NEW w \in Workers, Save(w)  PROVE TypeOK'
  <2>1. log' \in [Enrollments -> [Kinds -> Marks]]
    <3>1. task[w] \in Kinds /\ log \in [Enrollments -> [Kinds -> Marks]]
      BY DEF TypeOK
    <3>2. log' = [log EXCEPT ![current[w]][task[w]] = "sent"] \/ log' = log
      BY <1>7 DEF Save
    <3>3. current[w] \notin Enrollments =>
            [log EXCEPT ![current[w]][task[w]] = "sent"] = log
      BY <3>1
    <3>4. current[w] \in Enrollments =>
            [log EXCEPT ![current[w]][task[w]] = "sent"] \in [Enrollments -> [Kinds -> Marks]]
      BY <3>1
    <3>5. QED  BY <3>1, <3>2, <3>3, <3>4
  <2>2. /\ pc' \in [Workers -> Places]
        /\ current' \in [Workers -> Enrollments \cup {Nobody}]
        /\ todo' \in [Workers -> SUBSET Enrollments]
        /\ UNCHANGED task
    BY <1>0, <1>00, <1>7 DEF Save, TypeOK
  <2>3. QED  BY <1>7, <2>1, <2>2 DEF Save, TypeOK
<1>8. ASSUME NEW e \in Enrollments, NEW t \in Times, Enroll(e, t)  PROVE TypeOK'
  <2>1. t \in Nat  BY DEF Times
  <2>2. QED  BY <1>8, <2>1 DEF Enroll, run, TypeOK
<1>9. ASSUME NEW e \in Enrollments, NEW t \in Times, Reschedule(e, t)  PROVE TypeOK'
  <2>1. t \in Nat  BY DEF Times
  <2>2. QED  BY <1>9, <2>1 DEF Reschedule, run, TypeOK
<1>10. ASSUME NEW e \in Enrollments, Cancel(e)  PROVE TypeOK'
  BY <1>10 DEF Cancel, run, TypeOK
<1>11. ASSUME NEW e \in Enrollments, Delete(e)  PROVE TypeOK'
  BY <1>11 DEF Delete, run, TypeOK
<1>12. CASE Tick
  BY <1>12 DEF Tick, tables, run, TypeOK
<1>13. CASE UNCHANGED vars
  BY <1>13 DEF vars, TypeOK
<1>14. QED
  BY <1>1, <1>2, <1>3, <1>4, <1>5, <1>6, <1>7, <1>8, <1>9, <1>10, <1>11,
     <1>12, <1>13 DEF Next, Run

----------------------------------------------------------------------------
(* What the steps do to single entries of the tables.                      *)

LEMMA CurrentIsEnrollment ==
    ASSUME MailerAssumption, TypeOK, RunsOK, NEW w \in Workers, pc[w] \in {"send", "save"}
    PROVE  current[w] \in Enrollments /\ task[w] \in Kinds
BY DEF TypeOK, RunsOK

LEMMA ClaimEntries ==
    ASSUME TypeOK, NEW w \in Workers, NEW e \in Enrollments, Claim(w, e)
    PROVE  \/ /\ status[e] = "deleted" \/ log[e][task[w]] = "sent"
              /\ Turn(w, "next", Nobody)
              /\ UNCHANGED log
           \/ /\ status[e] # "deleted"
              /\ Turn(w, "send", e)
              /\ \A x \in Enrollments, y \in Kinds :
                    log'[x][y] = IF x = e /\ y = task[w] THEN "claimed" ELSE log[x][y]
<1>1. PICK t \in Kinds : t = task[w]
  BY DEF TypeOK
<1>2. log \in [Enrollments -> [Kinds -> {"none", "claimed", "sent"}]]
  BY DEF TypeOK
<1>3. \A x \in Enrollments, y \in Kinds :
        [log EXCEPT ![e][t] = "claimed"][x][y] =
            IF x = e /\ y = t THEN "claimed" ELSE log[x][y]
  BY <1>2
<1>4. CASE status[e] = "deleted" \/ log[e][task[w]] = "sent"
  BY <1>4 DEF Claim
<1>5. CASE ~(status[e] = "deleted" \/ log[e][task[w]] = "sent")
  <2>1. Turn(w, "send", e) /\ log' = [log EXCEPT ![e][t] = "claimed"]
    BY <1>1, <1>5 DEF Claim
  <2>2. QED  BY <1>1, <1>3, <1>5, <2>1
<1>6. QED  BY <1>4, <1>5

LEMMA SendEntries ==
    ASSUME MailerAssumption, TypeOK, RunsOK, NEW w \in Workers, Send(w)
    PROVE  \A x \in Enrollments, y \in Kinds :
              /\ mailed[x][y] \in Nat
              /\ mailed'[x][y] = IF x = current[w] /\ y = task[w]
                                 THEN mailed[x][y] + 1 ELSE mailed[x][y]
<1>1. pc[w] = "send"  BY DEF Send
<1>2. PICK c \in Enrollments, t \in Kinds : c = current[w] /\ t = task[w]
  BY <1>1, CurrentIsEnrollment
<1>3. mailed \in [Enrollments -> [Kinds -> Nat]]
  BY DEF TypeOK
<1>4. mailed[c][t] + 1 \in Nat
  BY <1>3
<1>5. mailed' = [mailed EXCEPT ![c][t] = mailed[c][t] + 1]
  BY <1>2 DEF Send
<1>6. \A x \in Enrollments, y \in Kinds :
        mailed'[x][y] = IF x = c /\ y = t THEN mailed[c][t] + 1 ELSE mailed[x][y]
  BY <1>3, <1>5
<1>7. QED  BY <1>2, <1>3, <1>6

LEMMA SaveEntries ==
    ASSUME MailerAssumption, TypeOK, RunsOK, NEW w \in Workers, Save(w)
    PROVE  \/ /\ Leave(w)
              /\ UNCHANGED log
           \/ /\ Turn(w, "next", Nobody)
              /\ UNCHANGED <<task, todo>>
              /\ status[current[w]] # "deleted"
              /\ \A x \in Enrollments, y \in Kinds :
                    log'[x][y] = IF x = current[w] /\ y = task[w]
                                 THEN "sent" ELSE log[x][y]
<1>1. pc[w] = "save"  BY DEF Save
<1>2. PICK c \in Enrollments, t \in Kinds : c = current[w] /\ t = task[w]
  BY <1>1, CurrentIsEnrollment
<1>3. log \in [Enrollments -> [Kinds -> {"none", "claimed", "sent"}]]
  BY DEF TypeOK
<1>4. \A x \in Enrollments, y \in Kinds :
        [log EXCEPT ![c][t] = "sent"][x][y] = IF x = c /\ y = t THEN "sent" ELSE log[x][y]
  BY <1>3
<1>5. CASE status[current[w]] = "deleted"
  BY <1>5 DEF Save
<1>6. CASE status[current[w]] # "deleted"
  <2>1. /\ Turn(w, "next", Nobody)
        /\ UNCHANGED <<task, todo>>
        /\ log' = [log EXCEPT ![c][t] = "sent"]
    BY <1>2, <1>6 DEF Save
  <2>2. QED  BY <1>2, <1>4, <1>6, <2>1
<1>7. QED  BY <1>5, <1>6

----------------------------------------------------------------------------
(* The step of each part of the invariant.                                 *)

LEMMA RunsStep ==
    ASSUME MailerAssumption, TypeOK, RunsOK, [Next]_vars,
           \A e \in Enrollments, k \in Kinds : LogOK(e, k)
    PROVE  RunsOK'
<1>0. /\ pc \in [Workers -> {"idle", "next", "send", "save"}]
      /\ todo \in [Workers -> SUBSET Enrollments]
      /\ task \in [Workers -> Kinds]
      /\ current \in [Workers -> Enrollments \cup {Nobody}]
      /\ status \in [Enrollments -> {"absent", "enrolled", "canceled", "deleted"}]
      /\ Nobody \notin Enrollments
  BY DEF TypeOK, MailerAssumption
<1>00. \A w \in Workers :
         Leave(w) /\ UNCHANGED <<status, mailed>> => RunsOK'
  BY <1>0 DEF RunsOK, Leave, Turn
<1>1. ASSUME NEW w \in Workers, NEW k \in Kinds, Begin(w, k)  PROVE RunsOK'
  BY <1>0, <1>1 DEF RunsOK, Begin, Due, tables
<1>2. ASSUME NEW w \in Workers, NEW e \in Enrollments, Claim(w, e)  PROVE RunsOK'
  BY <1>0, <1>2 DEF RunsOK, Claim, Turn
<1>3. ASSUME NEW w \in Workers, Send(w)  PROVE RunsOK'
  <2>1. current[w] \in Enrollments /\ task[w] \in Kinds /\ current[w] # Nobody
    BY <1>0, <1>3, CurrentIsEnrollment DEF Send
  <2>2. /\ pc[w] = "send"
        /\ pc' = [pc EXCEPT ![w] = "save"] /\ current' = current
        /\ UNCHANGED <<status, task, todo>>
    BY <1>0, <1>3 DEF Send, Turn, tables
  <2>3. \A x \in Enrollments, y \in Kinds : mailed[x][y] > 0 => mailed'[x][y] > 0
    BY <1>3, SendEntries
  <2>4. mailed'[current[w]][task[w]] > 0
    <3>1. PICK c \in Enrollments, t \in Kinds : c = current[w] /\ t = task[w]
      BY <2>1
    <3>2. mailed[c][t] \in Nat /\ mailed'[c][t] = mailed[c][t] + 1
      BY <1>3, <3>1, SendEntries
    <3>3. QED  BY <3>1, <3>2
  <2>5. ASSUME NEW v \in Workers, pc'[v] = "save"
        PROVE  mailed'[current[v]][task[v]] > 0
    <3>1. CASE v = w  BY <2>4, <3>1
    <3>2. CASE v # w
      <4>1. pc[v] = "save"  BY <1>0, <2>2, <2>5, <3>2
      <4>2. current[v] \in Enrollments /\ task[v] \in Kinds
        BY <4>1, CurrentIsEnrollment
      <4>3. QED  BY <2>3, <4>1, <4>2 DEF RunsOK
    <3>3. QED  BY <3>1, <3>2
  <2>6. QED  BY <1>0, <2>1, <2>2, <2>5 DEF RunsOK
<1>4. ASSUME NEW w \in Workers, SendFails(w) \/ Return(w) \/ Crash(w)  PROVE RunsOK'
  BY <1>00, <1>4 DEF SendFails, Return, Crash, tables
<1>5. ASSUME NEW w \in Workers, Save(w)  PROVE RunsOK'
  BY <1>0, <1>00, <1>5 DEF RunsOK, Save, Turn
<1>6. ASSUME NEW e \in Enrollments,
             \/ Cancel(e) \/ Delete(e)
             \/ \E t \in Times : Enroll(e, t) \/ Reschedule(e, t)
      PROVE  RunsOK'
  BY <1>0, <1>6 DEF RunsOK, Cancel, Delete, Enroll, Reschedule, run
<1>7. CASE Tick
  BY <1>7 DEF RunsOK, Tick, tables, run
<1>8. CASE UNCHANGED vars
  BY <1>8 DEF RunsOK, vars
<1>9. QED
  BY <1>1, <1>2, <1>3, <1>4, <1>5, <1>6, <1>7, <1>8 DEF Next, Run

LEMMA LogStep ==
    ASSUME MailerAssumption, TypeOK, RunsOK, [Next]_vars,
           NEW e \in Enrollments, NEW k \in Kinds, LogOK(e, k)
    PROVE  LogOK(e, k)'
<1>0. /\ current \in [Workers -> Enrollments \cup {Nobody}]
      /\ task \in [Workers -> Kinds]
      /\ Nobody \notin Enrollments
  BY DEF TypeOK, MailerAssumption
<1>00. \A w \in Workers :
         Leave(w) /\ UNCHANGED <<status, log, mailed>> => LogOK(e, k)'
  BY <1>0 DEF LogOK, Leave, Turn
<1>1. ASSUME NEW w \in Workers, NEW j \in Kinds, Begin(w, j)  PROVE LogOK(e, k)'
  <2>1. current[w] = Nobody
    BY <1>0, <1>1 DEF Begin, RunsOK
  <2>2. QED  BY <1>0, <1>1, <2>1 DEF LogOK, Begin, tables
<1>2. ASSUME NEW w \in Workers, NEW x \in Enrollments, Claim(w, x)  PROVE LogOK(e, k)'
  <2>1. /\ UNCHANGED <<status, task, mailed>>
        /\ status[x] # "absent"
    BY <1>2 DEF Claim, RunsOK
  <2>2. CASE Turn(w, "next", Nobody) /\ UNCHANGED log
    BY <1>0, <2>1, <2>2 DEF LogOK, Turn
  <2>3. CASE /\ status[x] # "deleted"
             /\ Turn(w, "send", x)
             /\ \A y \in Enrollments, j \in Kinds :
                   log'[y][j] = IF y = x /\ j = task[w] THEN "claimed" ELSE log[y][j]
    <3>1. CASE e = x /\ k = task[w]
      BY <2>1, <2>3, <3>1 DEF LogOK
    <3>2. CASE ~(e = x /\ k = task[w])
      BY <1>0, <2>1, <2>3, <3>2 DEF LogOK, Turn
    <3>3. QED  BY <3>1, <3>2
  <2>4. QED  BY <1>2, <2>2, <2>3, ClaimEntries
<1>3. ASSUME NEW w \in Workers, Send(w)  PROVE LogOK(e, k)'
  <2>1. UNCHANGED <<status, log, task, current>>
    BY <1>0, <1>3 DEF Send, Turn, tables
  <2>2. mailed[e][k] \in Nat
        /\ mailed'[e][k] = IF e = current[w] /\ k = task[w]
                           THEN mailed[e][k] + 1 ELSE mailed[e][k]
    BY <1>3, SendEntries
  <2>3. QED  BY <2>1, <2>2 DEF LogOK
<1>4. ASSUME NEW w \in Workers, SendFails(w) \/ Return(w) \/ Crash(w)
      PROVE  LogOK(e, k)'
  BY <1>00, <1>4 DEF SendFails, Return, Crash, tables
<1>5. ASSUME NEW w \in Workers, Save(w)  PROVE LogOK(e, k)'
  <2>1. /\ pc[w] = "save"
        /\ UNCHANGED <<status, mailed>>
    BY <1>5 DEF Save
  <2>2. PICK c \in Enrollments, t \in Kinds : c = current[w] /\ t = task[w]
    BY <2>1, CurrentIsEnrollment
  <2>3. mailed[c][t] > 0 /\ status[c] # "absent"
    BY <2>1, <2>2 DEF RunsOK
  <2>4. CASE Leave(w) /\ UNCHANGED log
    BY <1>00, <2>1, <2>4
  <2>5. CASE /\ Turn(w, "next", Nobody)
             /\ UNCHANGED <<task, todo>>
             /\ status[current[w]] # "deleted"
             /\ \A y \in Enrollments, j \in Kinds :
                   log'[y][j] = IF y = current[w] /\ j = task[w] THEN "sent" ELSE log[y][j]
    <3>1. CASE e = c /\ k = t
      BY <2>1, <2>2, <2>3, <2>5, <3>1 DEF LogOK
    <3>2. CASE ~(e = c /\ k = t)
      BY <1>0, <2>1, <2>2, <2>5, <3>2 DEF LogOK, Turn
    <3>3. QED  BY <3>1, <3>2
  <2>6. QED  BY <1>5, <2>4, <2>5, SaveEntries
<1>6. ASSUME NEW x \in Enrollments, Delete(x)  PROVE LogOK(e, k)'
  <2>1. /\ status' = [status EXCEPT ![x] = "deleted"]
        /\ log' = [log EXCEPT ![x] = [j \in Kinds |-> "none"]]
        /\ UNCHANGED <<task, current, mailed>>
    BY <1>6 DEF Delete, run
  <2>2. e = x => status'[e] = "deleted" /\ log'[e][k] = "none"
    BY <2>1 DEF TypeOK
  <2>3. e # x => status'[e] = status[e] /\ log'[e] = log[e]
    BY <2>1 DEF TypeOK
  <2>4. QED  BY <2>1, <2>2, <2>3 DEF LogOK
<1>7. ASSUME NEW x \in Enrollments,
             Cancel(x) \/ \E t \in Times : Enroll(x, t) \/ Reschedule(x, t)
      PROVE  LogOK(e, k)'
  BY <1>7 DEF LogOK, Cancel, Enroll, Reschedule, run, TypeOK
<1>8. CASE Tick
  BY <1>8 DEF LogOK, Tick, tables, run
<1>9. CASE UNCHANGED vars
  BY <1>9 DEF LogOK, vars
<1>10. QED
  BY <1>1, <1>2, <1>3, <1>4, <1>5, <1>6, <1>7, <1>8, <1>9 DEF Next, Run

(* A step that adds no run to those sending a mail, and sends none, keeps  *)
(* the bound.                                                              *)
LEMMA BoundKept ==
    ASSUME MailerAssumption, TypeOK, NEW e \in Enrollments, NEW k \in Kinds,
           BoundOK(e, k), UNCHANGED mailed, Sending(e, k)' \subseteq Sending(e, k)
    PROVE  BoundOK(e, k)'
<1>1. /\ IsFiniteSet(Sending(e, k)) /\ Cardinality(Sending(e, k)) \in Nat
      /\ Cardinality(Workers) \in Nat
  BY SendingFinite
<1>2. /\ Cardinality(Sending(e, k)') \in Nat
      /\ Cardinality(Sending(e, k)') <= Cardinality(Sending(e, k))
  BY <1>1, FS_Subset, FS_CardinalityType
<1>3. mailed[e][k] \in Nat
  BY DEF TypeOK
<1>4. mailed[e][k] + Cardinality(Sending(e, k)') <= Cardinality(Workers)
  BY <1>1, <1>2, <1>3 DEF BoundOK
<1>5. QED  BY <1>4 DEF BoundOK

LEMMA BoundStep ==
    ASSUME MailerAssumption, TypeOK, RunsOK, [Next]_vars,
           NEW e \in Enrollments, NEW k \in Kinds, LogOK(e, k), BoundOK(e, k)
    PROVE  BoundOK(e, k)'
<1>0. /\ pc \in [Workers -> {"idle", "next", "send", "save"}]
      /\ todo \in [Workers -> SUBSET Enrollments]
      /\ task \in [Workers -> Kinds]
      /\ current \in [Workers -> Enrollments \cup {Nobody}]
      /\ mailed[e][k] \in Nat
  BY DEF TypeOK
<1>00. \A w \in Workers : Leave(w) /\ UNCHANGED mailed => BoundOK(e, k)'
  <2>1. \A w \in Workers : Leave(w) => Sending(e, k)' \subseteq Sending(e, k)
    BY <1>0 DEF Sending, Leave, Turn
  <2>2. QED  BY <2>1, BoundKept
<1>1. ASSUME NEW w \in Workers, NEW j \in Kinds, Begin(w, j)  PROVE BoundOK(e, k)'
  <2>1. UNCHANGED mailed  BY <1>1 DEF Begin
  <2>2. CASE log[e][k] = "none" /\ status[e] # "deleted"
    <3>1. mailed[e][k] = 0
      BY <2>2 DEF LogOK
    <3>2. Sending(e, k)' \subseteq Workers
      BY DEF Sending
    <3>3. /\ Cardinality(Workers) \in Nat
          /\ Cardinality(Sending(e, k)') \in Nat
          /\ Cardinality(Sending(e, k)') <= Cardinality(Workers)
      BY <3>2, FS_Subset, FS_CardinalityType DEF MailerAssumption
    <3>4. QED  BY <2>1, <3>1, <3>3 DEF BoundOK
  <2>3. CASE ~(log[e][k] = "none" /\ status[e] # "deleted")
    <3>1. k = j => e \notin todo'[w]
      BY <1>0, <1>1, <2>3 DEF Begin, Due
    <3>2. Sending(e, k)' \subseteq Sending(e, k)
      BY <1>0, <1>1, <3>1 DEF Sending, Begin
    <3>3. QED  BY <2>1, <3>2, BoundKept
  <2>4. QED  BY <2>2, <2>3
<1>2. ASSUME NEW w \in Workers, NEW x \in Enrollments, Claim(w, x)  PROVE BoundOK(e, k)'
  <2>1. Sending(e, k)' \subseteq Sending(e, k)
    BY <1>0, <1>2 DEF Sending, Claim, Turn
  <2>2. UNCHANGED mailed  BY <1>2 DEF Claim
  <2>3. QED  BY <2>1, <2>2, BoundKept
<1>3. ASSUME NEW w \in Workers, Send(w)  PROVE BoundOK(e, k)'
  <2>1. /\ pc[w] = "send" /\ pc' = [pc EXCEPT ![w] = "save"]
        /\ current' = current /\ UNCHANGED <<task, todo>>
    BY <1>0, <1>3 DEF Send, Turn
  <2>2. mailed'[e][k] = IF e = current[w] /\ k = task[w]
                        THEN mailed[e][k] + 1 ELSE mailed[e][k]
    <3>1. \A x \in Enrollments, y \in Kinds :
            /\ mailed[x][y] \in Nat
            /\ mailed'[x][y] = IF x = current[w] /\ y = task[w]
                               THEN mailed[x][y] + 1 ELSE mailed[x][y]
      BY <1>3, SendEntries
    <3>2. QED  BY <3>1
  <2>3. /\ IsFiniteSet(Sending(e, k)) /\ Cardinality(Sending(e, k)) \in Nat
        /\ Cardinality(Workers) \in Nat
    BY SendingFinite
  <2>4. CASE e = current[w] /\ k = task[w]
    <3>1. w \in Sending(e, k)
      BY <2>1, <2>4 DEF Sending
    <3>2. Sending(e, k)' \subseteq Sending(e, k) \ {w}
      BY <1>0, <2>1, <2>4 DEF Sending, RunsOK
    <3>3. /\ IsFiniteSet(Sending(e, k) \ {w})
          /\ Cardinality(Sending(e, k) \ {w}) = Cardinality(Sending(e, k)) - 1
      BY <2>3, <3>1, FS_RemoveElement
    <3>4. /\ Cardinality(Sending(e, k)') \in Nat
          /\ Cardinality(Sending(e, k)') <= Cardinality(Sending(e, k)) - 1
      BY <3>2, <3>3, FS_Subset, FS_CardinalityType
    <3>5. mailed'[e][k] + Cardinality(Sending(e, k)') <= Cardinality(Workers)
      BY <1>0, <2>2, <2>3, <2>4, <3>4 DEF BoundOK
    <3>6. QED  BY <3>5 DEF BoundOK
  <2>5. CASE ~(e = current[w] /\ k = task[w])
    <3>1. Sending(e, k)' \subseteq Sending(e, k)
      BY <1>0, <2>1 DEF Sending
    <3>2. /\ Cardinality(Sending(e, k)') \in Nat
          /\ Cardinality(Sending(e, k)') <= Cardinality(Sending(e, k))
      BY <2>3, <3>1, FS_Subset, FS_CardinalityType
    <3>3. mailed'[e][k] + Cardinality(Sending(e, k)') <= Cardinality(Workers)
      BY <1>0, <2>2, <2>3, <2>5, <3>2 DEF BoundOK
    <3>4. QED  BY <3>3 DEF BoundOK
  <2>6. QED  BY <2>4, <2>5
<1>4. ASSUME NEW w \in Workers, SendFails(w) \/ Return(w) \/ Crash(w)
      PROVE  BoundOK(e, k)'
  BY <1>00, <1>4 DEF SendFails, Return, Crash
<1>5. ASSUME NEW w \in Workers, Save(w)  PROVE BoundOK(e, k)'
  <2>1. Sending(e, k)' \subseteq Sending(e, k)
    BY <1>0, <1>5 DEF Sending, Save, Turn, Leave
  <2>2. UNCHANGED mailed  BY <1>5 DEF Save
  <2>3. QED  BY <2>1, <2>2, BoundKept
<1>6. CASE UNCHANGED <<run, mailed>>
  <2>1. Sending(e, k)' \subseteq Sending(e, k) /\ UNCHANGED mailed
    BY <1>6 DEF Sending, run
  <2>2. QED  BY <2>1, BoundKept
<1>7. ASSUME NEW x \in Enrollments,
             \/ Cancel(x) \/ Delete(x)
             \/ \E t \in Times : Enroll(x, t) \/ Reschedule(x, t)
      PROVE  BoundOK(e, k)'
  BY <1>6, <1>7 DEF Cancel, Delete, Enroll, Reschedule
<1>8. CASE Tick \/ UNCHANGED vars
  BY <1>6, <1>8 DEF Tick, vars, run
<1>9. QED
  BY <1>1, <1>2, <1>3, <1>4, <1>5, <1>7, <1>8 DEF Next, Run

----------------------------------------------------------------------------
(* The invariant of Mailer, for any enrollments and any finite number of   *)
(* workers: types, where a run stands, what a log row says, and how many   *)
(* mails of a kind can still go out.                                       *)
THEOREM MailInvariant == Spec => []MailInv
<1>1. Init => MailInv
  <2> SUFFICES ASSUME Init PROVE MailInv
    OBVIOUS
  <2>1. TypeOK  BY MailTypeInit, MailerAssumption
  <2>2. RunsOK  BY MailerAssumption DEF Init, RunsOK, MailerAssumption
  <2>3. ASSUME NEW e \in Enrollments, NEW k \in Kinds
        PROVE  LogOK(e, k) /\ BoundOK(e, k)
    <3>1. LogOK(e, k)
      BY MailerAssumption DEF Init, LogOK, MailerAssumption
    <3>2. mailed[e][k] = 0 /\ Cardinality(Sending(e, k)) \in Nat
          /\ Cardinality(Sending(e, k)) <= Cardinality(Workers)
      BY SendingFinite, MailerAssumption DEF Init
    <3>3. QED  BY <3>1, <3>2 DEF BoundOK
  <2>4. QED  BY <2>1, <2>2, <2>3, MailInvParts
<1>2. MailInv /\ [Next]_vars => MailInv'
  <2> SUFFICES ASSUME MailInv, [Next]_vars PROVE MailInv'
    OBVIOUS
  <2>1. TypeOK /\ RunsOK /\ \A e \in Enrollments, k \in Kinds : LogOK(e, k) /\ BoundOK(e, k)
    BY MailInvParts
  <2>2. TypeOK'  BY <2>1, MailTypeStep, MailerAssumption
  <2>3. RunsOK'  BY <2>1, RunsStep, MailerAssumption
  <2>4. \A e \in Enrollments, k \in Kinds : LogOK(e, k)' /\ BoundOK(e, k)'
    BY <2>1, LogStep, BoundStep, MailerAssumption
  <2>5. QED  BY <2>2, <2>3, <2>4 DEF MailInv, RunsOK, LogOK, BoundOK
<1>3. QED  BY <1>1, <1>2, PTL DEF Spec

(* No enrollment gets more mails of a kind than there are workers, however *)
(* often runs of the task overlap, fail and crash.                         *)
THEOREM MailsAreBounded == Spec => []MailsBounded
<1>1. MailInv => MailsBounded
  <2> SUFFICES ASSUME MailInv, NEW e \in Enrollments, NEW k \in Kinds
               PROVE  mailed[e][k] <= Cardinality(Workers)
    BY DEF MailsBounded
  <2>1. BoundOK(e, k) /\ mailed[e][k] \in Nat
    BY DEF MailInv, BoundOK, TypeOK
  <2>2. Cardinality(Sending(e, k)) \in Nat /\ Cardinality(Workers) \in Nat
    BY SendingFinite, MailerAssumption
  <2>3. QED  BY <2>1, <2>2 DEF BoundOK
<1>2. QED  BY <1>1, MailInvariant, PTL

(* A row with sent_at set stands for a mail that was handed over.          *)
THEOREM SentIsMailed == Spec => []SentWasMailed
<1>1. MailInv => SentWasMailed
  BY DEF MailInv, SentWasMailed
<1>2. QED  BY <1>1, MailInvariant, PTL

(* What _send_once promises, under the condition it needs: if one worker   *)
(* runs the task, so that two runs of it never overlap, nobody is mailed   *)
(* twice.                                                                  *)
THEOREM OneWorkerMailsOnce ==
    ASSUME Cardinality(Workers) = 1  PROVE Spec => []AtMostOnce
<1>1. MailsBounded /\ TypeOK => AtMostOnce
  BY DEF MailsBounded, AtMostOnce
<1>2. MailInv => TypeOK  BY DEF MailInv
<1>3. QED  BY <1>1, <1>2, MailInvariant, MailsAreBounded, PTL
=============================================================================
