------------------------ MODULE DeliveryOutboxProofs ------------------------
(***************************************************************************)
(* SentOnce, and the attempts of a row, for any deliveries, senders and    *)
(* bounds.                                                                 *)
(***************************************************************************)
EXTENDS DeliveryOutbox, FiniteSetTheorems, TLAPS

\* A sender whose next attempt at d may leave the row live, as it decides on what
\* it has loaded: it does not know of the last attempt, or of a retry by hand
\* that took the cancel flag away.
Risky(w, d) ==
    /\ d \in listed[w]
    /\ IF loaded[w][d].flag THEN ~mail[d].flag
       ELSE loaded[w][d].attempts + 1 < MaxSendAttempts

RiskySenders(d) == {w \in Senders : Risky(w, d)}

\* A row that is still to be sent has an attempt left to count, besides those
\* of the senders that do not know the row.
AttemptsInv ==
    \A d \in Deliveries :
        mail[d].status \in LiveMail =>
            mail[d].attempts + Cardinality(RiskySenders(d))
                < MaxSendAttempts + Cardinality(Senders)

\* The claim under a row lock: one sender has it, and the committed row is queued.
ClaimInv ==
    /\ \A w \in Senders, d \in Deliveries : sending[w] = d => mail[d].status = "queued"
    /\ \A v, w \in Senders : sending[v] = sending[w] /\ sending[v] # NoDelivery => v = w

\* A sender lists rows for its drain, and sends one of them.
DrainInv ==
    \A w \in Senders :
        /\ listed[w] # {} => sweepAt[w] = "drain"
        /\ \A d \in Deliveries : sending[w] = d => d \in listed[w]

\* What is listed is a row.
ListedInv == \A w \in Senders, d \in Deliveries : d \in listed[w] => mail[d].status # "absent"

\* SentOnce with what makes it inductive.
OutboxInv == OutboxTypeOK /\ AttemptsInv /\ ClaimInv /\ DrainInv /\ ListedInv /\ SentOnce

\* The types of what is not a row.
RestTypeOK ==
    /\ inbox \in [Deliveries -> Nat]
    /\ cancelling \in [Deliveries -> {"no", "pending", "running"}]
    /\ sweepAt \in [Senders -> {"idle", "promoted", "drain"}]
    /\ listed \in [Senders -> SUBSET Deliveries]
    /\ loaded \in [Senders -> [Deliveries -> [attempts : Nat, flag : BOOLEAN]]]
    /\ sending \in [Senders -> Deliveries \cup {NoDelivery}]
    /\ sendRetries \in 0..MaxSendRetries /\ sendFaults \in 0..MaxSendFaults

-----------------------------------------------------------------------------
(* Counting the senders.                                                   *)

LEMMA SendersCount ==
    /\ Cardinality(Senders) \in Nat /\ 1 <= Cardinality(Senders)
    /\ MaxSendAttempts \in Nat /\ 1 <= MaxSendAttempts
<1>1. Cardinality(Senders) \in Nat /\ Cardinality(Senders) # 0
  BY OutboxAssumption, FS_CardinalityType, FS_EmptySet
<1> QED
  BY <1>1, OutboxAssumption

\* A set of senders has no more of them than there are, and than a larger set.
LEMMA SendersIn ==
    ASSUME NEW S, S \subseteq Senders
    PROVE  /\ IsFiniteSet(S) /\ Cardinality(S) \in Nat
           /\ Cardinality(S) <= Cardinality(Senders)
           /\ \A T \in SUBSET S : Cardinality(T) <= Cardinality(S)
           /\ \A w \in S : Cardinality(S \ {w}) = Cardinality(S) - 1
<1>1. IsFiniteSet(S) /\ Cardinality(S) <= Cardinality(Senders)
  BY OutboxAssumption, FS_Subset
<1>2. Cardinality(S) \in Nat
  BY <1>1, FS_CardinalityType
<1>3. ASSUME NEW T \in SUBSET S PROVE Cardinality(T) <= Cardinality(S)
  BY <1>1, FS_Subset
<1>4. ASSUME NEW w \in S PROVE Cardinality(S \ {w}) = Cardinality(S) - 1
  BY <1>1, FS_RemoveElement
<1> QED
  BY <1>1, <1>2, <1>3, <1>4

-----------------------------------------------------------------------------
\* From m to n the row neither becomes nor ceases to be delivered.  If it is live
\* then its attempts start again, or it was live with as many and keeps its flag,
\* or nobody knew it.
Moved(m, n) ==
    /\ n \in Mail
    /\ (m.status = "delivered") = (n.status = "delivered")
    /\ m.status # "absent" => n.status # "absent"
    /\ n.status \in LiveMail =>
          \/ n.attempts = 0
          \/ m.status \in LiveMail /\ n.attempts <= m.attempts /\ (m.flag => n.flag)
          \/ m.status = "absent" /\ n.attempts <= MaxSendAttempts

\* No sender lists anything new.
ListedBefore ==
    \A w \in Senders, d \in Deliveries :
        d \in listed'[w] => d \in listed[w] /\ loaded'[w][d] = loaded[w][d]

\* A step that sends nothing moves rows; those that are claimed stay queued.
LEMMA QuietStep ==
    ASSUME OutboxInv, RestTypeOK', UNCHANGED inbox, ListedBefore,
           mail' = [x \in Deliveries |-> mail'[x]],
           \A x \in Deliveries : mail'[x] = mail[x] \/ Moved(mail[x], mail'[x]),
           ClaimInv', DrainInv'
    PROVE  OutboxInv'
<1>1. \A x \in Deliveries : mail'[x] \in Mail
  BY DEF OutboxInv, OutboxTypeOK, Moved
<1>2. OutboxTypeOK'
  BY <1>1 DEF OutboxTypeOK, RestTypeOK
<1>3. SentOnce'
  BY DEF OutboxInv, OutboxTypeOK, SentOnce, Moved
<1>4. ASSUME NEW w \in Senders, NEW d \in Deliveries, d \in listed'[w]
       PROVE  mail'[d].status # "absent"
  BY <1>4 DEF OutboxInv, ListedInv, ListedBefore, Moved
<1>5. SentOnce' /\ ListedInv'
  BY <1>3, <1>4 DEF ListedInv
<1>6. ASSUME NEW d \in Deliveries, mail'[d].status \in LiveMail
      PROVE  mail'[d].attempts + Cardinality(RiskySenders(d)')
                < MaxSendAttempts + Cardinality(Senders)
  <2> DEFINE m == mail[d]
             n == mail'[d]
  <2>1. RiskySenders(d) \subseteq Senders /\ RiskySenders(d)' \subseteq Senders
    BY DEF RiskySenders
  <2>2. /\ Cardinality(RiskySenders(d)) \in Nat /\ Cardinality(RiskySenders(d)') \in Nat
        /\ Cardinality(RiskySenders(d)') <= Cardinality(Senders)
    BY <2>1, SendersIn
  <2>3. m \in Mail /\ n \in Mail /\ m.attempts \in Nat /\ n.attempts \in Nat
    BY <1>1, SendersCount DEF OutboxInv, OutboxTypeOK, Mail
  <2>4. CASE n.attempts = 0
    BY <2>2, <2>4, SendersCount
  <2>5. CASE m.status \in LiveMail /\ n.attempts <= m.attempts /\ (m.flag => n.flag)
    <3>1. ASSUME NEW w \in Senders, Risky(w, d)' PROVE Risky(w, d)
      <4>1. d \in listed[w] /\ loaded'[w][d] = loaded[w][d]
        BY <3>1 DEF Risky, ListedBefore
      <4>2. IF loaded[w][d].flag THEN ~n.flag ELSE loaded[w][d].attempts + 1 < MaxSendAttempts
        BY <3>1, <4>1 DEF Risky
      <4> QED
        BY <2>5, <4>1, <4>2 DEF Risky
    <3>2. RiskySenders(d)' \subseteq RiskySenders(d)
      BY <3>1 DEF RiskySenders
    <3>3. Cardinality(RiskySenders(d)') <= Cardinality(RiskySenders(d))
      BY <2>1, <3>2, SendersIn
    <3>4. m.attempts + Cardinality(RiskySenders(d)) < MaxSendAttempts + Cardinality(Senders)
      BY <2>5 DEF OutboxInv, AttemptsInv
    <3> QED
      BY <2>2, <2>3, <2>5, <3>3, <3>4, SendersCount
  <2>6. CASE m.status = "absent" /\ n.attempts <= MaxSendAttempts
    <3>1. RiskySenders(d)' = {}
      BY <2>6 DEF RiskySenders, Risky, ListedBefore, OutboxInv, ListedInv
    <3>2. Cardinality(RiskySenders(d)') = 0
      BY <3>1, FS_EmptySet
    <3> QED
      BY <2>3, <2>6, <3>2, SendersCount
  <2>7. CASE n = m
    BY <1>6, <2>3, <2>5, <2>7
  <2> QED
    BY <1>6, <2>4, <2>5, <2>6, <2>7 DEF Moved
<1>7. AttemptsInv'
  BY <1>6 DEF AttemptsInv
<1> QED
  BY <1>2, <1>5, <1>7 DEF OutboxInv

\* A step on one row that no sender has claimed.
LEMMA RowStep ==
    ASSUME OutboxInv, NEW d \in Deliveries, NEW n,
           mail' = [mail EXCEPT ![d] = n], Moved(mail[d], n),
           RestTypeOK', UNCHANGED <<inbox, sweepAt, listed, loaded, sending>>,
           RowLocked(d) => n.status = "queued"
    PROVE  OutboxInv'
<1>1. mail' = [x \in Deliveries |-> mail'[x]]
  BY DEF OutboxInv, OutboxTypeOK
<1>2. \A x \in Deliveries : mail'[x] = mail[x] \/ Moved(mail[x], mail'[x])
  BY DEF OutboxInv, OutboxTypeOK
<1>3. ClaimInv'
  BY DEF OutboxInv, OutboxTypeOK, ClaimInv, RowLocked
<1>4. ListedBefore /\ DrainInv'
  BY DEF OutboxInv, DrainInv, ListedBefore
<1> QED
  BY <1>1, <1>2, <1>3, <1>4, QuietStep

\* Attempts that fit into a row.
LEMMA Attempts ==
    /\ 0 \in 0..MaxSendAttempts + Cardinality(Senders)
    /\ MaxSendAttempts \in 0..MaxSendAttempts + Cardinality(Senders)
    /\ 0 <= MaxSendAttempts /\ MaxSendAttempts <= MaxSendAttempts
  BY SendersCount

\* The outbox at first: nothing, or what an earlier version has left in it.
LEMMA OutboxInitially == OutboxInit => OutboxInv
<1> SUFFICES ASSUME OutboxInit PROVE OutboxInv
  OBVIOUS
<1>1. /\ {NoMail, LeftoverMail} \subseteq Mail
      /\ NoObjects \in [Deliveries -> [attempts : Nat, flag : BOOLEAN]]
  BY Attempts DEF NoMail, LeftoverMail, Mail, LiveMail, NoObjects, Object
<1>2. OutboxTypeOK
  BY <1>1, OutboxAssumption DEF OutboxInit, OutboxTypeOK
<1>3. AttemptsInv
  <2>1. ASSUME NEW d \in Deliveries, mail[d].status \in LiveMail
        PROVE  mail[d].attempts + Cardinality(RiskySenders(d))
                   < MaxSendAttempts + Cardinality(Senders)
    <3>1. mail[d].attempts = MaxSendAttempts
      BY <2>1 DEF OutboxInit, NoMail, LeftoverMail, LiveMail
    <3>2. RiskySenders(d) = {}
      BY DEF OutboxInit, RiskySenders, Risky
    <3>3. Cardinality(RiskySenders(d)) = 0
      BY <3>2, FS_EmptySet
    <3> QED
      BY <3>1, <3>3, SendersCount
  <2> QED
    BY <2>1 DEF AttemptsInv
<1>4. SentOnce
  BY DEF OutboxInit, SentOnce, NoMail, LeftoverMail
<1>5. ClaimInv /\ DrainInv /\ ListedInv
  BY OutboxAssumption DEF OutboxInit, ClaimInv, DrainInv, ListedInv
<1> QED
  BY <1>2, <1>3, <1>4, <1>5 DEF OutboxInv

\* The calls of the API, and the passing of time.
LEMMA OutboxApi ==
    ASSUME OutboxInv, NEW d \in Deliveries,
           \/ RowAppears(d) \/ Enqueue(d) \/ CancelReads(d) \/ CancelWrites(d)
           \/ RetryDelivery(d) \/ MailFallsDue(d)
    PROVE  OutboxInv'
<1> DEFINE m == mail[d]
<1> USE OutboxAssumption DEF outboxApi, outboxSweeps
<1>0. /\ m \in Mail
      /\ m.attempts \in Nat
      /\ RowLocked(d) => m.status = "queued"
      /\ RestTypeOK
  BY SendersCount DEF OutboxInv, OutboxTypeOK, ClaimInv, RowLocked, RestTypeOK, Mail
<1>1. CASE RowAppears(d)
  <2>1. RestTypeOK' /\ UNCHANGED <<inbox, sweepAt, listed, loaded, sending>>
    BY <1>0, <1>1 DEF RowAppears, RestTypeOK
  <2> DEFINE n == [NoMail EXCEPT !.status = "queued"]
  <2>2. mail' = [mail EXCEPT ![d] = n]
    BY <1>1 DEF RowAppears
  <2>3. n \in Mail /\ n.status = "queued" /\ n.attempts = 0
    BY Attempts DEF NoMail, Mail, LiveMail
  <2> HIDE DEF n
  <2>4. Moved(m, n) /\ ~RowLocked(d)
    BY <1>0, <1>1, <2>3, Attempts DEF RowAppears, Moved, LiveMail
  <2> QED
    BY <2>1, <2>2, <2>4, RowStep
<1>2. CASE Enqueue(d)
  <2> DEFINE n == [m EXCEPT !.status = "refused"]
  <2>1. /\ RestTypeOK' /\ UNCHANGED <<inbox, sweepAt, listed, loaded, sending>>
        /\ mail' = [mail EXCEPT ![d] = n]
    BY <1>0, <1>2 DEF Enqueue, RestTypeOK
  <2>2. Moved(m, n) /\ ~RowLocked(d)
    BY <1>0, <1>2 DEF Enqueue, Moved, Mail, LiveMail
  <2> QED
    BY <2>1, <2>2, RowStep
<1>3. CASE CancelReads(d)
  <2>1. RestTypeOK' /\ UNCHANGED <<inbox, sweepAt, listed, loaded, sending, mail>>
    BY <1>0, <1>3 DEF CancelReads, RestTypeOK
  <2> QED
    BY <2>1, QuietStep DEF OutboxInv, OutboxTypeOK, ClaimInv, DrainInv, ListedBefore
<1>4. CASE CancelWrites(d)
  <2> DEFINE n == IF cancelling[d] = "pending" THEN CancelledMail(m) ELSE FlaggedMail(m)
  <2>1. /\ RestTypeOK' /\ UNCHANGED <<inbox, sweepAt, listed, loaded, sending>>
        /\ mail' = [mail EXCEPT ![d] = n]
    BY <1>0, <1>4 DEF CancelWrites, RestTypeOK
  <2>2. /\ n \in Mail /\ n.attempts = m.attempts /\ (m.flag => n.flag)
        /\ n.status = m.status \/ (n.status = "cancelled" /\ m.status # "delivered")
    BY <1>0 DEF CancelledMail, FlaggedMail, Mail
  <2> HIDE DEF n
  <2>3. Moved(m, n) /\ ~RowLocked(d)
    BY <1>0, <1>4, <2>2 DEF CancelWrites, Moved, LiveMail
  <2> QED
    BY <2>1, <2>3, RowStep
<1>5. CASE RetryDelivery(d)
  <2>1. /\ RestTypeOK' /\ UNCHANGED <<inbox, sweepAt, listed, loaded, sending>>
        /\ mail' = [mail EXCEPT ![d] = RequeuedMail(m)]
    BY <1>0, <1>5 DEF RetryDelivery, RestTypeOK
  <2>2. /\ RequeuedMail(m) \in Mail /\ RequeuedMail(m).status = "queued"
        /\ RequeuedMail(m).attempts = 0
    BY <1>0, Attempts DEF RequeuedMail, Mail, LiveMail
  <2>3. Moved(m, RequeuedMail(m)) /\ ~RowLocked(d)
    BY <1>0, <1>5, <2>2, Attempts DEF RetryDelivery, Moved
  <2> QED
    BY <2>1, <2>3, RowStep
<1>6. CASE MailFallsDue(d)
  <2> DEFINE n == [m EXCEPT !.due = TRUE]
  <2>1. /\ RestTypeOK' /\ UNCHANGED <<inbox, sweepAt, listed, loaded, sending>>
        /\ mail' = [mail EXCEPT ![d] = n]
    BY <1>0, <1>6 DEF MailFallsDue, RestTypeOK
  <2>2. /\ n \in Mail /\ n.attempts = m.attempts /\ n.flag = m.flag
        /\ n.status = m.status /\ m.status \in LiveMail
    BY <1>0, <1>6 DEF MailFallsDue, Mail
  <2> HIDE DEF n
  <2>3. Moved(m, n) /\ (RowLocked(d) => n.status = "queued")
    BY <1>0, <2>2 DEF Moved, LiveMail
  <2> QED
    BY <2>1, <2>3, RowStep
<1> QED
  BY <1>1, <1>2, <1>3, <1>4, <1>5, <1>6

\* What an attempt makes of the row it has claimed: a row that stays live has its
\* flag, and the sender took a risk.
LEMMA LandedRow ==
    ASSUME NEW m \in Mail, m.status = "queued",
           m.attempts < MaxSendAttempts + Cardinality(Senders),
           NEW object \in [attempts : Nat, flag : BOOLEAN],
           NEW outcome \in {"ok", "retry", "permanent", "timed_out"}
    PROVE  LET n == Landed(ClaimedMail(m), object, outcome)
           IN  /\ n \in Mail /\ n.status # "absent"
               /\ n.attempts = m.attempts + 1
               /\ n.status \in LiveMail =>
                     /\ n.flag = m.flag
                     /\ IF object.flag THEN ~m.flag ELSE object.attempts + 1 < MaxSendAttempts
               /\ (n.status = "delivered") = (outcome = "ok")
<1> DEFINE c == ClaimedMail(m)
<1>0. m.attempts + 1 \in 0..MaxSendAttempts + Cardinality(Senders)
  BY SendersCount DEF Mail
<1>1. /\ c \in Mail /\ c.status = "processing" /\ c.attempts = m.attempts + 1
      /\ c.flag = m.flag
  BY <1>0 DEF ClaimedMail, Mail, LiveMail
<1> HIDE DEF c
<1>2. CASE outcome = "ok"
  BY <1>1, <1>2 DEF Landed, DeliveredMail, Mail, LiveMail, c
<1>3. CASE outcome = "permanent"
  BY <1>1, <1>3 DEF Landed, FailedMail, Mail, LiveMail, c
<1>4. CASE outcome \in {"retry", "timed_out"} /\ object.flag
  <2>1. Landed(c, object, outcome) = CancelledAfterSend(c)
    BY <1>4 DEF Landed
  <2> QED
    BY <1>1, <1>4, <2>1 DEF CancelledAfterSend, Mail, LiveMail, c
<1>5. CASE /\ outcome \in {"retry", "timed_out"} /\ ~object.flag
           /\ object.attempts + 1 >= MaxSendAttempts
  <2>1. Landed(c, object, outcome) = FailedMail(c)
    BY <1>5 DEF Landed
  <2> QED
    BY <1>1, <1>5, <2>1 DEF FailedMail, Mail, LiveMail, c
<1>6. CASE /\ outcome \in {"retry", "timed_out"} /\ ~object.flag
           /\ ~(object.attempts + 1 >= MaxSendAttempts)
  <2>1. object.attempts + 1 < MaxSendAttempts
    BY <1>6, SendersCount
  <2>2. Landed(c, object, outcome) = RetryingMail(c)
    BY <1>6 DEF Landed
  <2> QED
    BY <1>1, <1>6, <2>1, <2>2 DEF RetryingMail, Mail, LiveMail, c
<1> QED
  BY <1>2, <1>3, <1>4, <1>5, <1>6

\* The attempt: the outcome and the inbox row are written together.  If the row
\* stays live then it has one attempt more, and one sender less that is at risk.
LEMMA OutboxAttempt ==
    ASSUME OutboxInv, NEW w \in Senders, NEW d \in Deliveries, Attempt(w, d)
    PROVE  OutboxInv'
<1> DEFINE m == mail[d]
           object == loaded[w][d]
<1> USE DEF outboxApi
<1>1. /\ m \in Mail /\ m.status = "queued" /\ m.attempts \in Nat
      /\ inbox[d] = 0 /\ sending[w] = d /\ d \in listed[w]
      /\ object \in [attempts : Nat, flag : BOOLEAN]
  BY SendersCount
     DEF OutboxInv, OutboxTypeOK, ClaimInv, DrainInv, SentOnce, Attempt, LiveMail, Mail
<1>2. /\ RiskySenders(d) \subseteq Senders
      /\ Cardinality(RiskySenders(d)) \in Nat
      /\ m.attempts + Cardinality(RiskySenders(d)) < MaxSendAttempts + Cardinality(Senders)
  <2>1. RiskySenders(d) \subseteq Senders
    BY DEF RiskySenders
  <2> QED
    BY <1>1, <2>1, SendersIn DEF OutboxInv, AttemptsInv, LiveMail
<1>3. m.attempts < MaxSendAttempts + Cardinality(Senders)
  BY <1>1, <1>2, SendersCount
<1>4. PICK outcome \in {"ok", "retry", "permanent", "timed_out"} :
         /\ mail' = [mail EXCEPT ![d] = Landed(ClaimedMail(m), object, outcome)]
         /\ inbox' = IF outcome = "ok" THEN [inbox EXCEPT ![d] = @ + 1] ELSE inbox
  BY DEF Attempt
<1> DEFINE n == Landed(ClaimedMail(m), object, outcome)
<1>5. /\ n \in Mail /\ n.status # "absent" /\ n.attempts = m.attempts + 1
      /\ n.status \in LiveMail =>
            /\ n.flag = m.flag
            /\ IF object.flag THEN ~m.flag ELSE object.attempts + 1 < MaxSendAttempts
      /\ (n.status = "delivered") = (outcome = "ok")
  BY <1>1, <1>3, LandedRow
<1> HIDE DEF n
<1>6. /\ mail' = [mail EXCEPT ![d] = n]
      /\ sending' = [sending EXCEPT ![w] = NoDelivery]
      /\ listed' = [listed EXCEPT ![w] = @ \ {d}]
      /\ loaded' = [loaded EXCEPT ![w][d] = Object(NoMail)]
      /\ UNCHANGED <<cancelling, sendRetries, sweepAt, sendFaults>>
  BY <1>4 DEF n, Attempt, Visited
<1>7. Object(NoMail) \in [attempts : Nat, flag : BOOLEAN]
  BY DEF Object, NoMail
<1>8. OutboxTypeOK'
  <2>1. mail' \in [Deliveries -> Mail] /\ inbox' \in [Deliveries -> Nat]
    BY <1>4, <1>5, <1>6 DEF OutboxInv, OutboxTypeOK
  <2>2. listed' \in [Senders -> SUBSET Deliveries]
    BY <1>6 DEF OutboxInv, OutboxTypeOK
  <2>3. loaded' \in [Senders -> [Deliveries -> [attempts : Nat, flag : BOOLEAN]]]
    BY <1>6, <1>7 DEF OutboxInv, OutboxTypeOK
  <2> QED
    BY <1>6, <2>1, <2>2, <2>3 DEF OutboxInv, OutboxTypeOK
<1>9. AttemptsInv'
  <2>1. ASSUME n.status \in LiveMail
        PROVE  n.attempts + Cardinality(RiskySenders(d)')
                  < MaxSendAttempts + Cardinality(Senders)
    <3>1. w \in RiskySenders(d)
      BY <1>1, <1>5, <2>1 DEF RiskySenders, Risky
    <3>2. RiskySenders(d)' \subseteq RiskySenders(d) \ {w}
      <4>1. ASSUME NEW v \in Senders, Risky(v, d)' PROVE v # w /\ Risky(v, d)
        <5>1. v # w /\ d \in listed[v] /\ loaded'[v] = loaded[v] /\ mail'[d] = n
          BY <1>1, <1>6, <4>1 DEF Risky, OutboxInv, OutboxTypeOK
        <5>2. IF loaded[v][d].flag THEN ~n.flag ELSE loaded[v][d].attempts + 1 < MaxSendAttempts
          BY <4>1, <5>1 DEF Risky
        <5> QED
          BY <1>5, <2>1, <5>1, <5>2 DEF Risky
      <4> QED
        BY <4>1 DEF RiskySenders
    <3>3. /\ Cardinality(RiskySenders(d) \ {w}) = Cardinality(RiskySenders(d)) - 1
          /\ Cardinality(RiskySenders(d)') <= Cardinality(RiskySenders(d) \ {w})
          /\ Cardinality(RiskySenders(d)') \in Nat
      <4>1. RiskySenders(d) \ {w} \subseteq Senders /\ RiskySenders(d)' \subseteq Senders
        BY <1>2, <3>2
      <4> QED
        BY <1>2, <3>1, <3>2, <4>1, SendersIn
    <3> QED
      BY <1>1, <1>2, <1>5, <3>3, SendersCount
  <2>2. ASSUME NEW x \in Deliveries, x # d
        PROVE  mail'[x] = mail[x] /\ RiskySenders(x)' = RiskySenders(x)
    <3>1. mail'[x] = mail[x]
      BY <1>6, <2>2 DEF OutboxInv, OutboxTypeOK
    <3>2. ASSUME NEW v \in Senders
          PROVE  (x \in listed'[v] <=> x \in listed[v]) /\ loaded'[v][x] = loaded[v][x]
      BY <1>6, <2>2 DEF OutboxInv, OutboxTypeOK
    <3>3. ASSUME NEW v \in Senders PROVE Risky(v, x)' <=> Risky(v, x)
      BY <3>1, <3>2 DEF Risky
    <3> QED
      BY <3>1, <3>3 DEF RiskySenders
  <2>3. mail'[d] = n
    BY <1>6 DEF OutboxInv, OutboxTypeOK
  <2>4. ASSUME NEW x \in Deliveries, mail'[x].status \in LiveMail
        PROVE  mail'[x].attempts + Cardinality(RiskySenders(x)')
                  < MaxSendAttempts + Cardinality(Senders)
    <3>1. CASE x = d
      BY <2>1, <2>3, <2>4, <3>1
    <3>2. CASE x # d
      BY <2>2, <2>4, <3>2 DEF OutboxInv, AttemptsInv
    <3> QED
      BY <3>1, <3>2
  <2> QED
    BY <2>4 DEF AttemptsInv
<1>10. ClaimInv'
  BY <1>1, <1>6, OutboxAssumption DEF OutboxInv, OutboxTypeOK, ClaimInv
<1>11. DrainInv'
  BY <1>1, <1>6, OutboxAssumption DEF OutboxInv, OutboxTypeOK, ClaimInv, DrainInv
<1>12. ListedInv'
  BY <1>1, <1>5, <1>6 DEF OutboxInv, OutboxTypeOK, ListedInv
<1>13. SentOnce'
  BY <1>1, <1>4, <1>5, <1>6 DEF OutboxInv, OutboxTypeOK, SentOnce
<1> QED
  BY <1>8, <1>9, <1>10, <1>11, <1>12, <1>13 DEF OutboxInv

\* The listing: who lists a row knows its attempts and its flag, and is at risk
\* only with two attempts to go.
LEMMA OutboxList ==
    ASSUME OutboxInv, NEW w \in Senders, ListDue(w)
    PROVE  OutboxInv'
<1> USE DEF outboxApi
<1> DEFINE rows == Oldest({d \in Deliveries : CanClaim(mail[d])}, SendBatch)
           objects == [d \in Deliveries |-> Object(IF d \in rows THEN mail[d] ELSE NoMail)]
<1>1. rows \subseteq Deliveries /\ \A d \in rows : mail[d].status = "queued"
  BY DEF Oldest, CanClaim
<1>2. /\ sweepAt' = [sweepAt EXCEPT ![w] = "drain"]
      /\ listed' = [listed EXCEPT ![w] = rows]
      /\ loaded' = [loaded EXCEPT ![w] = objects]
      /\ UNCHANGED <<mail, inbox, cancelling, sendRetries, sending, sendFaults>>
  BY DEF ListDue
<1>3. \A d \in Deliveries : mail[d] \in Mail /\ mail[d].attempts \in Nat
  BY SendersCount DEF OutboxInv, OutboxTypeOK, Mail
<1>4. objects \in [Deliveries -> [attempts : Nat, flag : BOOLEAN]]
  BY <1>3 DEF Object, NoMail, Mail
<1>5. \A d \in rows : objects[d] = Object(mail[d])
  BY <1>1
<1> HIDE DEF rows, objects
<1>6. OutboxTypeOK'
  BY <1>1, <1>2, <1>4 DEF OutboxInv, OutboxTypeOK
<1>7. AttemptsInv'
  <2>1. ASSUME NEW d \in Deliveries, mail[d].status \in LiveMail
        PROVE  mail[d].attempts + Cardinality(RiskySenders(d)')
                  < MaxSendAttempts + Cardinality(Senders)
    <3>1. RiskySenders(d) \subseteq Senders /\ RiskySenders(d)' \subseteq Senders
      BY DEF RiskySenders
    <3>2. /\ Cardinality(RiskySenders(d)) \in Nat /\ Cardinality(RiskySenders(d)') \in Nat
          /\ Cardinality(RiskySenders(d)') <= Cardinality(Senders)
      BY <3>1, SendersIn
    <3>3. ASSUME NEW v \in Senders, v # w, Risky(v, d)' PROVE Risky(v, d)
      <4>1. listed'[v] = listed[v] /\ loaded'[v] = loaded[v] /\ mail' = mail
        BY <1>2, <3>3 DEF OutboxInv, OutboxTypeOK
      <4> QED
        BY <3>3, <4>1 DEF Risky
    <3>4. CASE Risky(w, d)'
      <4>1. listed'[w] = rows /\ loaded'[w] = objects /\ mail' = mail
        BY <1>2 DEF OutboxInv, OutboxTypeOK
      <4>2. d \in rows /\ objects[d] = Object(mail[d])
        BY <1>5, <3>4, <4>1 DEF Risky
      <4>3. IF mail[d].flag THEN ~mail[d].flag ELSE mail[d].attempts + 1 < MaxSendAttempts
        BY <3>4, <4>1, <4>2 DEF Risky, Object
      <4>4. mail[d].attempts + 1 < MaxSendAttempts
        BY <4>3
      <4> QED
        BY <1>3, <3>2, <4>4, SendersCount
    <3>5. CASE ~Risky(w, d)'
      <4>1. RiskySenders(d)' \subseteq RiskySenders(d)
        BY <3>3, <3>5 DEF RiskySenders
      <4>2. Cardinality(RiskySenders(d)') <= Cardinality(RiskySenders(d))
        BY <3>1, <4>1, SendersIn
      <4>3. mail[d].attempts + Cardinality(RiskySenders(d))
               < MaxSendAttempts + Cardinality(Senders)
        BY <2>1 DEF OutboxInv, AttemptsInv
      <4> QED
        BY <1>3, <3>2, <4>2, <4>3, SendersCount
    <3> QED
      BY <3>4, <3>5
  <2> QED
    BY <1>2, <2>1 DEF AttemptsInv
<1>8. \A d \in Deliveries : sending[w] # d
  BY DEF OutboxInv, DrainInv, ListDue
<1>9. DrainInv'
  BY <1>2, <1>8 DEF OutboxInv, OutboxTypeOK, DrainInv
<1>10. ListedInv'
  BY <1>1, <1>2 DEF OutboxInv, OutboxTypeOK, ListedInv
<1>11. ClaimInv' /\ SentOnce'
  BY <1>2 DEF OutboxInv, ClaimInv, SentOnce
<1> QED
  BY <1>6, <1>7, <1>9, <1>10, <1>11 DEF OutboxInv

\* The rest of a sweep, and its failures.
LEMMA OutboxSweep ==
    ASSUME OutboxInv, NEW w \in Senders,
           \/ Promote(w) \/ EndDrain(w) \/ SenderFails(w)
           \/ \E d \in Deliveries : Claim(w, d)
    PROVE  OutboxInv'
<1> USE DEF outboxApi
<1>0. RestTypeOK /\ \A x \in Deliveries : mail[x] \in Mail
  BY DEF OutboxInv, OutboxTypeOK, RestTypeOK
<1>1. CASE Promote(w)
  <2> DEFINE stale == Oldest({x \in MailIn({"processing"}) : mail[x].due}, SendBatch)
  <2>1. RestTypeOK' /\ UNCHANGED <<inbox, listed, loaded, sending>>
    BY <1>0, <1>1 DEF Promote, RestTypeOK
  <2>2. /\ mail' = [x \in Deliveries |-> mail'[x]]
        /\ \A x \in Deliveries :
              mail'[x] = (IF x \in stale THEN RecoveredMail(mail[x]) ELSE PromotedMail(mail[x]))
    BY <1>1 DEF Promote
  <2>3. \A x \in stale : x \in Deliveries /\ mail[x].status = "processing"
    BY DEF Oldest, MailIn
  <2> HIDE DEF stale
  <2>4. ASSUME NEW x \in Deliveries
        PROVE  /\ mail'[x] = mail[x] \/ Moved(mail[x], mail'[x])
               /\ mail[x].status = "queued" => mail'[x].status = "queued"
    <3> DEFINE m == mail[x]
    <3>0. m \in Mail /\ m.attempts \in Nat
      BY <1>0, SendersCount DEF Mail
    <3>1. ASSUME m.status = "processing"
          PROVE  Moved(m, RecoveredMail(m))
      <4>1. /\ RecoveredMail(m) \in Mail /\ RecoveredMail(m).attempts = m.attempts
            /\ RecoveredMail(m).flag = m.flag /\ RecoveredMail(m).status = "queued"
        BY <3>0 DEF RecoveredMail, Mail, LiveMail
      <4> QED
        BY <3>0, <3>1, <4>1 DEF Moved, LiveMail
    <3>2. PromotedMail(m) = m \/ (Moved(m, PromotedMail(m)) /\ m.status = "retrying")
      <4>1. CASE m.status = "retrying" /\ m.due
        <5>1. /\ PromotedMail(m) \in Mail /\ PromotedMail(m).attempts = m.attempts
              /\ PromotedMail(m).flag = m.flag /\ PromotedMail(m).status = "queued"
          BY <3>0, <4>1 DEF PromotedMail, Mail, LiveMail
        <5> QED
          BY <3>0, <4>1, <5>1 DEF Moved, LiveMail
      <4>2. CASE ~(m.status = "retrying" /\ m.due)
        BY <4>2 DEF PromotedMail
      <4> QED
        BY <4>1, <4>2
    <3>3. \/ mail'[x] = RecoveredMail(m) /\ m.status = "processing"
          \/ mail'[x] = PromotedMail(m)
      BY <2>2, <2>3
    <3> QED
      BY <3>1, <3>2, <3>3
  <2>5. ClaimInv' /\ ListedBefore
    BY <2>1, <2>4 DEF OutboxInv, ClaimInv, ListedBefore
  <2>6. DrainInv'
    BY <1>1, <2>1 DEF Promote, OutboxInv, OutboxTypeOK, DrainInv
  <2> QED
    BY <2>1, <2>2, <2>4, <2>5, <2>6, QuietStep
<1>2. CASE EndDrain(w)
  <2>1. UNCHANGED <<inbox, listed, loaded, sending, mail>>
    BY <1>2 DEF EndDrain
  <2>2. RestTypeOK'
    BY <1>0, <1>2 DEF EndDrain, RestTypeOK
  <2>3. ClaimInv' /\ ListedBefore
    BY <2>1 DEF OutboxInv, ClaimInv, ListedBefore
  <2>4. DrainInv'
    BY <1>2, <2>1 DEF EndDrain, OutboxInv, OutboxTypeOK, DrainInv
  <2> QED
    BY <2>1, <2>2, <2>3, <2>4, QuietStep DEF OutboxInv, OutboxTypeOK
<1>3. CASE SenderFails(w)
  <2>1. NoObjects \in [Deliveries -> [attempts : Nat, flag : BOOLEAN]]
    BY DEF NoObjects, Object, NoMail
  <2>2. RestTypeOK' /\ UNCHANGED <<inbox, mail>>
    <3>1. sendFaults' \in 0..MaxSendFaults
      BY <1>0, <1>3, OutboxAssumption DEF SenderFails, RestTypeOK
    <3> QED
      BY <1>0, <1>3, <2>1, <3>1 DEF SenderFails, RestTypeOK
  <2>3. ClaimInv'
    BY <1>3, OutboxAssumption DEF SenderFails, OutboxInv, OutboxTypeOK, ClaimInv
  <2>4. /\ listed'[w] = {} /\ sending'[w] = NoDelivery
        /\ \A v \in Senders \ {w} :
              /\ listed'[v] = listed[v] /\ loaded'[v] = loaded[v]
              /\ sending'[v] = sending[v] /\ sweepAt'[v] = sweepAt[v]
    BY <1>0, <1>3 DEF SenderFails, RestTypeOK
  <2>5. DrainInv'
    BY <2>4, OutboxAssumption DEF OutboxInv, DrainInv
  <2>6. ListedBefore
    BY <2>4 DEF ListedBefore
  <2> QED
    BY <2>2, <2>3, <2>5, <2>6, QuietStep DEF OutboxInv, OutboxTypeOK
<1>4. ASSUME NEW d \in Deliveries, Claim(w, d)
      PROVE  OutboxInv'
  <2>1. UNCHANGED <<inbox, mail, cancelling, sendRetries, sweepAt, sendFaults>>
    BY <1>4 DEF Claim
  <2>2. CASE CanClaim(mail[d])
    <3>1. /\ sending' = [sending EXCEPT ![w] = d] /\ UNCHANGED <<listed, loaded>>
          /\ d \in listed[w] /\ mail[d].status = "queued" /\ ~RowLocked(d)
      BY <1>4, <2>2 DEF Claim, CanClaim, Oldest
    <3>2. RestTypeOK' /\ ListedBefore
      BY <1>0, <2>1, <3>1 DEF RestTypeOK, ListedBefore
    <3>3. ClaimInv'
      BY <2>1, <3>1 DEF RowLocked, OutboxInv, OutboxTypeOK, ClaimInv
    <3>4. DrainInv'
      BY <2>1, <3>1 DEF OutboxInv, OutboxTypeOK, DrainInv
    <3> QED
      BY <2>1, <3>2, <3>3, <3>4, QuietStep DEF OutboxInv, OutboxTypeOK
  <2>3. CASE ~CanClaim(mail[d])
    <3>1. /\ listed' = [listed EXCEPT ![w] = @ \ {d}]
          /\ loaded' = [loaded EXCEPT ![w][d] = Object(NoMail)]
          /\ UNCHANGED sending /\ sending[w] = NoDelivery
      BY <1>4, <2>3 DEF Claim, Visited
    <3>2. Object(NoMail) \in [attempts : Nat, flag : BOOLEAN]
      BY DEF Object, NoMail
    <3>3. RestTypeOK'
      BY <1>0, <2>1, <3>1, <3>2 DEF RestTypeOK
    <3>4. ListedBefore
      BY <1>0, <3>1 DEF RestTypeOK, ListedBefore
    <3>5. ClaimInv'
      BY <2>1, <3>1 DEF OutboxInv, ClaimInv
    <3>6. DrainInv'
      BY <2>1, <3>1, OutboxAssumption DEF OutboxInv, OutboxTypeOK, DrainInv
    <3> QED
      BY <2>1, <3>3, <3>4, <3>5, <3>6, QuietStep DEF OutboxInv, OutboxTypeOK
  <2> QED
    BY <2>2, <2>3
<1> QED
  BY <1>1, <1>2, <1>3, <1>4

\* OutboxInv holds in every reachable state, whatever the fairness.
LEMMA OutboxAlways == OutboxInit /\ [][OutboxNext]_outboxVars => []OutboxInv
<1>1. OutboxInv /\ OutboxNext => OutboxInv'
  BY OutboxApi, OutboxAttempt, OutboxList, OutboxSweep DEF OutboxNext, SenderStep
<1>2. OutboxInv /\ UNCHANGED outboxVars => OutboxInv'
  BY DEF OutboxInv, OutboxTypeOK, AttemptsInv, RiskySenders, Risky, ClaimInv, DrainInv, ListedInv,
         SentOnce, outboxVars, outboxApi, outboxSweeps
<1> QED
  BY <1>1, <1>2, OutboxInitially, PTL

\* DeliveryService, DeliveryWorker: the outbox keeps its types; the budget of
\* attempts, which each worker counts on the row it listed, is exceeded by no more
\* than one attempt for each of them.
THEOREM OutboxTypeCorrect == OutboxSpec => []OutboxTypeOK
  BY OutboxAlways, PTL DEF OutboxSpec, OutboxInv

\* DeliveryWorker._attempt(): whatever workers, cancels, retries and crashes do,
\* a delivery has one inbox row exactly while it is DELIVERED.
THEOREM MailSentOnce == OutboxSpec => []SentOnce
  BY OutboxAlways, PTL DEF OutboxSpec, OutboxInv
=============================================================================
