--------------------------- MODULE DeliveryOutbox ---------------------------
(***************************************************************************)
(* The delivery outbox of one organization: the rows of deliveries, the    *)
(* inbox rows their provider writes, DeliveryService's handlers and the    *)
(* sweeps of any number of DeliveryWorker processes.                       *)
(*                                                                         *)
(* A worker claims a row, calls the provider and lands the outcome in one  *)
(* transaction.  mail and inbox hold what is committed; sending[w] is the  *)
(* row whose claim w has not committed and whose lock it holds.  A worker  *)
(* decides on the object its session loaded with the listing: the claim    *)
(* adds one to the attempts of that object and reads nothing again.        *)
(***************************************************************************)
EXTENDS Naturals, FiniteSets

CONSTANTS
    Deliveries,     \* numbers: the order of scheduled_for; an element also
                    \* stands for the idempotency key
    Senders,        \* delivery worker processes
    NoDelivery,     \* what a sender sends that sends nothing
    MaxSendAttempts,    \* max_attempts
    SendBatch,          \* DELIVERY_BATCH_SIZE
    OutboxCap,          \* DELIVERY_MAX_PENDING_PER_ORG
    MaxSendRetries,     \* bound of the model: retries by hand
    MaxSendFaults       \* bound of the model: crashes and database errors

ASSUME OutboxAssumption ==
    /\ Deliveries \subseteq Nat /\ NoDelivery \notin Deliveries
    /\ IsFiniteSet(Senders) /\ Senders # {}
    /\ MaxSendAttempts \in Nat \ {0}
    /\ {SendBatch, OutboxCap, MaxSendRetries, MaxSendFaults} \subseteq Nat

VARIABLES
    mail,           \* mail[d]: the committed row of d
    inbox,          \* inbox[d]: committed notification rows made for d
    cancelling,     \* cancelling[d]: the branch cancel() has taken, if any
    sweepAt,        \* sweepAt[w]: where the sweep of w is
    listed,         \* listed[w]: due rows w has listed and not visited
    loaded,         \* loaded[w][d]: what w has read of the row with the listing
    sending,        \* sending[w]: the row w has claimed, uncommitted
    sendRetries, sendFaults

outboxApi == <<cancelling, sendRetries>>
outboxSweeps == <<sweepAt, listed, loaded, sending>>
outboxVars == <<mail, inbox, outboxApi, outboxSweeps, sendFaults>>

LiveMail == {"queued", "processing", "retrying"}

\* refused: no row, and enqueue() has answered 409 for its key
\* due: scheduled_for and next_attempt_at are past, of a PROCESSING row that it
\* is stale; flag: cancel_requested_at.  Each sender may add one attempt to the
\* budget, for it does not see what the others have counted.
Mail == [status : LiveMail \cup {"absent", "refused", "delivered", "failed", "cancelled"},
         attempts : 0..MaxSendAttempts + Cardinality(Senders),
         due : BOOLEAN, flag : BOOLEAN]

NoMail == [status |-> "absent", attempts |-> 0, due |-> FALSE, flag |-> FALSE]

\* a row left PROCESSING and stale by a version that committed its claims, in the
\* last attempt (after an earlier one, recovery leaves what Promote makes of a
\* RETRYING row)
LeftoverMail ==
    [status |-> "processing", attempts |-> MaxSendAttempts, due |-> TRUE, flag |-> FALSE]

Object(m) == [attempts |-> m.attempts, flag |-> m.flag]
NoObjects == [d \in Deliveries |-> Object(NoMail)]

OutboxTypeOK ==
    /\ mail \in [Deliveries -> Mail]
    /\ inbox \in [Deliveries -> Nat]
    /\ cancelling \in [Deliveries -> {"no", "pending", "running"}]
    /\ sweepAt \in [Senders -> {"idle", "promoted", "drain"}]
    /\ listed \in [Senders -> SUBSET Deliveries]
    /\ loaded \in [Senders -> [Deliveries -> [attempts : Nat, flag : BOOLEAN]]]
    /\ sending \in [Senders -> Deliveries \cup {NoDelivery}]
    /\ sendRetries \in 0..MaxSendRetries /\ sendFaults \in 0..MaxSendFaults

OutboxInit ==
    /\ mail \in [Deliveries -> {NoMail, LeftoverMail}]
    /\ inbox = [d \in Deliveries |-> 0]
    /\ cancelling = [d \in Deliveries |-> "no"]
    /\ sweepAt = [w \in Senders |-> "idle"]
    /\ listed = [w \in Senders |-> {}]
    /\ loaded = [w \in Senders |-> NoObjects]
    /\ sending = [w \in Senders |-> NoDelivery]
    /\ sendRetries = 0 /\ sendFaults = 0

MailIn(S) == {d \in Deliveries : mail[d].status \in S}
RowLocked(d) == \E w \in Senders : sending[w] = d

\* the k members of S scheduled first
Oldest(S, k) == {d \in S : Cardinality({x \in S : x < d}) < k}

-----------------------------------------------------------------------------
(* The guarded UPDATEs of DeliveryRepository.                              *)

CanClaim_AnyStatus(m) == m.due

CanClaim(m) == m.status = "queued" /\ m.due

ClaimedMail(m) ==
    [m EXCEPT !.status = "processing", !.attempts = @ + 1, !.due = FALSE]

DeliveredMail(m) == [m EXCEPT !.status = "delivered", !.due = TRUE, !.flag = FALSE]

FailedMail(m) == [m EXCEPT !.status = "failed", !.due = TRUE, !.flag = FALSE]

RetryingMail(m) == [m EXCEPT !.status = "retrying"]

FlaggedMail(m) ==
    IF m.status = "processing" THEN [m EXCEPT !.flag = TRUE] ELSE m

\* a backoff ends with the row, scheduled_for stays
CancelledMail(m) ==
    IF m.status \in {"queued", "retrying"}
    THEN [m EXCEPT !.status = "cancelled", !.due = @ \/ m.status = "retrying"] ELSE m

CancelledAfterSend(m) ==
    IF m.flag THEN [m EXCEPT !.status = "cancelled", !.due = TRUE] ELSE m

\* attempts start again at 0; next_attempt_at is now
RequeuedMail(m) == [m EXCEPT !.status = "queued", !.attempts = 0, !.flag = FALSE]

\* the cancel flag and the attempts are kept
RecoveredMail(m) == [m EXCEPT !.status = "queued", !.due = TRUE]

PromotedMail_Never(m) == m

PromotedMail(m) ==
    IF m.status = "retrying" /\ m.due THEN [m EXCEPT !.status = "queued"] ELSE m

\* _land: the row an attempt ends in.  m is the claimed row, object what the
\* sender has loaded of it, and the claim has counted one attempt in both.  A
\* flag that is only in the object leaves the row PROCESSING.
Landed(m, object, outcome) ==
    CASE outcome = "ok" -> DeliveredMail(m)
      [] outcome \in {"retry", "timed_out"} /\ object.flag -> CancelledAfterSend(m)
      [] \/ outcome = "permanent"
         \/ outcome # "ok" /\ ~object.flag /\ object.attempts + 1 >= MaxSendAttempts
            -> FailedMail(m)
      [] OTHER -> RetryingMail(m)

-----------------------------------------------------------------------------
(* DeliveryService.                                                        *)

\* A row that enqueue() did not make, put in by SQL.
RowAppears(d) ==
    /\ mail[d].status = "absent"
    /\ mail' = [mail EXCEPT ![d] = [NoMail EXCEPT !.status = "queued"]]
    /\ UNCHANGED <<inbox, outboxApi, outboxSweeps, sendFaults>>

\* enqueue() under the cap: the timeline event is built with delivery.id
\* before the flush gives the delivery its id, so that the insert violates
\* NOT NULL, is rolled back and is reported as a duplicate key.
Enqueue(d) ==
    /\ mail[d].status = "absent"
    /\ Cardinality(MailIn(LiveMail)) < OutboxCap
    /\ mail' = [mail EXCEPT ![d].status = "refused"]
    /\ UNCHANGED <<inbox, outboxApi, outboxSweeps, sendFaults>>

\* cancel(): read the status and take its branch; anything else is a 409.
\* Cancels of two rows share nothing: the model has one in flight.
CancelReads(d) ==
    /\ \A x \in Deliveries : cancelling[x] = "no"
    /\ mail[d].status \in LiveMail
    /\ cancelling' = [cancelling EXCEPT ![d] =
          IF mail[d].status = "processing" THEN "running" ELSE "pending"]
    /\ UNCHANGED <<mail, inbox, sendRetries, outboxSweeps, sendFaults>>

\* cancel(): the guarded UPDATE of that branch, which waits for the row lock
\* and matches the row it then finds, or nothing
CancelWrites(d) ==
    /\ cancelling[d] # "no" /\ ~RowLocked(d)
    /\ mail' = [mail EXCEPT ![d] =
          IF cancelling[d] = "pending" THEN CancelledMail(@) ELSE FlaggedMail(@)]
    /\ cancelling' = [cancelling EXCEPT ![d] = "no"]
    /\ UNCHANGED <<inbox, sendRetries, outboxSweeps, sendFaults>>

RetryDelivery(d) ==
    /\ mail[d].status \in {"failed", "cancelled"}
    /\ sendRetries < MaxSendRetries
    /\ mail' = [mail EXCEPT ![d] = RequeuedMail(@)]
    /\ sendRetries' = sendRetries + 1
    /\ UNCHANGED <<inbox, cancelling, outboxSweeps, sendFaults>>

\* scheduled_for or the backoff of a retry passes, or an attempt becomes stale
MailFallsDue(d) ==
    /\ mail[d].status \in LiveMail /\ ~mail[d].due
    /\ mail' = [mail EXCEPT ![d].due = TRUE]
    /\ UNCHANGED <<inbox, outboxApi, outboxSweeps, sendFaults>>

-----------------------------------------------------------------------------
(* DeliveryWorker.sweep_once().                                            *)

\* first transaction: a batch of stale rows and every due RETRYING row go
\* back to the queue
Promote(w) ==
    /\ sweepAt[w] = "idle"
    /\ LET stale == Oldest({d \in MailIn({"processing"}) : mail[d].due}, SendBatch)
       IN  mail' = [d \in Deliveries |-> IF d \in stale THEN RecoveredMail(mail[d])
                                         ELSE PromotedMail(mail[d])]
    /\ sweepAt' = [sweepAt EXCEPT ![w] = "promoted"]
    /\ UNCHANGED <<inbox, outboxApi, listed, loaded, sending, sendFaults>>

\* second transaction: list the organization's due rows, oldest first
ListDue(w) ==
    /\ sweepAt[w] = "promoted"
    /\ sweepAt' = [sweepAt EXCEPT ![w] = "drain"]
    /\ LET rows == Oldest({d \in Deliveries : CanClaim(mail[d])}, SendBatch)
       IN  /\ listed' = [listed EXCEPT ![w] = rows]
           /\ loaded' = [loaded EXCEPT ![w] = [d \in Deliveries |->
                  Object(IF d \in rows THEN mail[d] ELSE NoMail)]]
    /\ UNCHANGED <<mail, inbox, outboxApi, sending, sendFaults>>

\* The sender goes on to the next row it has listed.
Visited(w, d) ==
    /\ listed' = [listed EXCEPT ![w] = @ \ {d}]
    /\ loaded' = [loaded EXCEPT ![w][d] = Object(NoMail)]

\* claim(): waits for the row lock; the loop goes on when it matches nothing
Claim(w, d) ==
    /\ sending[w] = NoDelivery
    /\ listed[w] # {} /\ Oldest(listed[w], 1) = {d} /\ ~RowLocked(d)
    /\ IF CanClaim(mail[d])
       THEN sending' = [sending EXCEPT ![w] = d] /\ UNCHANGED <<listed, loaded>>
       ELSE Visited(w, d) /\ UNCHANGED sending
    /\ UNCHANGED <<mail, inbox, outboxApi, sweepAt, sendFaults>>

\* _attempt(): what the provider did and the row it lands in, committed
\* together with the claim
Attempt(w, d) ==
    /\ sending[w] = d
    /\ \E outcome \in {"ok", "retry", "permanent", "timed_out"} :
          /\ mail' = [mail EXCEPT ![d] = Landed(ClaimedMail(@), loaded[w][d], outcome)]
          /\ inbox' = IF outcome = "ok" THEN [inbox EXCEPT ![d] = @ + 1] ELSE inbox
    /\ sending' = [sending EXCEPT ![w] = NoDelivery]
    /\ Visited(w, d)
    /\ UNCHANGED <<outboxApi, sweepAt, sendFaults>>

\* The provider's statement fails in the database: so does the UPDATE of the
\* outcome, and the drain of the organization is rolled back and left.  Or
\* the process dies.  The claim and the inbox row go with the transaction.
SenderFails(w) ==
    /\ sweepAt[w] # "idle" /\ sendFaults < MaxSendFaults
    /\ sendFaults' = sendFaults + 1
    /\ sweepAt' = [sweepAt EXCEPT ![w] = "idle"]
    /\ listed' = [listed EXCEPT ![w] = {}]
    /\ loaded' = [loaded EXCEPT ![w] = NoObjects]
    /\ sending' = [sending EXCEPT ![w] = NoDelivery]
    /\ UNCHANGED <<mail, inbox, outboxApi>>

EndDrain(w) ==
    /\ sweepAt[w] = "drain" /\ listed[w] = {}
    /\ sweepAt' = [sweepAt EXCEPT ![w] = "idle"]
    /\ UNCHANGED <<mail, inbox, outboxApi, listed, loaded, sending, sendFaults>>

SenderStep(w) ==
    \/ Promote(w) \/ ListDue(w) \/ EndDrain(w)
    \/ \E d \in Deliveries : Claim(w, d) \/ Attempt(w, d)

OutboxNext ==
    \/ \E d \in Deliveries :
          \/ RowAppears(d) \/ Enqueue(d) \/ CancelReads(d) \/ CancelWrites(d)
          \/ RetryDelivery(d) \/ MailFallsDue(d)
    \/ \E w \in Senders : SenderStep(w) \/ SenderFails(w)

\* run_loop() sweeps as long as the process lives; delays end.  An attempt
\* ends within DELIVERY_ACTIVE_TIMEOUT_SECONDS.
OutboxFairness ==
    /\ \A w \in Senders : WF_outboxVars(SenderStep(w))
    /\ \A d \in Deliveries : WF_outboxVars(MailFallsDue(d))

OutboxSpec == OutboxInit /\ [][OutboxNext]_outboxVars /\ OutboxFairness

-----------------------------------------------------------------------------
\* InAppProvider: a recovery or a second worker never sends twice; the inbox
\* row and DELIVERED are committed together, also through crashes and cancels.
SentOnce ==
    \A d \in Deliveries :
        inbox[d] = IF mail[d].status = "delivered" THEN 1 ELSE 0

\* DeliveryWorker: every row in the outbox is delivered, failed or cancelled
\* in the end, for each sender that dies or loses its transaction comes back.
DeliveriesSettle ==
    \A d \in Deliveries :
        mail[d].status \in LiveMail ~> mail[d].status \notin LiveMail
=============================================================================
