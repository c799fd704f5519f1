---------------------------- MODULE AccountTokens ----------------------------
(***************************************************************************)
(* The one-time secrets of one user: the verification and reset tokens of  *)
(* auth_tokens, the MFA recovery codes, and the calls that issue or spend  *)
(* them.  Every secret is claimed by a guarded UPDATE in the transaction   *)
(* of what it permits.                                                     *)
(***************************************************************************)
EXTENDS Naturals, FiniteSets

CONSTANTS
    Links,          \* email verification tokens
    FirstLink,      \* the one register() issued
    Resets,         \* password reset tokens
    Codes,          \* MFA recovery codes
    NoSecret,
    Clients         \* requests that may be in flight

OneTime == Links \cup Resets \cup Codes

ASSUME SecretAssumption ==
    /\ NoSecret \notin OneTime /\ FirstLink \in Links
    /\ Links \cap Resets = {} /\ Links \cap Codes = {} /\ Resets \cap Codes = {}

VARIABLES
    secret,         \* secret[s]: "absent", "unused" or "used", committed
    spent,          \* spent[s]: committed effects s was good for
    verified,       \* users.email_verified_at is set
    cooling,        \* the resend key of the address is in the store
    client          \* client[c]: the call c has in flight

secretVars == <<secret, spent, verified, cooling, client>>

\* on: the secret in hand; hit: the rows invalidate_outstanding() has found
Client == [at : {"idle", "read", "claimed", "reserved", "resetting", "invalidated"},
           on : OneTime \cup {NoSecret}, hit : SUBSET OneTime]

SecretTypeOK ==
    /\ secret \in [OneTime -> {"absent", "unused", "used"}]
    /\ spent \in [OneTime -> Nat]
    /\ \A s \in OneTime : spent[s] > 0 => secret[s] = "used"
    /\ verified \in BOOLEAN /\ cooling \in BOOLEAN
    /\ client \in [Clients -> Client]
    /\ \A c \in Clients : client[c].at \in {"read", "claimed", "invalidated"}
                              <=> client[c].on # NoSecret

NoCall == [at |-> "idle", on |-> NoSecret, hit |-> {}]

\* register() has issued a link, and activate() the recovery codes
SecretInit ==
    /\ secret = [s \in OneTime |->
                    IF s \in Codes \cup {FirstLink} THEN "unused" ELSE "absent"]
    /\ spent = [s \in OneTime |-> 0]
    /\ verified = FALSE /\ cooling = FALSE
    /\ client = [c \in Clients |-> NoCall]

Outstanding(S) == {s \in S : secret[s] = "unused"}

\* another call has claimed a row of S and not committed
ClaimedElsewhere(c, S) ==
    \E d \in Clients \ {c} : client[d].at = "claimed" /\ client[d].on \in S

Calls(c, at, s, hit) ==
    client' = [client EXCEPT ![c] = [at |-> at, on |-> s, hit |-> hit]]

-----------------------------------------------------------------------------
\* verify_email() asks for an unused token, _consume_recovery_code() lists the
\* unused codes; reset_password() does not look
ReadSecret(c, s) ==
    /\ client[c].at = "idle"
    /\ secret[s] = "unused" \/ (s \in Resets /\ secret[s] = "used")
    /\ Calls(c, "read", s, {})
    /\ UNCHANGED <<secret, spent, verified, cooling>>

\* ... or is about to invalidate it
SecretHeld(c, s) == ClaimedElsewhere(c, {s}) \/ \E d \in Clients \ {c} : s \in client[d].hit

ClaimSecret_Unguarded(c) ==
    /\ client[c].at = "read" /\ ~SecretHeld(c, client[c].on)
    /\ Calls(c, "claimed", client[c].on, {})
    /\ UNCHANGED <<secret, spent, verified, cooling>>

\* claim() and mark_used(): wait for the row, and match it while it is unused
ClaimSecret(c) ==
    /\ client[c].at = "read" /\ ~SecretHeld(c, client[c].on)
    /\ IF secret[client[c].on] = "unused"
       THEN Calls(c, "claimed", client[c].on, {})
       ELSE Calls(c, "idle", NoSecret, {})
    /\ UNCHANGED <<secret, spent, verified, cooling>>

\* the account changes in the transaction of the claim
SpendSecret(c) ==
    /\ client[c].at = "claimed"
    /\ secret' = [secret EXCEPT ![client[c].on] = "used"]
    /\ spent' = [spent EXCEPT ![client[c].on] = @ + 1]
    /\ verified' = (verified \/ client[c].on \in Links)
    /\ Calls(c, "idle", NoSecret, {})
    /\ UNCHANGED cooling

\* EmailResendCooldown.reserve(): SET NX EX; a key that is there, or a store
\* that cannot be asked, ends the call
ReserveResend(c) ==
    /\ client[c].at = "idle" /\ ~cooling
    /\ cooling' = TRUE
    /\ Calls(c, "reserved", NoSecret, {})
    /\ UNCHANGED <<secret, spent, verified>>

\* EMAIL_RESEND_COOLDOWN_SECONDS pass; a call is over long before that
CooldownEnds ==
    /\ cooling
    /\ \A c \in Clients : /\ client[c].at # "reserved"
                          /\ ~(client[c].at = "invalidated" /\ client[c].on \in Links)
    /\ cooling' = FALSE
    /\ UNCHANGED <<secret, spent, verified, client>>

RequestReset(c) ==
    /\ client[c].at = "idle"
    /\ Calls(c, "resetting", NoSecret, {})
    /\ UNCHANGED <<secret, spent, verified, cooling>>

\* invalidate_outstanding() finds the committed unused tokens of the purpose,
\* after the user was found eligible, and a new one is added
Invalidate(c) ==
    /\ \E S \in {Links, Resets} :
          /\ client[c].at = IF S = Links THEN "reserved" ELSE "resetting"
          /\ IF S = Links /\ verified
             THEN Calls(c, "idle", NoSecret, {})
             ELSE \E s \in S : secret[s] = "absent" /\ (\A d \in Clients : client[d].on # s)
                               /\ Calls(c, "invalidated", s, Outstanding(S))
    /\ UNCHANGED <<secret, spent, verified, cooling>>

\* The commit, after the rows that were claimed.  Which of two calls gets a row
\* first is left open.
IssueSecret(c) ==
    /\ client[c].at = "invalidated" /\ ~ClaimedElsewhere(c, client[c].hit)
    /\ secret' = [s \in OneTime |-> IF s = client[c].on THEN "unused"
                                     ELSE IF s \in client[c].hit THEN "used" ELSE secret[s]]
    /\ Calls(c, "idle", NoSecret, {})
    /\ UNCHANGED <<spent, verified, cooling>>

\* the process dies, or the commit fails for good
ClientDies(c) ==
    /\ client[c].at # "idle"
    /\ Calls(c, "idle", NoSecret, {})
    /\ UNCHANGED <<secret, spent, verified, cooling>>

SecretNext ==
    \/ \E c \in Clients :
          \/ \E s \in OneTime : ReadSecret(c, s)
          \/ ClaimSecret(c) \/ SpendSecret(c)
          \/ ReserveResend(c) \/ RequestReset(c) \/ Invalidate(c) \/ IssueSecret(c)
          \/ ClientDies(c)
    \/ CooldownEnds

SecretSpec == SecretInit /\ [][SecretNext]_secretVars

-----------------------------------------------------------------------------
\* claim(): "only the request that successfully transitions the token from
\* unused to used may mutate the account", also against a reissue; and
\* resend_verification() issues a link "invalidating any previous one": the
\* cooldown keeps two resends from missing each other's.
ConsumedOnce ==
    /\ \A s \in OneTime : spent[s] <= 1
    /\ Cardinality(Outstanding(Links)) <= 1
=============================================================================
