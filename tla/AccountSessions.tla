--------------------------- MODULE AccountSessions ---------------------------
(***************************************************************************)
(* The sessions of one user: the rows of refresh_tokens, token_version,    *)
(* and the calls of AuthService in flight.                                 *)
(*                                                                         *)
(* A call reads the user once and writes token_version as what it read     *)
(* plus one.  Rotation inserts the successor, then claims the presented    *)
(* token by a guarded UPDATE whose row lock it keeps until it commits.     *)
(***************************************************************************)
EXTENDS Naturals

CONSTANTS
    Tokens,         \* numbers: the order in which refresh tokens are issued
    NoToken,
    Callers,        \* requests that may be in flight
    MaxVersion      \* bound of the model: how often everything is revoked

ASSUME SessionAssumption ==
    /\ Tokens \subseteq Nat /\ NoToken \notin Tokens
    /\ MaxVersion \in Nat

VARIABLES
    token,          \* token[t]: the committed row of t
    version,        \* the committed token_version of the user
    session         \* session[c]: the call c has in flight

sessionVars == <<token, version, session>>

\* a family is named by its first token
TokenRow == [status : {"absent", "live", "revoked"}, family : Tokens \cup {NoToken}]

\* on: the token presented; next: its successor; seen: the user's version as
\* it was read; hit: the rows a revoking UPDATE has found
Session == [at : {"idle", "login", "issued", "claimed", "reuse", "ending", "revoking"},
            on : Tokens \cup {NoToken}, next : Tokens \cup {NoToken},
            seen : Nat, hit : SUBSET Tokens]

SessionTypeOK ==
    /\ token \in [Tokens -> TokenRow]
    /\ \A t \in Tokens : token[t].status = "absent" <=> token[t].family = NoToken
    /\ version \in 0..MaxVersion
    /\ session \in [Callers -> Session]
    /\ \A c \in Callers : session[c].at \in {"issued", "claimed", "reuse"}
                              => session[c].on # NoToken

Quiet == [at |-> "idle", on |-> NoToken, next |-> NoToken, seen |-> 0, hit |-> {}]

SessionInit ==
    /\ token = [t \in Tokens |-> [status |-> "absent", family |-> NoToken]]
    /\ version = 0
    /\ session = [c \in Callers |-> Quiet]

Unissued ==
    {t \in Tokens : token[t].status = "absent" /\ \A c \in Callers : session[c].next # t}
NextToken == {t \in Unissued : \A u \in Unissued : t <= u}

LiveTokens(S) == {t \in S : token[t].status = "live"}
FamilyOf(t) == {u \in Tokens : token[u].family = token[t].family}

ClaimedBy(c) == IF session[c].at = "claimed" THEN {session[c].on} ELSE {}

\* rows another call has updated and not committed
RowsHeld(c) ==
    UNION {ClaimedBy(d) \cup session[d].hit : d \in Callers \ {c}}

Issued(t, family) == [token EXCEPT ![t] = [status |-> "live", family |-> family]]

-----------------------------------------------------------------------------
\* login(), register() and session_for_user(): the password and the second
\* factor were right; a new family
BeginLogin(c) ==
    /\ session[c].at = "idle"
    /\ \E t \in NextToken :
          session' = [session EXCEPT ![c] =
                         [Quiet EXCEPT !.at = "login", !.next = t, !.seen = version]]
    /\ UNCHANGED <<token, version>>

FinishLogin(c) ==
    /\ session[c].at = "login"
    /\ token' = Issued(session[c].next, session[c].next)
    /\ session' = [session EXCEPT ![c] = Quiet]
    /\ UNCHANGED version

\* refresh(): the record in any state, and the user; then the successor is
\* flushed, unless the token was revoked already
BeginRefresh(c, t) ==
    /\ session[c].at = "idle" /\ token[t].status # "absent"
    /\ IF token[t].status = "revoked"
       THEN session' = [session EXCEPT ![c] =
               [Quiet EXCEPT !.at = "reuse", !.on = t, !.seen = version]]
       ELSE \E u \in NextToken : session' = [session EXCEPT ![c] =
               [Quiet EXCEPT !.at = "issued", !.on = t, !.next = u, !.seen = version]]
    /\ UNCHANGED <<token, version>>

Rotate_Unguarded(c) ==
    /\ session[c].at = "issued" /\ session[c].on \notin RowsHeld(c)
    /\ session' = [session EXCEPT ![c].at = "claimed"]
    /\ UNCHANGED <<token, version>>

\* mark_replaced(): waits for the row; a token that is no longer live was
\* rotated or revoked meanwhile, and the successor is revoked before anybody
\* sees it
Rotate(c) ==
    /\ session[c].at = "issued" /\ session[c].on \notin RowsHeld(c)
    /\ session' = [session EXCEPT
          ![c].at = IF token[session[c].on].status = "live" THEN "claimed" ELSE "reuse",
          ![c].next = IF token[session[c].on].status = "live" THEN @ ELSE NoToken]
    /\ UNCHANGED <<token, version>>

FinishRefresh(c) ==
    /\ session[c].at = "claimed"
    /\ token' = [Issued(session[c].next, token[session[c].on].family)
                    EXCEPT ![session[c].on].status = "revoked"]
    /\ session' = [session EXCEPT ![c] = Quiet]
    /\ UNCHANGED version

\* logout(), change_password(), reset_password() and a changed second factor
BeginEnd(c) ==
    /\ session[c].at = "idle"
    /\ session' = [session EXCEPT ![c] = [Quiet EXCEPT !.at = "ending", !.seen = version]]
    /\ UNCHANGED <<token, version>>

\* revoke_family() and revoke_all_for_user(): the UPDATE finds the committed
\* live rows, and waits for those that are held
Revoke(c) ==
    /\ session[c].at \in {"reuse", "ending"}
    /\ session' = [session EXCEPT ![c].at = "revoking",
          ![c].hit = LiveTokens(IF session[c].at = "reuse"
                                THEN FamilyOf(session[c].on) ELSE Tokens)]
    /\ UNCHANGED <<token, version>>

\* The commit.  Which of two calls gets the row of the user first is left open.
FinishRevoke(c) ==
    /\ session[c].at = "revoking" /\ session[c].seen < MaxVersion
    /\ \A d \in Callers : ClaimedBy(d) \cap session[c].hit = {}
    /\ token' = [t \in Tokens |-> IF t \in session[c].hit
                    THEN [token[t] EXCEPT !.status = "revoked"] ELSE token[t]]
    /\ version' = session[c].seen + 1
    /\ session' = [session EXCEPT ![c] = Quiet]

\* the process dies, or the client goes away before the commit
DropCall(c) ==
    /\ session[c].at # "idle"
    /\ session' = [session EXCEPT ![c] = Quiet]
    /\ UNCHANGED <<token, version>>

SessionNext ==
    \E c \in Callers :
        \/ BeginLogin(c) \/ FinishLogin(c)
        \/ \E t \in Tokens : BeginRefresh(c, t)
        \/ Rotate(c) \/ FinishRefresh(c)
        \/ BeginEnd(c) \/ Revoke(c) \/ FinishRevoke(c) \/ DropCall(c)

SessionSpec == SessionInit /\ [][SessionNext]_sessionVars

-----------------------------------------------------------------------------
\* mark_replaced(): a token is exchanged for one successor, however many
\* requests present it at once, so that a login has one usable token at a time.
OneLivePerFamily ==
    \A t, u \in LiveTokens(Tokens) : token[t].family = token[u].family => t = u
=============================================================================
