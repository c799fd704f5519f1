--------------------------- MODULE AccountProofs ----------------------------
(***************************************************************************)
(* OneLivePerFamily for any tokens, calls in flight and versions, and      *)
(* ConsumedOnce for any secrets and any calls in flight.                   *)
(***************************************************************************)
EXTENDS AccountSessions, AccountTokens, FiniteSetTheorems, TLAPS

\* The first token of a family has been issued.
FoundedInv ==
    \A t \in Tokens : token[t].family \in Tokens
                         => token[token[t].family].status # "absent"

\* A call that will insert a token has reserved it for itself.
ReservedInv ==
    /\ \A c \in Callers : session[c].at \in {"login", "issued", "claimed"}
          => session[c].next \in Tokens /\ token[session[c].next].status = "absent"
    /\ \A c, d \in Callers : session[c].next = session[d].next /\ session[c].next # NoToken
          => c = d

\* What a call presents has been issued; what it has claimed is live, and is
\* claimed by nobody else.
ClaimedInv ==
    /\ \A c \in Callers : session[c].at \in {"issued", "claimed", "reuse"}
          => session[c].on \in Tokens /\ token[session[c].on].status # "absent"
    /\ \A c \in Callers : session[c].at = "claimed" => token[session[c].on].status = "live"
    /\ \A c, d \in Callers : /\ session[c].at = "claimed" /\ session[d].at = "claimed"
                             /\ session[c].on = session[d].on
          => c = d

\* The rows found by a revoking UPDATE have been issued.
HitInv == \A c \in Callers : \A t \in session[c].hit : token[t].status # "absent"

\* OneLivePerFamily with what makes it inductive.
SessionInv ==
    SessionTypeOK /\ FoundedInv /\ ReservedInv /\ ClaimedInv /\ HitInv /\ OneLivePerFamily

\* Nobody has logged in.
LEMMA SessionInitially == SessionInit => SessionInv
  BY SessionAssumption DEF SessionInit, Quiet, SessionInv, SessionTypeOK, TokenRow, Session,
     FoundedInv, ReservedInv, ClaimedInv, HitInv, OneLivePerFamily, LiveTokens

\* What the reserved token of a call looks like.
LEMMA NextTokenFree ==
    \A t \in NextToken : /\ t \in Tokens /\ token[t].status = "absent"
                         /\ \A c \in Callers : session[c].next # t
  BY DEF NextToken, Unissued

\* A step of one call that commits nothing: its new session r keeps the
\* reservations and the claims apart.
LEMMA UncommittedStep ==
    ASSUME SessionInv, NEW c \in Callers, NEW r \in Session,
           session' = [session EXCEPT ![c] = r], UNCHANGED <<token, version>>,
           r.at \in {"login", "issued", "claimed"}
              => r.next \in Tokens /\ token[r.next].status = "absent",
           r.next = NoToken \/ r.next = session[c].next \/ r.next \in NextToken,
           r.at \in {"issued", "claimed", "reuse"}
              => r.on \in Tokens /\ token[r.on].status # "absent",
           r.at = "claimed" => /\ token[r.on].status = "live"
                               /\ \A d \in Callers \ {c} : session[d].at = "claimed"
                                     => session[d].on # r.on,
           \A t \in r.hit : token[t].status # "absent"
    PROVE  SessionInv'
<1> USE SessionAssumption DEF SessionInv
<1>1. /\ session' \in [Callers -> Session] /\ session'[c] = r
      /\ \A d \in Callers \ {c} : session'[d] = session[d]
  BY DEF SessionTypeOK
<1>2. SessionTypeOK'
  BY <1>1 DEF SessionTypeOK
<1>3. ReservedInv'
  BY <1>1, NextTokenFree DEF ReservedInv
<1>4. ClaimedInv'
  BY <1>1 DEF ClaimedInv
<1>5. FoundedInv' /\ HitInv' /\ OneLivePerFamily'
  BY <1>1 DEF FoundedInv, HitInv, OneLivePerFamily, LiveTokens
<1> QED
  BY <1>2, <1>3, <1>4, <1>5

\* The call ends without a trace.
LEMMA QuietCall ==
    /\ Quiet \in Session /\ Quiet.at = "idle" /\ Quiet.on = NoToken /\ Quiet.next = NoToken
    /\ Quiet.hit = {}
  BY DEF Quiet, Session

\* The steps of a call before its commit.
LEMMA BeforeCommit ==
    ASSUME SessionInv, NEW c \in Callers,
           \/ BeginLogin(c) \/ BeginEnd(c) \/ DropCall(c) \/ Revoke(c) \/ Rotate(c)
           \/ \E t \in Tokens : BeginRefresh(c, t)
    PROVE  SessionInv'
<1> USE SessionAssumption
<1>0. session[c] \in Session /\ version \in Nat
  BY DEF SessionInv, SessionTypeOK
<1>1. CASE BeginLogin(c)
  <2>1. PICK t \in NextToken : /\ session' = [session EXCEPT ![c] =
                                     [Quiet EXCEPT !.at = "login", !.next = t, !.seen = version]]
                               /\ UNCHANGED <<token, version>>
    BY <1>1 DEF BeginLogin
  <2> DEFINE r == [Quiet EXCEPT !.at = "login", !.next = t, !.seen = version]
  <2>2. r \in Session /\ r.at = "login" /\ r.next = t /\ r.hit = {}
    BY <1>0, NextTokenFree DEF Quiet, Session
  <2> HIDE DEF r
  <2> QED
    BY <2>1, <2>2, NextTokenFree, UncommittedStep DEF r
<1>2. CASE BeginEnd(c) \/ DropCall(c)
  <2> DEFINE r == IF BeginEnd(c) THEN [Quiet EXCEPT !.at = "ending", !.seen = version]
                  ELSE Quiet
  <2>1. session' = [session EXCEPT ![c] = r] /\ UNCHANGED <<token, version>>
    BY <1>2 DEF BeginEnd, DropCall
  <2>2. r \in Session /\ r.at \in {"idle", "ending"} /\ r.next = NoToken /\ r.hit = {}
    <3>1. CASE BeginEnd(c)
      BY <1>0, <3>1 DEF Quiet, Session
    <3>2. CASE ~BeginEnd(c)
      BY <3>2, QuietCall
    <3> QED
      BY <3>1, <3>2
  <2> HIDE DEF r
  <2> QED
    BY <2>1, <2>2, UncommittedStep
<1>3. CASE Revoke(c)
  <2> DEFINE S == IF session[c].at = "reuse" THEN FamilyOf(session[c].on) ELSE Tokens
             r == [session[c] EXCEPT !.at = "revoking", !.hit = LiveTokens(S)]
  <2>1. session' = [session EXCEPT ![c] = r] /\ UNCHANGED <<token, version>>
    BY <1>3 DEF Revoke, SessionInv, SessionTypeOK
  <2>2. LiveTokens(S) \subseteq Tokens /\ \A t \in LiveTokens(S) : token[t].status = "live"
    BY DEF LiveTokens, FamilyOf
  <2>3. r \in Session /\ r.at = "revoking" /\ r.next = session[c].next /\ r.hit = LiveTokens(S)
    BY <1>0, <2>2 DEF Session
  <2> HIDE DEF r, S
  <2> QED
    BY <2>1, <2>2, <2>3, UncommittedStep
<1>4. CASE Rotate(c)
  <2> DEFINE live == token[session[c].on].status = "live"
             r == [session[c] EXCEPT !.at = IF live THEN "claimed" ELSE "reuse",
                                     !.next = IF live THEN @ ELSE NoToken]
  <2>1. session' = [session EXCEPT ![c] = r] /\ UNCHANGED <<token, version>>
    BY <1>4 DEF Rotate, SessionInv, SessionTypeOK
  <2>2. /\ r \in Session /\ r.at = (IF live THEN "claimed" ELSE "reuse") /\ r.on = session[c].on
        /\ r.next = (IF live THEN session[c].next ELSE NoToken) /\ r.hit = session[c].hit
    BY <1>0 DEF Session
  <2>3. session[c].at = "issued" /\ session[c].on \notin RowsHeld(c)
    BY <1>4 DEF Rotate
  <2>4. \A d \in Callers \ {c} : session[d].at = "claimed" => session[d].on # session[c].on
    BY <2>3 DEF RowsHeld, ClaimedBy
  <2>5. /\ session[c].next \in Tokens /\ token[session[c].next].status = "absent"
        /\ session[c].on \in Tokens /\ token[session[c].on].status # "absent"
        /\ \A t \in session[c].hit : token[t].status # "absent"
    BY <2>3 DEF SessionInv, ReservedInv, ClaimedInv, HitInv
  <2> HIDE DEF r
  <2>6. CASE live
    BY <2>1, <2>2, <2>4, <2>5, <2>6, UncommittedStep
  <2>7. CASE ~live
    BY <2>1, <2>2, <2>5, <2>7, UncommittedStep
  <2> QED
    BY <2>6, <2>7
<1>5. ASSUME NEW t \in Tokens, BeginRefresh(c, t)
      PROVE  SessionInv'
  <2>1. CASE token[t].status = "revoked"
    <3> DEFINE r == [Quiet EXCEPT !.at = "reuse", !.on = t, !.seen = version]
    <3>1. session' = [session EXCEPT ![c] = r] /\ UNCHANGED <<token, version>>
      BY <1>5, <2>1 DEF BeginRefresh
    <3>2. r \in Session /\ r.at = "reuse" /\ r.on = t /\ r.next = NoToken /\ r.hit = {}
      BY <1>0 DEF Quiet, Session
    <3> HIDE DEF r
    <3> QED
      BY <2>1, <3>1, <3>2, UncommittedStep
  <2>2. CASE token[t].status # "revoked"
    <3>1. PICK u \in NextToken :
             /\ session' = [session EXCEPT ![c] =
                   [Quiet EXCEPT !.at = "issued", !.on = t, !.next = u, !.seen = version]]
             /\ UNCHANGED <<token, version>> /\ token[t].status # "absent"
      BY <1>5, <2>2 DEF BeginRefresh
    <3> DEFINE r == [Quiet EXCEPT !.at = "issued", !.on = t, !.next = u, !.seen = version]
    <3>2. r \in Session /\ r.at = "issued" /\ r.on = t /\ r.next = u /\ r.hit = {}
      BY <1>0, NextTokenFree DEF Quiet, Session
    <3> HIDE DEF r
    <3> QED
      BY <3>1, <3>2, NextTokenFree, UncommittedStep DEF r
  <2> QED
    BY <2>1, <2>2
<1> QED
  BY <1>1, <1>2, <1>3, <1>4, <1>5

\* A commit: c lets go of its reservation and its claim.  No row that another
\* call has reserved or claimed is touched, and no family gets a second live token.
LEMMA CommitStep ==
    ASSUME SessionInv, NEW c \in Callers,
           session' = [session EXCEPT ![c] = Quiet],
           SessionTypeOK', FoundedInv', OneLivePerFamily',
           \A t \in Tokens : token[t].status # "absent" => token'[t].status # "absent",
           \A d \in Callers \ {c} : session[d].at \in {"login", "issued", "claimed"}
              => token'[session[d].next].status = token[session[d].next].status,
           \A d \in Callers \ {c} : session[d].at = "claimed"
              => token'[session[d].on].status = token[session[d].on].status
    PROVE  SessionInv'
<1> USE SessionAssumption, QuietCall DEF SessionInv
<1>1. /\ session'[c] = Quiet /\ \A d \in Callers \ {c} : session'[d] = session[d]
      /\ \A d \in Callers : session[d].hit \subseteq Tokens
  BY DEF SessionTypeOK, Session
<1>2. ReservedInv'
  BY <1>1 DEF ReservedInv
<1>3. ClaimedInv'
  <2>1. ASSUME NEW d \in Callers, session'[d].at \in {"issued", "claimed", "reuse"}
        PROVE  /\ d # c /\ session'[d] = session[d]
               /\ session'[d].on \in Tokens /\ token'[session'[d].on].status # "absent"
    <3>1. d # c /\ session'[d] = session[d]
      BY <1>1, <2>1
    <3>2. session[d].on \in Tokens /\ token[session[d].on].status # "absent"
      BY <2>1, <3>1 DEF ClaimedInv
    <3> QED
      BY <3>1, <3>2
  <2>2. \A d \in Callers : session'[d].at = "claimed" => token'[session'[d].on].status = "live"
    BY <1>1 DEF ClaimedInv
  <2>3. \A d, e \in Callers : /\ session'[d].at = "claimed" /\ session'[e].at = "claimed"
                              /\ session'[d].on = session'[e].on
          => d = e
    BY <2>1 DEF ClaimedInv
  <2> QED
    BY <2>1, <2>2, <2>3 DEF ClaimedInv
<1>4. HitInv'
  BY <1>1 DEF HitInv
<1> QED
  BY <1>2, <1>3, <1>4

\* A token is inserted, and the token it replaces, if any, revoked.
LEMMA TokenInserted ==
    ASSUME SessionInv, NEW c \in Callers, FinishLogin(c) \/ FinishRefresh(c)
    PROVE  SessionInv'
<1> DEFINE n == session[c].next
           o == session[c].on
<1> USE SessionAssumption
<1>0. /\ n \in Tokens /\ token[n].status = "absent" /\ token[n].family = NoToken
      /\ \A t \in Tokens : token[t] \in TokenRow
      /\ \A t \in Tokens : token[t].family = NoToken <=> token[t].status = "absent"
      /\ session' = [session EXCEPT ![c] = Quiet] /\ UNCHANGED version
      /\ \A d \in Callers \ {c} : session[d].next # n
  BY DEF FinishLogin, FinishRefresh, SessionInv, SessionTypeOK, ReservedInv
<1>1. SessionTypeOK' <=> /\ token' \in [Tokens -> TokenRow]
                         /\ \A t \in Tokens : token'[t].status = "absent"
                                                 <=> token'[t].family = NoToken
  BY <1>0, QuietCall DEF SessionInv, SessionTypeOK
<1>2. CASE FinishLogin(c)
  <2>1. token' = [token EXCEPT ![n] = [status |-> "live", family |-> n]]
    BY <1>2 DEF FinishLogin, Issued
  <2>2. /\ token'[n].status = "live" /\ token'[n].family = n
        /\ \A t \in Tokens \ {n} : token'[t] = token[t]
        /\ token' \in [Tokens -> TokenRow]
    BY <1>0, <2>1 DEF SessionInv, SessionTypeOK, TokenRow
  <2>3. SessionTypeOK'
    <3>1. ASSUME NEW t \in Tokens
          PROVE  token'[t].status = "absent" <=> token'[t].family = NoToken
      BY <1>0, <2>2 DEF TokenRow
    <3> QED
      BY <1>1, <2>2, <3>1
  <2>4. FoundedInv'
    <3> SUFFICES ASSUME NEW t \in Tokens, token'[t].family \in Tokens
                 PROVE  token'[token'[t].family].status # "absent"
      BY DEF FoundedInv
    <3>1. \A u \in Tokens : token[u].status # "absent" => token'[u].status # "absent"
      BY <1>0, <2>2
    <3>2. CASE t = n
      BY <1>0, <2>2, <3>1, <3>2 DEF SessionInv, FoundedInv
    <3>3. CASE t # n
      <4>1. token'[t].family = token[t].family
        BY <1>0, <2>2, <3>3
      <4> QED
        BY <3>1, <4>1 DEF SessionInv, FoundedInv
    <3> QED
      BY <3>2, <3>3
  <2>5. \A t \in Tokens \ {n} : token[t].family # n
    BY <1>0 DEF SessionInv, FoundedInv
  <2>6. OneLivePerFamily'
    BY <1>0, <2>2, <2>5 DEF SessionInv, OneLivePerFamily, LiveTokens
  <2>7. \A d \in Callers \ {c} : session[d].at = "claimed" => session[d].on # n
    BY <1>0 DEF SessionInv, ClaimedInv
  <2>8. \A d \in Callers : /\ session[d].at \in {"login", "issued", "claimed"}
                                 => session[d].next \in Tokens
                           /\ session[d].at = "claimed" => session[d].on \in Tokens
    BY DEF SessionInv, ReservedInv, ClaimedInv
  <2>9. \A t \in Tokens : token[t].status # "absent" => token'[t].status # "absent"
    BY <2>2
  <2>10. \A d \in Callers \ {c} :
           /\ session[d].at \in {"login", "issued", "claimed"}
                 => token'[session[d].next].status = token[session[d].next].status
           /\ session[d].at = "claimed"
                 => token'[session[d].on].status = token[session[d].on].status
    BY <1>0, <2>2, <2>7, <2>8
  <2> QED
    BY <1>0, <2>3, <2>4, <2>6, <2>9, <2>10, CommitStep
<1>3. CASE FinishRefresh(c)
  <2>0. /\ o \in Tokens /\ token[o].status = "live" /\ o # n
        /\ token[o].family \in Tokens
        /\ \A d \in Callers \ {c} : session[d].at = "claimed" => session[d].on # o
    BY <1>0, <1>3 DEF FinishRefresh, SessionInv, ClaimedInv, TokenRow
  <2>1. token' = [[token EXCEPT ![n] = [status |-> "live", family |-> token[o].family]]
                     EXCEPT ![o].status = "revoked"]
    BY <1>3 DEF FinishRefresh, Issued
  <2>2. /\ token'[n].status = "live" /\ token'[n].family = token[o].family
        /\ token'[o].status = "revoked" /\ token'[o].family = token[o].family
        /\ \A t \in Tokens \ {n, o} : token'[t] = token[t]
        /\ token' \in [Tokens -> TokenRow]
    BY <1>0, <2>0, <2>1 DEF SessionInv, SessionTypeOK, TokenRow
  <2>3. SessionTypeOK'
    <3>1. ASSUME NEW t \in Tokens
          PROVE  token'[t].status = "absent" <=> token'[t].family = NoToken
      BY <1>0, <2>0, <2>2 DEF TokenRow
    <3> QED
      BY <1>1, <2>2, <3>1
  <2>4. FoundedInv'
    <3> SUFFICES ASSUME NEW t \in Tokens, token'[t].family \in Tokens
                 PROVE  token'[token'[t].family].status # "absent"
      BY DEF FoundedInv
    <3>1. \A u \in Tokens : token[u].status # "absent" => token'[u].status # "absent"
      BY <1>0, <2>0, <2>2
    <3>2. CASE t = n
      BY <1>0, <2>0, <2>2, <3>1, <3>2 DEF SessionInv, FoundedInv
    <3>3. CASE t # n
      <4>1. token'[t].family = token[t].family
        BY <1>0, <2>0, <2>2, <3>3
      <4> QED
        BY <3>1, <4>1 DEF SessionInv, FoundedInv
    <3> QED
      BY <3>2, <3>3
  <2>5. \A t \in Tokens \ {o} : token[t].status = "live" => token[t].family # token[o].family
    BY <2>0 DEF SessionInv, OneLivePerFamily, LiveTokens
  <2>6. OneLivePerFamily'
    BY <1>0, <2>0, <2>2, <2>5 DEF SessionInv, OneLivePerFamily, LiveTokens
  <2>7. \A d \in Callers \ {c} :
           /\ session[d].at \in {"login", "issued", "claimed"}
                 => /\ session[d].next \in Tokens
                    /\ token[session[d].next].status = "absent"
           /\ session[d].at = "claimed" => session[d].on \in Tokens /\ session[d].on # n
    BY <1>0 DEF SessionInv, ReservedInv, ClaimedInv
  <2>8. \A t \in Tokens : token[t].status # "absent" => token'[t].status # "absent"
    BY <2>0, <2>2
  <2>9. \A d \in Callers \ {c} :
           /\ session[d].at \in {"login", "issued", "claimed"}
                 => token'[session[d].next].status = token[session[d].next].status
           /\ session[d].at = "claimed"
                 => token'[session[d].on].status = token[session[d].on].status
    BY <1>0, <2>0, <2>2, <2>7
  <2> QED
    BY <1>0, <2>3, <2>4, <2>6, <2>8, <2>9, CommitStep
<1> QED
  BY <1>2, <1>3

\* The rows an UPDATE has found are revoked, and none of them is claimed.
LEMMA RowsRevoked ==
    ASSUME SessionInv, NEW c \in Callers, FinishRevoke(c)
    PROVE  SessionInv'
<1> USE SessionAssumption
<1>0. /\ \A t \in Tokens : /\ token'[t].family = token[t].family
                           /\ token'[t].status = (IF t \in session[c].hit THEN "revoked"
                                                  ELSE token[t].status)
      /\ token' \in [Tokens -> TokenRow]
      /\ session' = [session EXCEPT ![c] = Quiet]
      /\ \A t \in session[c].hit : t \in Tokens /\ token[t].status # "absent"
  BY DEF FinishRevoke, SessionInv, SessionTypeOK, TokenRow, Session, HitInv
<1>1. version' \in 0..MaxVersion
  BY DEF FinishRevoke, SessionInv, SessionTypeOK, Session
<1>2. SessionTypeOK'
  BY <1>0, <1>1, QuietCall DEF SessionInv, SessionTypeOK
<1>3. FoundedInv'
  BY <1>0 DEF SessionInv, FoundedInv
<1>4. OneLivePerFamily'
  <2>1. \A t \in LiveTokens(Tokens)' : t \in LiveTokens(Tokens)
    BY <1>0 DEF LiveTokens
  <2> QED
    BY <1>0, <2>1 DEF SessionInv, OneLivePerFamily, LiveTokens
<1>5. \A d \in Callers : session[d].at = "claimed" => session[d].on \notin session[c].hit
  BY DEF FinishRevoke, ClaimedBy
<1>6. \A d \in Callers :
         /\ session[d].at \in {"login", "issued", "claimed"}
               => session[d].next \in Tokens /\ session[d].next \notin session[c].hit
         /\ session[d].at = "claimed" => session[d].on \in Tokens
  BY <1>0 DEF SessionInv, ReservedInv, ClaimedInv
<1> QED
  BY <1>0, <1>2, <1>3, <1>4, <1>5, <1>6, CommitStep

\* SessionInv holds in every reachable state.
LEMMA SessionAlways == SessionSpec => []SessionInv
<1>1. SessionInv /\ SessionNext => SessionInv'
  BY BeforeCommit, TokenInserted, RowsRevoked DEF SessionNext
<1>2. SessionInv /\ UNCHANGED sessionVars => SessionInv'
  BY DEF SessionInv, SessionTypeOK, FoundedInv, ReservedInv, ClaimedInv, HitInv,
         OneLivePerFamily, LiveTokens, sessionVars
<1> QED
  BY <1>1, <1>2, SessionInitially, PTL DEF SessionSpec

\* AuthService: sessions keep their types.
THEOREM SessionTypeCorrect == SessionSpec => []SessionTypeOK
  BY SessionAlways, PTL DEF SessionInv

\* RefreshTokenRepository.mark_replaced(): of the requests that present a token
\* at once one gets a successor, and a login has one usable token at a time.
THEOREM OneLiveToken == SessionSpec => []OneLivePerFamily
  BY SessionAlways, PTL DEF SessionInv

-----------------------------------------------------------------------------
(* Verification links, reset tokens and recovery codes.                    *)

\* A secret in use is good for one effect; a claimed one is unused, and no
\* other call has claimed it or is about to invalidate it.
SpendingInv ==
    /\ \A s \in OneTime : spent[s] <= 1 /\ (spent[s] > 0 => secret[s] = "used")
    /\ \A c \in Clients : client[c].at = "claimed" => secret[client[c].on] = "unused"
    /\ \A c, d \in Clients : /\ client[c].at = "claimed" /\ client[d].at = "claimed"
                             /\ client[c].on = client[d].on
          => c = d

\* A call that issues a link or a reset has reserved an absent one.
IssuingInv ==
    /\ \A c \in Clients : client[c].at = "invalidated" =>
          /\ client[c].on \in Links \cup Resets /\ secret[client[c].on] = "absent"
          /\ client[c].on \in Links => client[c].hit \subseteq Links
          /\ client[c].on \in Resets => client[c].hit \subseteq Resets
          /\ \A s \in client[c].hit : secret[s] # "absent"
    /\ \A c, d \in Clients : /\ client[c].at = "invalidated" /\ client[d].at = "invalidated"
                             /\ client[c].on = client[d].on
          => c = d

\* c has the resend key.
Resending(c) ==
    client[c].at = "reserved" \/ (client[c].at = "invalidated" /\ client[c].on \in Links)

\* While the key is there one call may resend, and it invalidates what is
\* outstanding when it commits.
ResendInv ==
    /\ \A c \in Clients : Resending(c) => cooling
    /\ \A c, d \in Clients : Resending(c) /\ Resending(d) => c = d
    /\ \A c \in Clients : client[c].at = "invalidated" /\ client[c].on \in Links
          => Outstanding(Links) \subseteq client[c].hit

\* At most one link is outstanding.
OneLink == \A s, t \in Outstanding(Links) : s = t

\* ConsumedOnce with what makes it inductive.
SecretInv == SecretTypeOK /\ SpendingInv /\ IssuingInv /\ ResendInv /\ OneLink

\* register() has issued one link.
LEMMA SecretInitially == SecretInit => SecretInv
<1> SUFFICES ASSUME SecretInit
             PROVE  SecretInv
  OBVIOUS
<1> USE SecretAssumption
<1>1. /\ NoCall \in Client /\ NoCall.at = "idle" /\ NoCall.on = NoSecret
      /\ \A c \in Clients : client[c] = NoCall
  BY DEF SecretInit, NoCall, Client
<1>2. SecretTypeOK
  <2>1. /\ secret \in [OneTime -> {"absent", "unused", "used"}]
        /\ spent \in [OneTime -> Nat] /\ \A s \in OneTime : spent[s] = 0
    BY DEF SecretInit
  <2>2. client \in [Clients -> Client]
    BY <1>1 DEF SecretInit
  <2>3. \A s \in OneTime : spent[s] > 0 => secret[s] = "used"
    BY <2>1
  <2>4. \A c \in Clients : client[c].at \in {"read", "claimed", "invalidated"}
                              <=> client[c].on # NoSecret
    BY <1>1
  <2> QED
    BY <2>1, <2>2, <2>3, <2>4 DEF SecretInit, SecretTypeOK
<1>3. SpendingInv /\ IssuingInv /\ ResendInv
  BY <1>1 DEF SecretInit, SpendingInv, IssuingInv, ResendInv, Resending
<1>4. OneLink
  <2>1. \A s \in Links : secret[s] = "unused" => s = FirstLink
    BY DEF SecretInit, OneTime
  <2> QED
    BY <2>1 DEF OneLink, Outstanding
<1> QED
  BY <1>2, <1>3, <1>4 DEF SecretInv

\* The session of a call becomes r.
LEMMA CallsStep ==
    ASSUME SecretInv, NEW c \in Clients, NEW at, NEW s, NEW hit, Calls(c, at, s, hit)
    PROVE  LET r == [at |-> at, on |-> s, hit |-> hit]
           IN  /\ r \in Client => client' \in [Clients -> Client]
               /\ client'[c] = r
               /\ \A d \in Clients \ {c} : client'[d] = client[d]
  BY DEF Calls, SecretInv, SecretTypeOK

\* A step of one call that commits nothing.
LEMMA UncommittedCall ==
    ASSUME SecretInv, NEW c \in Clients, NEW r \in Client,
           client' \in [Clients -> Client], client'[c] = r,
           \A d \in Clients \ {c} : client'[d] = client[d],
           UNCHANGED <<secret, spent, verified>>, cooling' \in BOOLEAN,
           r.at \in {"read", "claimed", "invalidated"} <=> r.on # NoSecret,
           r.at = "claimed" => /\ secret[r.on] = "unused"
                               /\ \A d \in Clients \ {c} : client[d].at = "claimed"
                                     => client[d].on # r.on,
           r.at = "invalidated" =>
              /\ r.on \in Links \cup Resets /\ secret[r.on] = "absent"
              /\ r.on \in Links => r.hit = Outstanding(Links)
              /\ r.on \in Resets => r.hit = Outstanding(Resets)
              /\ \A d \in Clients : client[d].on # r.on,
           cooling => cooling',
           r.at = "reserved" \/ (r.at = "invalidated" /\ r.on \in Links)
              => cooling' /\ (Resending(c) \/ ~cooling)
    PROVE  SecretInv'
<1> USE SecretAssumption DEF SecretInv
<1>1. SecretTypeOK'
  BY DEF SecretTypeOK
<1>2. SpendingInv'
  <2>1. \A d \in Clients : client'[d].at = "claimed" => secret'[client'[d].on] = "unused"
    BY DEF SpendingInv
  <2>2. \A d, e \in Clients : /\ client'[d].at = "claimed" /\ client'[e].at = "claimed"
                              /\ client'[d].on = client'[e].on
          => d = e
    BY DEF SpendingInv
  <2> QED
    BY <2>1, <2>2 DEF SpendingInv
<1>3. IssuingInv'
  <2>0. \A d, e \in Clients : /\ client'[d].at = "invalidated" /\ client'[e].at = "invalidated"
                              /\ client'[d].on = client'[e].on
          => d = e
    BY DEF IssuingInv
  <2> SUFFICES ASSUME NEW d \in Clients, client'[d].at = "invalidated"
               PROVE  /\ client'[d].on \in Links \cup Resets
                      /\ secret[client'[d].on] = "absent"
                      /\ client'[d].on \in Links => client'[d].hit \subseteq Links
                      /\ client'[d].on \in Resets => client'[d].hit \subseteq Resets
                      /\ \A s \in client'[d].hit : secret[s] # "absent"
    BY <2>0 DEF IssuingInv
  <2>1. CASE d = c
    BY <2>1 DEF Outstanding
  <2>2. CASE d # c
    BY <2>2 DEF IssuingInv
  <2> QED
    BY <2>1, <2>2
<1>4. ResendInv'
  <2>1. \A d \in Clients : Resending(d)' => cooling' /\ (Resending(d) \/ (d = c /\ ~cooling))
    BY DEF ResendInv, Resending
  <2>2. \A d, e \in Clients : Resending(d)' /\ Resending(e)' => d = e
    BY <2>1 DEF ResendInv
  <2>3. \A d \in Clients : client'[d].at = "invalidated" /\ client'[d].on \in Links
           => Outstanding(Links)' \subseteq client'[d].hit
    BY DEF ResendInv, Outstanding
  <2> QED
    BY <2>1, <2>2, <2>3 DEF ResendInv
<1>5. OneLink'
  BY DEF OneLink, Outstanding
<1> QED
  BY <1>1, <1>2, <1>3, <1>4, <1>5

\* The steps of a call before its commit.
LEMMA CallsUncommitted ==
    ASSUME SecretInv, NEW c \in Clients,
           \/ \E s \in OneTime : ReadSecret(c, s)
           \/ ClaimSecret(c) \/ ReserveResend(c) \/ RequestReset(c) \/ Invalidate(c)
           \/ ClientDies(c)
    PROVE  SecretInv'
<1> USE SecretAssumption
<1>0. /\ client[c] \in Client /\ cooling \in BOOLEAN
      /\ client[c].at \in {"read", "claimed", "invalidated"} <=> client[c].on # NoSecret
  BY DEF SecretInv, SecretTypeOK
<1>1. ASSUME NEW s \in OneTime, ReadSecret(c, s)
      PROVE  SecretInv'
  <2> DEFINE r == [at |-> "read", on |-> s, hit |-> {}]
  <2>1. r \in Client /\ r.at = "read" /\ r.on = s /\ s # NoSecret
    BY DEF Client
  <2>2. /\ Calls(c, "read", s, {}) /\ UNCHANGED <<secret, spent, verified, cooling>>
    BY <1>1 DEF ReadSecret
  <2> QED
    BY <1>0, <2>1, <2>2, CallsStep, UncommittedCall
<1>2. ASSUME Calls(c, "idle", NoSecret, {}), UNCHANGED <<secret, spent, verified, cooling>>
      PROVE  SecretInv'
  <2> DEFINE r == [at |-> "idle", on |-> NoSecret, hit |-> {}]
  <2>1. r \in Client /\ r.at = "idle" /\ r.on = NoSecret
    BY DEF Client
  <2> QED
    BY <1>0, <1>2, <2>1, CallsStep, UncommittedCall
<1>3. CASE ClaimSecret(c)
  <2> DEFINE s == client[c].on
             r == [at |-> "claimed", on |-> s, hit |-> {}]
  <2>1. CASE secret[s] = "unused"
    <3>1. r \in Client /\ r.at = "claimed" /\ r.on = s /\ s # NoSecret
      BY <1>0, <1>3 DEF Client, ClaimSecret
    <3>2. Calls(c, "claimed", s, {}) /\ UNCHANGED <<secret, spent, verified, cooling>>
      BY <1>3, <2>1 DEF ClaimSecret
    <3>3. \A d \in Clients \ {c} : client[d].at = "claimed" => client[d].on # s
      BY <1>3 DEF ClaimSecret, SecretHeld, ClaimedElsewhere
    <3> HIDE DEF r
    <3>4. /\ client' \in [Clients -> Client] /\ client'[c] = r
          /\ \A d \in Clients \ {c} : client'[d] = client[d]
      BY <3>1, <3>2, CallsStep DEF r
    <3> HIDE DEF s
    <3> QED
      BY <1>0, <2>1, <3>1, <3>2, <3>3, <3>4, UncommittedCall
  <2>2. CASE secret[s] # "unused"
    BY <1>2, <1>3, <2>2 DEF ClaimSecret
  <2> QED
    BY <2>1, <2>2
<1>4. CASE ReserveResend(c)
  <2> DEFINE r == [at |-> "reserved", on |-> NoSecret, hit |-> {}]
  <2>1. r \in Client /\ r.at = "reserved" /\ r.on = NoSecret
    BY DEF Client
  <2>2. /\ Calls(c, "reserved", NoSecret, {}) /\ UNCHANGED <<secret, spent, verified>>
        /\ cooling' = TRUE /\ ~cooling
    BY <1>4 DEF ReserveResend
  <2> HIDE DEF r
  <2>3. /\ client' \in [Clients -> Client] /\ client'[c] = r
        /\ \A d \in Clients \ {c} : client'[d] = client[d]
    BY <2>1, <2>2, CallsStep DEF r
  <2> QED
    BY <2>1, <2>2, <2>3, UncommittedCall
<1>5. CASE RequestReset(c)
  <2> DEFINE r == [at |-> "resetting", on |-> NoSecret, hit |-> {}]
  <2>1. r \in Client /\ r.at = "resetting" /\ r.on = NoSecret
    BY DEF Client
  <2>2. Calls(c, "resetting", NoSecret, {}) /\ UNCHANGED <<secret, spent, verified, cooling>>
    BY <1>5 DEF RequestReset
  <2> QED
    BY <1>0, <2>1, <2>2, CallsStep, UncommittedCall
<1>6. ASSUME NEW S \in {Links, Resets}, NEW s \in S, secret[s] = "absent",
             \A d \in Clients : client[d].on # s,
             client[c].at = IF S = Links THEN "reserved" ELSE "resetting",
             Calls(c, "invalidated", s, Outstanding(S)),
             UNCHANGED <<secret, spent, verified, cooling>>
      PROVE  SecretInv'
  <2> DEFINE r == [at |-> "invalidated", on |-> s, hit |-> Outstanding(S)]
  <2>1. /\ r \in Client /\ r.at = "invalidated" /\ r.on = s /\ r.hit = Outstanding(S)
        /\ s # NoSecret /\ s \in OneTime
    BY DEF Client, OneTime, Outstanding
  <2>2. /\ s \in Links => S = Links /\ Resending(c) /\ cooling
        /\ s \in Resets => S = Resets
    BY <1>6 DEF Resending, SecretInv, ResendInv
  <2> HIDE DEF r
  <2>3. /\ client' \in [Clients -> Client] /\ client'[c] = r
        /\ \A d \in Clients \ {c} : client'[d] = client[d]
    BY <1>6, <2>1, CallsStep DEF r
  <2> QED
    BY <1>0, <1>6, <2>1, <2>2, <2>3, UncommittedCall
<1>7. CASE Invalidate(c)
  BY <1>2, <1>6, <1>7 DEF Invalidate
<1>8. CASE ClientDies(c)
  BY <1>2, <1>8 DEF ClientDies
<1> QED
  BY <1>1, <1>3, <1>4, <1>5, <1>7, <1>8

\* The effect of a secret is committed with the claim.
LEMMA SecretSpent ==
    ASSUME SecretInv, NEW c \in Clients, SpendSecret(c)
    PROVE  SecretInv'
<1> DEFINE s == client[c].on
           r == [at |-> "idle", on |-> NoSecret, hit |-> {}]
<1> USE SecretAssumption
<1>0. /\ r \in Client /\ r.at = "idle" /\ r.on = NoSecret /\ r.hit = {}
      /\ s \in OneTime /\ secret[s] = "unused" /\ spent[s] = 0
  BY DEF SpendSecret, SecretInv, SecretTypeOK, SpendingInv, Client
<1>1. /\ client' \in [Clients -> Client] /\ client'[c] = r
      /\ \A d \in Clients \ {c} : client'[d] = client[d]
  BY <1>0, CallsStep DEF SpendSecret
<1> HIDE DEF r
<1>2. /\ secret' = [secret EXCEPT ![s] = "used"]
      /\ spent' = [spent EXCEPT ![s] = @ + 1]
      /\ verified' \in BOOLEAN /\ cooling' = cooling
      /\ \A x \in OneTime : /\ secret'[x] = (IF x = s THEN "used" ELSE secret[x])
                            /\ spent'[x] = (IF x = s THEN 1 ELSE spent[x])
  BY <1>0 DEF SpendSecret, SecretInv, SecretTypeOK
<1>3. SecretTypeOK'
  BY <1>0, <1>1, <1>2 DEF SecretInv, SecretTypeOK
<1>4. \A d \in Clients : client[d].on \in OneTime \cup {NoSecret}
                         /\ client[d].hit \subseteq OneTime
  BY DEF SecretInv, SecretTypeOK, Client
<1>5. SpendingInv'
  <2>1. \A d \in Clients : client'[d].at = "claimed" =>
           /\ d # c /\ client'[d] = client[d] /\ client[d].on \in OneTime \ {s}
    BY <1>0, <1>1, <1>4 DEF SpendSecret, SecretInv, SecretTypeOK, SpendingInv
  <2> QED
    BY <1>0, <1>2, <2>1 DEF SecretInv, SpendingInv
<1>6. Outstanding(Links)' \subseteq Outstanding(Links)
  BY <1>2 DEF Outstanding, OneTime
<1>7. IssuingInv'
  BY <1>0, <1>1, <1>2, <1>4 DEF SecretInv, IssuingInv, OneTime
<1>8. ResendInv' /\ OneLink'
  BY <1>0, <1>1, <1>2, <1>6 DEF SecretInv, ResendInv, Resending, OneLink
<1> QED
  BY <1>3, <1>5, <1>7, <1>8 DEF SecretInv

\* A secret is issued, and those it replaces are used up.
LEMMA SecretIssued ==
    ASSUME SecretInv, NEW c \in Clients, IssueSecret(c)
    PROVE  SecretInv'
<1> DEFINE s == client[c].on
           r == [at |-> "idle", on |-> NoSecret, hit |-> {}]
<1> USE SecretAssumption
<1>0. /\ r \in Client /\ r.at = "idle" /\ r.on = NoSecret /\ r.hit = {}
      /\ s \in Links \cup Resets /\ s \in OneTime /\ secret[s] = "absent"
      /\ s \notin client[c].hit
  BY DEF IssueSecret, SecretInv, IssuingInv, Client, OneTime
<1>1. /\ client' \in [Clients -> Client] /\ client'[c] = r
      /\ \A d \in Clients \ {c} : client'[d] = client[d]
  BY <1>0, CallsStep DEF IssueSecret
<1> HIDE DEF r
<1>2. /\ secret' \in [OneTime -> {"absent", "unused", "used"}]
      /\ UNCHANGED <<spent, verified, cooling>>
      /\ \A x \in OneTime : secret'[x] = (IF x = s THEN "unused"
                                          ELSE IF x \in client[c].hit THEN "used"
                                          ELSE secret[x])
  BY <1>0 DEF IssueSecret, SecretInv, SecretTypeOK
<1>3. SecretTypeOK'
  BY <1>0, <1>1, <1>2 DEF SecretInv, SecretTypeOK
<1>4. SpendingInv'
  <2>1. \A x \in OneTime : spent'[x] <= 1 /\ (spent'[x] > 0 => secret'[x] = "used")
    BY <1>0, <1>2 DEF SecretInv, SpendingInv
  <2>2. \A d \in Clients : client'[d].at = "claimed" =>
           /\ d # c /\ client'[d] = client[d] /\ client[d].on \in OneTime
           /\ client[d].on # s /\ client[d].on \notin client[c].hit
           /\ secret[client[d].on] = "unused"
    BY <1>0, <1>1 DEF IssueSecret, ClaimedElsewhere, SecretInv, SecretTypeOK, SpendingInv, Client
  <2> QED
    BY <1>2, <2>1, <2>2 DEF SecretInv, SpendingInv
<1>5. ASSUME NEW d \in Clients, client'[d].at = "invalidated"
      PROVE  /\ d # c /\ client'[d] = client[d] /\ client[d].at = "invalidated"
             /\ client[d].on # s /\ client[d].on \in OneTime
             /\ client[d].on \notin client[c].hit
             /\ client[d].hit \subseteq OneTime
  <2>1. d # c /\ client'[d] = client[d]
    BY <1>0, <1>1, <1>5
  <2> QED
    BY <1>0, <1>5, <2>1 DEF IssueSecret, SecretInv, SecretTypeOK, IssuingInv, OneTime, Client
<1>6. IssuingInv'
  <2>1. ASSUME NEW d \in Clients, client'[d].at = "invalidated"
        PROVE  secret'[client'[d].on] = "absent" /\ \A x \in client'[d].hit : secret'[x] # "absent"
    BY <1>2, <1>5, <2>1 DEF SecretInv, IssuingInv
  <2> QED
    BY <1>5, <2>1 DEF SecretInv, IssuingInv
<1>7. CASE s \in Links
  <2>1. Outstanding(Links) \subseteq client[c].hit /\ Resending(c)
    BY <1>7 DEF IssueSecret, SecretInv, ResendInv, Resending
  <2>2. Outstanding(Links)' \subseteq {s}
    BY <1>2, <2>1 DEF Outstanding, OneTime
  <2>3. \A d \in Clients : ~Resending(d)'
    BY <1>0, <1>1, <2>1 DEF SecretInv, ResendInv, Resending
  <2>4. ResendInv'
    BY <2>3 DEF ResendInv, Resending
  <2>5. OneLink'
    BY <2>2 DEF OneLink
  <2> QED
    BY <1>3, <1>4, <1>6, <2>4, <2>5 DEF SecretInv
<1>8. CASE s \notin Links
  <2>1. Outstanding(Links)' \subseteq Outstanding(Links)
    BY <1>0, <1>2, <1>8 DEF Outstanding, OneTime
  <2>2. ResendInv' /\ OneLink'
    BY <1>0, <1>1, <1>2, <2>1 DEF SecretInv, ResendInv, Resending, OneLink
  <2> QED
    BY <1>3, <1>4, <1>6, <2>2 DEF SecretInv
<1> QED
  BY <1>7, <1>8

\* EMAIL_RESEND_COOLDOWN_SECONDS pass.
LEMMA KeyExpires ==
    ASSUME SecretInv, CooldownEnds
    PROVE  SecretInv'
<1> USE DEF CooldownEnds, SecretInv
<1>1. SecretTypeOK' /\ OneLink'
  BY DEF SecretTypeOK, OneLink, Outstanding
<1>2. SpendingInv' /\ IssuingInv'
  BY DEF SpendingInv, IssuingInv
<1>3. ResendInv'
  BY DEF ResendInv, Resending
<1> QED
  BY <1>1, <1>2, <1>3

\* SecretInv holds in every reachable state.
LEMMA SecretAlways == SecretSpec => []SecretInv
<1>1. SecretInv /\ SecretNext => SecretInv'
  BY CallsUncommitted, SecretSpent, SecretIssued, KeyExpires DEF SecretNext
<1>2. SecretInv /\ UNCHANGED secretVars => SecretInv'
  BY DEF SecretInv, SecretTypeOK, SpendingInv, IssuingInv, Resending, ResendInv, OneLink,
         Outstanding, secretVars
<1> QED
  BY <1>1, <1>2, SecretInitially, PTL DEF SecretSpec

\* A set whose members are all equal has at most one.
LEMMA AtMostOne ==
    ASSUME NEW S, \A s, t \in S : s = t
    PROVE  Cardinality(S) <= 1
<1>1. CASE S = {}
  BY <1>1, FS_EmptySet
<1>2. CASE S # {}
  <2>1. PICK s \in S : TRUE
    BY <1>2
  <2>2. S = {s}
    BY <2>1
  <2>3. Cardinality({s}) = 1
    BY FS_Singleton
  <2> QED
    BY <2>2, <2>3
<1> QED
  BY <1>1, <1>2

\* AuthTokenRepository: the secrets keep their types.
THEOREM SecretTypeCorrect == SecretSpec => []SecretTypeOK
  BY SecretAlways, PTL DEF SecretInv

\* claim() and mark_used(): a secret is good for one effect, whoever presents it
\* and whatever is reissued meanwhile; and one verification link is outstanding.
THEOREM SecretConsumedOnce == SecretSpec => []ConsumedOnce
<1>1. SecretInv => ConsumedOnce
  BY AtMostOne DEF SecretInv, SpendingInv, OneLink, ConsumedOnce
<1> QED
  BY <1>1, SecretAlways, PTL
=============================================================================
