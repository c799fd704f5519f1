------------------------- MODULE ApiRequestsProofs --------------------------
(***************************************************************************)
(* TenantScoped for any requests, connections and organizations.           *)
(***************************************************************************)
EXTENDS ApiRequests, TLAPS

\* What a request has before its organization is known.
FreshInv ==
    /\ server = NoServer => \A c \in Requests : request[c] = NoRequest
    /\ \A c \in Requests :
          /\ request[c].at = "idle" => request[c] = NoRequest
          /\ request[c].at = "arrived" => request[c].organization = NoOrg
                                          /\ request[c].seen = {}

\* TenantScoped with what makes it inductive: the check of the roles, and that
\* nothing was read before the organization was known.
ScopedInv ==
    /\ ApiTypeOK
    /\ server.environment = "production" => EvaluateRole(server.role)
    /\ FreshInv
    /\ TenantScoped

\* The state before the server starts.
LEMMA ScopedInit == ApiInit => ScopedInv
  BY DEF ApiInit, ScopedInv, ApiTypeOK, FreshInv, TenantScoped, NoServer, NoRequest, Request,
         DatabaseRoles

\* The start and the end of the server process.
LEMMA ScopedServer ==
    ASSUME ScopedInv,
           ServerStops \/ \E e \in {"production", "development"}, a, w \in DatabaseRoles :
                             VerifyRuntimeRoles(e, a, w)
    PROVE  ScopedInv'
<1> USE DEF ScopedInv, ApiTypeOK, FreshInv, TenantScoped, NoServer, NoRequest, Request,
            DatabaseRoles
<1>1. CASE ServerStops
  BY <1>1 DEF ServerStops
<1>2. ASSUME NEW e \in {"production", "development"}, NEW a \in DatabaseRoles,
             NEW w \in DatabaseRoles, VerifyRuntimeRoles(e, a, w)
      PROVE  ScopedInv'
  BY <1>2 DEF VerifyRuntimeRoles, EvaluateRole
<1> QED
  BY <1>1, <1>2, ZenonT(40)

\* One request moves: it takes a connection nobody has, keeps its own or gives
\* it up, and no other request finds its setting changed.
Moves(c, r) ==
    /\ UNCHANGED server /\ server # NoServer
    /\ r \in Request /\ request' = [request EXCEPT ![c] = r]
    /\ setting' \in [Connections -> Organizations \cup {NoOrg}]
    /\ \A d \in Requests \ {c} :
          request[d].connection # NoConnection =>
              /\ request[d].connection # r.connection
              /\ setting'[request[d].connection] = setting[request[d].connection]

\* What the request then is.
Scoped(r) ==
    /\ r.at = "idle" => r = NoRequest
    /\ r.at = "arrived" => r.organization = NoOrg /\ r.seen = {}
    /\ server.environment = "production" /\ ~server.role.escapes =>
          r.seen \subseteq {r.organization}
    /\ r.at = "handling" /\ r.connection # NoConnection =>
          setting'[r.connection] = r.organization

\* Such a step keeps the invariant.
LEMMA ScopedMove ==
    ASSUME ScopedInv, NEW c \in Requests, NEW r, Moves(c, r), Scoped(r)
    PROVE  ScopedInv'
<1> USE DEF ScopedInv, Moves, Scoped
<1>1. /\ request'[c] = r /\ \A d \in Requests \ {c} : request'[d] = request[d]
      /\ request' \in [Requests -> Request] /\ server' = server
  BY DEF ApiTypeOK
<1>2. ApiTypeOK'
  BY <1>1 DEF ApiTypeOK
<1>3. FreshInv'
  BY <1>1 DEF FreshInv
<1>4. TenantScoped'
  <2> SUFFICES ASSUME NEW d \in Requests
               PROVE  /\ server.environment = "production" /\ ~server.role.escapes =>
                            request'[d].seen \subseteq {request'[d].organization}
                      /\ request'[d].at = "handling" /\ request'[d].connection # NoConnection =>
                            setting'[request'[d].connection] = request'[d].organization
    BY <1>1 DEF TenantScoped
  <2>1. CASE d = c
    BY <1>1, <2>1
  <2>2. CASE d # c
    BY <1>1, <2>2 DEF TenantScoped
  <2> QED
    BY <2>1, <2>2
<1> QED
  BY <1>1, <1>2, <1>3, <1>4

\* A request that is not idle has a server, and its connection to itself.
LEMMA OwnConnection ==
    ASSUME ScopedInv, NEW c \in Requests, request[c].at # "idle"
    PROVE  /\ server # NoServer /\ request[c] \in Request
           /\ \A d \in Requests \ {c} : request[d].connection # NoConnection =>
                 request[d].connection # request[c].connection
  BY DEF ScopedInv, ApiTypeOK, FreshInv, NoRequest

\* The setting after a rollback.
LEMMA RollbackSetting ==
    ASSUME ScopedInv, NEW c \in Requests, request[c].at # "idle"
    PROVE  /\ RolledBack(c) \in [Connections -> Organizations \cup {NoOrg}]
           /\ \A d \in Requests \ {c} : request[d].connection # NoConnection =>
                 RolledBack(c)[request[d].connection] = setting[request[d].connection]
  BY OwnConnection DEF ScopedInv, ApiTypeOK, RolledBack, Request

\* Every action of a request is such a step.
LEMMA ScopedRequest ==
    ASSUME ScopedInv, NEW c \in Requests,
           \/ Arrives(c) \/ BeginTransaction(c) \/ Statement(c) \/ Commit(c) \/ RollBack(c)
           \/ Refuse(c) \/ Answer(c) \/ Leaves(c)
           \/ \E o \in Organizations, role \in UserRoles \cup {"visitor"},
                 h \in {"reads", "keeps", "drops"} : ActivateOrg(c, o, role, h)
    PROVE  ScopedInv'
<1>0. /\ request \in [Requests -> Request] /\ request[c] \in Request
      /\ setting \in [Connections -> Organizations \cup {NoOrg}]
  BY DEF ScopedInv, ApiTypeOK
<1> DEFINE q == request[c]
<1>1. CASE Arrives(c)
  <2> DEFINE r == [q EXCEPT !.at = "arrived"]
  <2>1. Moves(c, r)
    BY <1>0, <1>1 DEF Arrives, Moves, Request, ScopedInv, ApiTypeOK,
                        FreshInv, NoRequest
  <2>2. Scoped(r)
    BY <1>0, <1>1 DEF Arrives, Scoped, Request, ScopedInv, TenantScoped, FreshInv,
                        NoRequest
  <2> QED
    BY <2>1, <2>2, ScopedMove
<1>2. CASE Commit(c)
  <2> DEFINE r == [q EXCEPT !.connection = NoConnection, !.changed = FALSE]
  <2>1. Moves(c, r)
    BY <1>0, <1>2, OwnConnection DEF Commit, Moves, Request
  <2>2. Scoped(r)
    BY <1>0, <1>2 DEF Commit, Scoped, Request, ScopedInv, TenantScoped, FreshInv
  <2> QED
    BY <2>1, <2>2, ScopedMove
<1>3. CASE RollBack(c)
  <2> DEFINE r == [q EXCEPT !.connection = NoConnection, !.changed = FALSE]
  <2>1. q.at = "handling" /\ setting' = RolledBack(c) /\ UNCHANGED server
    BY <1>3 DEF RollBack
  <2>2. server # NoServer /\ r \in Request /\ request' = [request EXCEPT ![c] = r]
    BY <1>0, <1>3, <2>1, OwnConnection DEF RollBack, Request
  <2>3. Moves(c, r)
    BY <1>0, <2>1, <2>2, RollbackSetting DEF Moves, Request
  <2>4. Scoped(r)
    BY <1>0, <1>3, <2>1 DEF Scoped, Request, ScopedInv, TenantScoped, FreshInv
  <2> QED
    BY <2>3, <2>4, ScopedMove
<1>4. CASE Refuse(c)
  <2> DEFINE r == NoRequest
  <2>1. Moves(c, r)
    BY <1>0, <1>4, OwnConnection, RollbackSetting DEF Refuse, Moves, Request, NoRequest
  <2>2. Scoped(r)
    BY <1>0, <1>4 DEF Refuse, Scoped, NoRequest
  <2> QED
    BY <2>1, <2>2, ScopedMove
<1>5. CASE Answer(c)
  <2> DEFINE r == [q EXCEPT !.at = "answered", !.connection = NoConnection]
  <2>1. q.at = "handling" /\ setting' = RolledBack(c) /\ UNCHANGED server
    BY <1>5 DEF Answer
  <2>2. server # NoServer /\ r \in Request /\ request' = [request EXCEPT ![c] = r]
    BY <1>0, <1>5, <2>1, OwnConnection DEF Answer, Request
  <2>3. Moves(c, r)
    BY <1>0, <2>1, <2>2, RollbackSetting DEF Moves, Request
  <2>4. Scoped(r)
    BY <1>0, <1>5, <2>1 DEF Scoped, Request, ScopedInv, TenantScoped, FreshInv
  <2> QED
    BY <2>3, <2>4, ScopedMove
<1>6. CASE Leaves(c)
  <2> DEFINE r == NoRequest
  <2>1. Moves(c, r)
    BY <1>0, <1>6, OwnConnection DEF Leaves, Moves, Request, NoRequest
  <2>2. Scoped(r)
    BY <1>0, <1>6 DEF Leaves, Scoped, NoRequest
  <2> QED
    BY <2>1, <2>2, ScopedMove
<1>7. CASE BeginTransaction(c)
  <2>1. PICK k \in Connections : /\ Freed[k]
                               /\ request' = [request EXCEPT ![c].connection = k,
                                                            ![c].before = setting[k]]
                               /\ setting' = [setting EXCEPT ![k] = q.organization]
    BY <1>7 DEF BeginTransaction
  <2> DEFINE r == [q EXCEPT !.connection = k, !.before = setting[k]]
  <2>2. Moves(c, r)
    BY <1>0, <1>7, <2>1, OwnConnection, ZenonT(40) DEF BeginTransaction, Freed, Moves, Request
  <2>3. Scoped(r)
    BY <1>0, <1>7, <2>1 DEF BeginTransaction, Scoped, Request, ScopedInv, TenantScoped, FreshInv
  <2> QED
    BY <2>2, <2>3, ScopedMove
<1>8. CASE Statement(c)
  <2> DEFINE visible == Shown(server.role, setting[q.connection])
             r == [q EXCEPT !.seen = @ \cup visible, !.changed = q.handler # "reads"]
  <2>1. visible \subseteq Organizations /\ request' = [request EXCEPT ![c] = r]
    BY <1>0, <1>8 DEF Statement, Shown, Request
  <2>2. Moves(c, r)
    BY <1>0, <1>8, <2>1, OwnConnection DEF Statement, Moves, Request
  <2>3. server.environment = "production" /\ ~server.role.escapes =>
           visible \subseteq {q.organization}
    BY <1>8 DEF Statement, Shown, EvaluateRole, ScopedInv, TenantScoped
  <2> HIDE DEF visible
  <2>4. Scoped(r)
    BY <1>0, <1>8, <2>3 DEF Statement, Scoped, Request, ScopedInv, TenantScoped
  <2> QED
    BY <2>2, <2>4, ScopedMove
<1>9. ASSUME NEW o \in Organizations, NEW role \in UserRoles \cup {"visitor"},
             NEW h \in {"reads", "keeps", "drops"}, ActivateOrg(c, o, role, h)
      PROVE  ScopedInv'
  <2> DEFINE r == [q EXCEPT !.at = "handling", !.handler = h, !.organization = o]
  <2>1. Moves(c, r)
    BY <1>0, <1>9, OwnConnection DEF ActivateOrg, Moves, Request
  <2>2. Scoped(r)
    BY <1>0, <1>9, ApiAssumption DEF ActivateOrg, Scoped, Request, ScopedInv, FreshInv
  <2> QED
    BY <2>1, <2>2, ScopedMove
<1> QED
  BY <1>1, <1>2, <1>3, <1>4, <1>5, <1>6, <1>7, <1>8, <1>9

\* The invariant holds throughout.
LEMMA ScopedAlways == ApiSpec => []ScopedInv
<1>1. ASSUME ScopedInv, [ApiNext]_apiVars
      PROVE  ScopedInv'
  <2>1. CASE UNCHANGED apiVars
    BY <1>1, <2>1 DEF ScopedInv, ApiTypeOK, FreshInv, TenantScoped, apiVars
  <2> QED
    BY <1>1, <2>1, ScopedServer, ScopedRequest DEF ApiNext
<1> QED
  BY <1>1, ScopedInit, PTL DEF ApiSpec

\* Every variable keeps its type, and no two requests have one connection.
THEOREM ApiTypeCorrect == ApiSpec => []ApiTypeOK
<1>1. ScopedInv => ApiTypeOK
  BY DEF ScopedInv
<1> QED
  BY <1>1, ScopedAlways, PTL

\* _restore_tenant_guc: however its requests commit, roll back and pass
\* connections on, the transactions of each are set to the organization it was
\* activated for; and a server in production whose login the policies do not
\* leave out, which the check at its start does not ask, shows it the rows of
\* that organization and no others.
THEOREM TenantsApart == ApiSpec => []TenantScoped
<1>1. ScopedInv => TenantScoped
  BY DEF ScopedInv
<1> QED
  BY <1>1, ScopedAlways, PTL
=============================================================================
