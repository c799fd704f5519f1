----------------------------- MODULE ApiRequests -----------------------------
(***************************************************************************)
(* Requests of the API over the connection pool.  A request takes a        *)
(* connection when its session begins a transaction and returns it at      *)
(* COMMIT or ROLLBACK, so that one request may use several and a           *)
(* connection serves requests of different organizations in turn.  The     *)
(* policies of row level security read the organization from a setting of  *)
(* the database session, which outlives COMMIT and which ROLLBACK puts     *)
(* back to what it was when the transaction began.                         *)
(***************************************************************************)
EXTENDS ApiRoutes

CONSTANTS Requests, Connections, Organizations, NoConnection, NoOrg

ASSUME ApiAssumption == NoConnection \notin Connections /\ NoOrg \notin Organizations

VARIABLES server, setting, request

apiVars == <<server, setting, request>>

\* The login roles of a cluster, for the API or for the workers: member of the
\* group for it, agencyos_app or agencyos_worker, and whether the policies leave
\* the role out, because it owns the tables, where row level security is not
\* forced, or has BYPASSRLS.  A superuser is of every group and is left out.
DatabaseRoles == {r \in [super : BOOLEAN, member : BOOLEAN, escapes : BOOLEAN] :
                      r.super => r.member /\ r.escapes}

Request ==
    [at : {"idle", "arrived", "handling", "answered"},
     handler : {"none", "reads", "keeps", "drops"},
     organization : Organizations \cup {NoOrg},
     connection : Connections \cup {NoConnection},
     before : Organizations \cup {NoOrg},
     changed : BOOLEAN,
     seen : SUBSET Organizations]

NoRequest == [at |-> "idle", handler |-> "none", organization |-> NoOrg,
              connection |-> NoConnection, before |-> NoOrg, changed |-> FALSE, seen |-> {}]

NoServer == [environment |-> "none"]

ApiTypeOK ==
    /\ server \in [environment : {"production", "development"}, role : DatabaseRoles]
                  \cup {NoServer}
    /\ setting \in [Connections -> Organizations \cup {NoOrg}]
    /\ request \in [Requests -> Request]
    /\ \A c, d \in Requests :
          request[c].connection = request[d].connection =>
              c = d \/ request[c].connection = NoConnection

ApiInit ==
    /\ server = NoServer
    /\ setting = [k \in Connections |-> NoOrg]
    /\ request = [c \in Requests |-> NoRequest]

-----------------------------------------------------------------------------
\* evaluate_role finds no problem.  It does not ask who owns the tables, nor
\* for BYPASSRLS, which the workers' role has by design.
EvaluateRole(role) == ~role.super /\ role.member

\* verify_runtime_database_roles refuses to start in production under a
\* superuser or outside the group; elsewhere any role will do.
VerifyRuntimeRoles(environment, apiRole, workerRole) ==
    /\ server = NoServer
    /\ environment = "production" => EvaluateRole(apiRole) /\ EvaluateRole(workerRole)
    /\ server' = [environment |-> environment, role |-> apiRole]
    /\ UNCHANGED <<setting, request>>

\* The process ends: its requests are lost and its connections are closed.
ServerStops ==
    /\ server # NoServer
    /\ server' = NoServer
    /\ setting' = [k \in Connections |-> NoOrg]
    /\ request' = [c \in Requests |-> NoRequest]

-----------------------------------------------------------------------------
Freed == [k \in Connections |-> \A c \in Requests : request[c].connection # k]

Arrives(c) ==
    /\ server # NoServer /\ request[c].at = "idle"
    /\ request' = [request EXCEPT ![c].at = "arrived"]
    /\ UNCHANGED <<server, setting>>

BeginTransaction_NoListener(c) ==
    /\ request[c].at \in {"arrived", "handling"} /\ request[c].connection = NoConnection
    /\ \E k \in Connections :
          /\ Freed[k]
          /\ request' = [request EXCEPT ![c].connection = k, ![c].before = setting[k]]
    /\ UNCHANGED <<server, setting>>

\* The session's first statement takes a connection; the begin listener
\* _restore_tenant_guc sets the organization of the request's task on it, or
\* none.
BeginTransaction(c) ==
    /\ request[c].at \in {"arrived", "handling"} /\ request[c].connection = NoConnection
    /\ \E k \in Connections :
          /\ Freed[k]
          /\ request' = [request EXCEPT ![c].connection = k, ![c].before = setting[k]]
          /\ setting' = [setting EXCEPT ![k] = request[c].organization]
    /\ UNCHANGED server

\* What a request keeps of its route.
Serves(route) ==
    IF ~route.writes THEN "reads" ELSE IF route.commits THEN "keeps" ELSE "drops"

\* What a user with a role may ask for, and a visitor without an account.
OpenTo == [role \in UserRoles \cup {"visitor"} |->
    {Serves(r) : r \in {r \in Routes : HasPermission(role, r.needs)}}]

\* activate_org, for a user by get_current_user and require_permission: the row
\* is found by a lookup that bypasses the policies, and its role is one the
\* route is open to; for a visitor by the handler, which knows the organization
\* from the slug of a webhook, an invite, or the owner of a token.  The
\* organization becomes that of the task, for the next transactions, and that of
\* this one.
ActivateOrg(c, organization, role, handler) ==
    /\ request[c].at = "arrived" /\ request[c].connection # NoConnection
    /\ handler \in OpenTo[role]
    /\ request' = [request EXCEPT ![c].at = "handling", ![c].handler = handler,
                                  ![c].organization = organization]
    /\ setting' = [setting EXCEPT ![request[c].connection] = organization]
    /\ UNCHANGED server

\* The rows a role is shown under a setting: every row, those the policies of
\* agencyos_app permit, or none, since no policy is for anybody else.
Shown(role, organization) ==
    IF role.escapes THEN Organizations
    ELSE IF role.member THEN {organization} \ {NoOrg} ELSE {}

\* A statement of the handler reads the rows of the organization the
\* transaction is set to, as far as its role is shown them.
Statement(c) ==
    /\ request[c].at = "handling" /\ request[c].connection # NoConnection
    /\ request' = [request EXCEPT
          ![c].seen = @ \cup Shown(server.role, setting[request[c].connection]),
          ![c].changed = request[c].handler # "reads"]
    /\ UNCHANGED <<server, setting>>

\* commit_with_retry by a service that owns the transaction; the connection
\* goes back to the pool with its setting.
Commit(c) ==
    /\ request[c].at = "handling" /\ request[c].changed /\ request[c].handler = "keeps"
    /\ request' = [request EXCEPT ![c].connection = NoConnection, ![c].changed = FALSE]
    /\ UNCHANGED <<server, setting>>

\* The setting of the connection of c after a rollback.
RolledBack(c) ==
    IF request[c].connection = NoConnection THEN setting
    ELSE [setting EXCEPT ![request[c].connection] = request[c].before]

\* An error of the dependencies, the handler or the commit: get_db closes the
\* session.
Refuse(c) ==
    /\ request[c].at \in {"arrived", "handling"}
    /\ setting' = RolledBack(c)
    /\ request' = [request EXCEPT ![c] = NoRequest]
    /\ UNCHANGED server

\* A service rolls back after an integrity error and goes on.
RollBack(c) ==
    /\ request[c].at = "handling" /\ request[c].connection # NoConnection
    /\ setting' = RolledBack(c)
    /\ request' = [request EXCEPT ![c].connection = NoConnection, ![c].changed = FALSE]
    /\ UNCHANGED server

\* The handler returns, and get_db closes the session: what was not committed
\* is undone.
Answer(c) ==
    /\ request[c].at = "handling" /\ (request[c].handler = "keeps" => ~request[c].changed)
    /\ setting' = RolledBack(c)
    /\ request' = [request EXCEPT ![c].at = "answered", ![c].connection = NoConnection]
    /\ UNCHANGED server

Leaves(c) ==
    /\ request[c].at = "answered"
    /\ request' = [request EXCEPT ![c] = NoRequest]
    /\ UNCHANGED <<server, setting>>

ApiNext ==
    \/ \E environment \in {"production", "development"}, a, w \in DatabaseRoles :
          VerifyRuntimeRoles(environment, a, w)
    \/ ServerStops
    \/ \E c \in Requests :
          \/ Arrives(c) \/ BeginTransaction(c) \/ Statement(c) \/ Commit(c) \/ RollBack(c)
          \/ Refuse(c) \/ Answer(c) \/ Leaves(c)
          \/ \E organization \in Organizations, role \in UserRoles \cup {"visitor"},
                handler \in {"reads", "keeps", "drops"} :
                ActivateOrg(c, organization, role, handler)

ApiSpec == ApiInit /\ [][ApiNext]_apiVars

-----------------------------------------------------------------------------
\* "a pooled connection can never carry one request's organization into another
\* request's transaction, even after a mid-request COMMIT"
\* (core/tenant_context.py): the transactions of a request are set to the
\* organization that was activated for it, however often its service commits or
\* rolls back and whoever has had its connection; and so, in production under a
\* login that neither owns the tables nor has BYPASSRLS, as the deployment must
\* provide it (docs/security.md), its statements read the rows of that
\* organization and of no other.
TenantScoped ==
    \A c \in Requests :
        /\ server.environment = "production" /\ ~server.role.escapes =>
              request[c].seen \subseteq {request[c].organization}
        /\ request[c].at = "handling" /\ request[c].connection # NoConnection =>
              setting[request[c].connection] = request[c].organization

\* "Services orchestrate repositories and own the transaction boundary"
\* (services/base.py): when a request has been answered, what its handler
\* changed has been committed.
AnsweredIsKept ==
    \A c \in Requests : request[c].at = "answered" => ~request[c].changed
=============================================================================
