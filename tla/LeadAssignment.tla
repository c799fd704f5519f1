--------------------------- MODULE LeadAssignment ---------------------------
(***************************************************************************)
(* Who owns the leads of an organization: AssignmentService, its rule and  *)
(* its log, beside LeadService.update(), which may set the owner too.      *)
(***************************************************************************)
EXTENDS Integers, FiniteSets, FiniteSetsExt

CONSTANTS
    Deals,          \* leads
    SalesUsers,     \* users in a sales role, ordered by their id
    NoOwner,
    Assigners       \* requests that apply the rule

ASSUME AssignAssumption ==
    /\ SalesUsers \subseteq Nat /\ NoOwner \notin SalesUsers
    /\ IsFiniteSet(SalesUsers) /\ IsFiniteSet(Deals)

VARIABLES
    ownerOf,        \* ownerOf[d]: the committed owner of a lead
    known,          \* leads that have been created
    rule,           \* the organization's rule
    activeUsers,
    assigner,       \* assigner[a]: what the request is about to commit
    share           \* share[u]: how many leads more than the least served u got
                    \* from the rule, since the candidates were last others

assignVars == <<ownerOf, known, rule, activeUsers, assigner, share>>

Owners == SalesUsers \cup {NoOwner}
AssignRule == [on : BOOLEAN, targets : SUBSET SalesUsers,
               cursor : -1..(Cardinality(SalesUsers) - 1)]
NoAssign == [give |-> [d \in {} |-> NoOwner], cursor |-> -1, among |-> {}]

Gifts == UNION {[S -> SalesUsers] : S \in SUBSET Deals}

AssignTypeOK ==
    /\ ownerOf \in [Deals -> Owners] /\ known \subseteq Deals
    /\ rule \in AssignRule /\ activeUsers \subseteq SalesUsers
    /\ assigner \in [Assigners -> [give : Gifts, cursor : -1..(Cardinality(SalesUsers) - 1),
                                 among : SUBSET SalesUsers]]
    /\ share \in [SalesUsers -> Nat]

AssignInit ==
    /\ ownerOf = [d \in Deals |-> NoOwner] /\ known = {}
    /\ rule = [on |-> FALSE, targets |-> {}, cursor |-> -1]
    /\ activeUsers = SalesUsers
    /\ assigner = [a \in Assigners |-> NoAssign]
    /\ share = [u \in SalesUsers |-> 0]

\* _candidates(): list_assignable() in the order of the ids; no targets are all
CandidatesOf(r, users) == {u \in users : r.targets = {} \/ u \in r.targets}
Candidates == CandidatesOf(rule, activeUsers)
NthCandidate(i) == CHOOSE u \in Candidates : Cardinality({v \in Candidates : v < u}) = i

\* _next_from_candidates()
NextIndex(last) == (last + 1) % Cardinality(Candidates)

NewShares(r, users) ==
    share' = IF CandidatesOf(r, users) = Candidates THEN share
             ELSE [u \in SalesUsers |-> 0]

-----------------------------------------------------------------------------
\* upsert_rule(): targets must be assignable; the cursor is kept
UpsertRule(on, targets) ==
    /\ targets \subseteq activeUsers
    /\ rule' = [rule EXCEPT !.on = on, !.targets = targets]
    /\ NewShares(rule', activeUsers)
    /\ UNCHANGED <<ownerOf, known, activeUsers, assigner>>

Deactivate(u) ==
    /\ u \in activeUsers
    /\ activeUsers' = activeUsers \ {u}
    /\ NewShares(rule, activeUsers')
    /\ UNCHANGED <<ownerOf, known, rule, assigner>>

\* LeadService.create() with an owner, and update() with one or with null;
\* assign() changes the lead in a session that nobody commits
SetOwner(d, u) ==
    /\ d \in known \/ u # NoOwner
    /\ known' = known \cup {d}
    /\ ownerOf' = [ownerOf EXCEPT ![d] = u]
    /\ UNCHANGED <<rule, activeUsers, assigner, share>>

\* auto_assign() of a lead that is being created
AutoAssign(a, d) ==
    /\ assigner[a] = NoAssign /\ d \notin known
    /\ rule.on /\ Candidates # {}
    /\ LET i == NextIndex(rule.cursor)
       IN  assigner' = [assigner EXCEPT ![a] = [give |-> [x \in {d} |-> NthCandidate(i)],
                                                cursor |-> i, among |-> Candidates]]
    /\ UNCHANGED <<ownerOf, known, rule, activeUsers, share>>

\* a manual strategy, a disabled rule, or nobody to give it to
CreateUnassigned(d) ==
    /\ d \notin known /\ (~rule.on \/ Candidates = {})
    /\ known' = known \cup {d}
    /\ UNCHANGED <<ownerOf, rule, activeUsers, assigner, share>>

\* assign_unassigned(): all leads without an owner, oldest first
Sweep(a) ==
    LET S == {d \in known : ownerOf[d] = NoOwner}
    IN  /\ assigner[a] = NoAssign
        /\ rule.on /\ Candidates # {} /\ S # {}
        /\ \E rank \in [S -> 1..Cardinality(S)] :
              /\ \A d, e \in S : rank[d] = rank[e] => d = e
              /\ LET At(n) == (rule.cursor + n) % Cardinality(Candidates)
                 IN  assigner' = [assigner EXCEPT ![a] =
                        [give |-> [d \in S |-> NthCandidate(At(rank[d]))],
                         cursor |-> At(Cardinality(S)), among |-> Candidates]]
        /\ UNCHANGED <<ownerOf, known, rule, activeUsers, share>>

\* what everybody has got, with the gifts of a
NewShare(a) ==
    LET got == [u \in SalesUsers |->
                   share[u] + Cardinality({d \in DOMAIN assigner[a].give : assigner[a].give[d] = u})]
        least == Min({got[u] : u \in Candidates})
    IN  IF assigner[a].among # Candidates THEN [u \in SalesUsers |-> 0]
        ELSE [u \in SalesUsers |-> IF u \in Candidates THEN got[u] - least ELSE 0]

Give(a) ==
    /\ assigner[a] # NoAssign
    /\ known' = known \cup DOMAIN assigner[a].give
    /\ ownerOf' = [d \in Deals |-> IF d \in DOMAIN assigner[a].give
                                   THEN assigner[a].give[d] ELSE ownerOf[d]]
    /\ share' = NewShare(a)
    /\ assigner' = [assigner EXCEPT ![a] = NoAssign]

CommitAssign_CursorLost(a) == Give(a) /\ UNCHANGED <<rule, activeUsers>>

\* the commit of either; both have read the rule and the leads before
CommitAssign(a) ==
    /\ Give(a)
    /\ rule' = [rule EXCEPT !.cursor = assigner[a].cursor]
    /\ UNCHANGED activeUsers

AssignDies(a) ==
    /\ assigner[a] # NoAssign
    /\ assigner' = [assigner EXCEPT ![a] = NoAssign]
    /\ UNCHANGED <<ownerOf, known, rule, activeUsers, share>>

AssignNext ==
    \/ \E on \in BOOLEAN, targets \in SUBSET SalesUsers : UpsertRule(on, targets)
    \/ \E u \in SalesUsers : Deactivate(u)
    \/ \E d \in Deals, u \in Owners : SetOwner(d, u)
    \/ \E d \in Deals : CreateUnassigned(d)
    \/ \E a \in Assigners : Sweep(a) \/ CommitAssign(a) \/ AssignDies(a)
                            \/ \E d \in Deals : AutoAssign(a, d)
AssignSpec == AssignInit /\ [][AssignNext]_assignVars

-----------------------------------------------------------------------------
\* "distribute new/unassigned leads evenly across assignable users": while the
\* candidates stay the same and no two requests apply the rule at a time,
\* nobody is two leads ahead, whatever is assigned by hand in between.
EvenShares == \A u, v \in Candidates : share[u] - share[v] <= 1
=============================================================================
