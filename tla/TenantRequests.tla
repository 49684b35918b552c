--------------------------- MODULE TenantRequests ---------------------------
(***************************************************************************)
(* RlsTenantInterceptor and the PostgreSQL connection pool of the backend. *)
(* A request of a company holds one connection, with a transaction that    *)
(* carries the company id, from before its handler starts until after it   *)
(* ends.  Repositories that extend BaseRepository use that connection;     *)
(* those injected with @InjectRepository, and dataSource.transaction, take *)
(* another one from the pool meanwhile.  The pool (pg, its default size    *)
(* and no timeout, for app.module.ts sets neither) serves waiters in order *)
(* of arrival and is external.                                             *)
(* Statements a handler sends at once are taken one after the other.       *)
(***************************************************************************)
EXTENDS Naturals, Sequences, FiniteSets

CONSTANTS
    Requests, Companies, Connections,
    CompanyOf(_),   \* company of a request, NoCompany without a valid token
    NoCompany, NoConnection,
    MaxQueries,     \* bound: statements of a handler outside its transaction
    MaxFaults       \* bound: connections lost or refused in one behaviour

ASSUME CompanyAssumption ==
    /\ \A r \in Requests : CompanyOf(r) \in Companies \cup {NoCompany}
    /\ NoCompany \notin Companies
    /\ NoConnection \notin Connections
ASSUME BoundsAssumption == MaxQueries \in Nat /\ MaxFaults \in Nat

VARIABLES
    pc,       \* where the request stands
    own,      \* connection of the interceptor's query runner
    other,    \* connection of a statement outside that transaction
    queries,  \* such statements so far
    free,     \* connections in the pool
    line,     \* requests that wait for a connection
    company,  \* app.current_company_id of each connection
    faults

vars == <<pc, own, other, queries, free, line, company, faults>>

Ended == {"answered", "failed", "unanswered"}
Waiting == {"connecting", "waiting"}
Places == {"idle", "opening", "handling", "using", "committing",
           "rollingBack"} \cup Waiting \cup Ended

TypeOK ==
    /\ pc \in [Requests -> Places]
    /\ own \in [Requests -> Connections \cup {NoConnection}]
    /\ other \in [Requests -> Connections \cup {NoConnection}]
    /\ queries \in [Requests -> 0..MaxQueries]
    /\ free \subseteq Connections
    /\ line \in Seq(Requests)
    /\ \A r \in Requests :
          pc[r] \in Waiting <=> \E i \in DOMAIN line : line[i] = r
    /\ company \in [Connections -> Companies \cup {NoCompany}]
    /\ faults \in 0..MaxFaults

Init ==
    /\ pc = [r \in Requests |-> "idle"]
    /\ own = [r \in Requests |-> NoConnection]
    /\ other = [r \in Requests |-> NoConnection]
    /\ queries = [r \in Requests |-> 0]
    /\ free = Connections
    /\ line = <<>>
    /\ company = [c \in Connections |-> NoCompany]
    /\ faults = 0

HasTenant(r) == CompanyOf(r) # NoCompany
GoTo(r, place) == pc' = [pc EXCEPT ![r] = place]
Fault == faults < MaxFaults /\ faults' = faults + 1

\* Where the error of a handler leads: the interceptor's second callback, or
\* straight to the client.
Throw(r) == GoTo(r, IF HasTenant(r) THEN "rollingBack" ELSE "failed")

\* The pool gets the connection back, or a new one in the place of a lost one;
\* SET LOCAL has ended with the transaction or the session.
Release(r) ==
    /\ free' = free \cup {own[r]}
    /\ company' = [company EXCEPT ![own[r]] = NoCompany]
    /\ own' = [own EXCEPT ![r] = NoConnection]

-----------------------------------------------------------------------------
(* The pool *)

Join(r, place) == line' = Append(line, r) /\ GoTo(r, place)

Grant ==
    /\ line # <<>>
    /\ line' = Tail(line)
    /\ \E c \in free :
          /\ free' = free \ {c}
          /\ LET r == Head(line)
             IN \/ /\ pc[r] = "connecting" /\ GoTo(r, "opening")
                   /\ own' = [own EXCEPT ![r] = c] /\ UNCHANGED other
                \/ /\ pc[r] = "waiting" /\ GoTo(r, "using")
                   /\ other' = [other EXCEPT ![r] = c] /\ UNCHANGED own
    /\ UNCHANGED <<queries, company, faults>>

\* The database refuses the connection: connect() or the statement rejects.
Refuse ==
    /\ line # <<>> /\ free # {}
    /\ Fault
    /\ line' = Tail(line)
    /\ LET r == Head(line)
       IN \/ pc[r] = "connecting" /\ GoTo(r, "failed")
          \/ pc[r] = "waiting" /\ Throw(r)
    /\ UNCHANGED <<own, other, queries, free, company>>

-----------------------------------------------------------------------------
(* intercept *)

Arrive(r) ==
    /\ pc[r] = "idle"
    /\ \/ HasTenant(r) /\ Join(r, "connecting")
       \/ ~HasTenant(r) /\ GoTo(r, "handling") /\ UNCHANGED line
    /\ UNCHANGED <<own, other, queries, free, company, faults>>

\* startTransaction and SET LOCAL; an error of either rolls back.
Open(r) ==
    /\ pc[r] = "opening"
    /\ \/ /\ company' = [company EXCEPT ![own[r]] = CompanyOf(r)]
          /\ GoTo(r, "handling") /\ UNCHANGED faults
       \/ Fault /\ GoTo(r, "rollingBack") /\ UNCHANGED company
    /\ UNCHANGED <<own, other, queries, free, line>>

\* A statement of an injected repository, whatever the request already holds.
Query(r) ==
    /\ pc[r] = "handling" /\ queries[r] < MaxQueries
    /\ queries' = [queries EXCEPT ![r] = @ + 1]
    /\ Join(r, "waiting")
    /\ UNCHANGED <<own, other, free, company, faults>>

\* Mutant of QueryEnds: the connection is not given back.
QueryKeepsConnection(r) ==
    /\ pc[r] = "using"
    /\ GoTo(r, "handling")
    /\ UNCHANGED <<own, other, free, queries, line, company, faults>>

QueryEnds(r) ==
    /\ pc[r] = "using"
    /\ GoTo(r, "handling")
    /\ free' = free \cup {other[r]}
    /\ other' = [other EXCEPT ![r] = NoConnection]
    /\ UNCHANGED <<own, queries, line, company, faults>>

HandlerEnds(r) ==
    /\ pc[r] = "handling"
    /\ \/ GoTo(r, IF HasTenant(r) THEN "committing" ELSE "answered")
       \/ Throw(r)
    /\ UNCHANGED <<own, other, queries, free, line, company, faults>>

\* Mutant of Commit: the company was set for the session (SET, not SET LOCAL).
CommitKeepsCompany(r) ==
    /\ pc[r] = "committing"
    /\ GoTo(r, "answered")
    /\ free' = free \cup {own[r]}
    /\ own' = [own EXCEPT ![r] = NoConnection]
    /\ UNCHANGED <<other, queries, line, company, faults>>

Commit(r) ==
    /\ pc[r] = "committing"
    /\ GoTo(r, "answered")
    /\ Release(r)
    /\ UNCHANGED <<other, queries, line, faults>>

\* Nothing catches what a failing commit throws out of the first callback: it is
\* an unhandled rejection, which ends the process and all its requests.
CommitFails(r) ==
    /\ pc[r] = "committing"
    /\ Fault
    /\ pc' = [q \in Requests |-> IF pc[q] \in Ended \cup {"idle"} THEN pc[q]
                                 ELSE "unanswered"]
    /\ own' = [q \in Requests |-> NoConnection]
    /\ other' = [q \in Requests |-> NoConnection]
    /\ company' = [c \in Connections |-> NoCompany]
    /\ free' = Connections /\ line' = <<>>
    /\ UNCHANGED queries

\* The error of a rollback is dropped, and the connection released either way.
RollBack(r) ==
    /\ pc[r] = "rollingBack"
    /\ GoTo(r, "failed")
    /\ Release(r)
    /\ UNCHANGED <<other, queries, line, faults>>

-----------------------------------------------------------------------------

Step(r) == Open(r) \/ QueryEnds(r) \/ HandlerEnds(r) \/ Commit(r)
           \/ CommitFails(r) \/ RollBack(r)

Next ==
    \/ \E r \in Requests : Arrive(r) \/ Query(r) \/ Step(r)
    \/ Grant \/ Refuse

Spec == Init /\ [][Next]_vars

\* Statements end, handlers return, and the pool serves who waits if it can.
Fairness ==
    /\ \A r \in Requests : WF_vars(Step(r) \/ Query(r))
    /\ WF_vars(Grant)

FairSpec == Spec /\ Fairness

-----------------------------------------------------------------------------
(* Properties *)

Holders(c) == {r \in Requests : own[r] = c} \cup {r \in Requests : other[r] = c}

\* A connection is in the pool or with one request, on every path of the
\* interceptor, and a request that is over holds none: nothing leaks.
ConnectionsAccounted ==
    /\ \A c \in Connections :
          IF c \in free THEN Holders(c) = {} ELSE Cardinality(Holders(c)) = 1
    /\ \A r \in Requests :
          /\ pc[r] \in Ended => own[r] = NoConnection /\ other[r] = NoConnection
          /\ own[r] = other[r] => own[r] = NoConnection

\* The handler of a company's request runs with its company set, and no
\* connection that is in the pool, or serves a statement outside the
\* transaction, still carries the company of an earlier request.
CompanyIsOwn ==
    /\ \A r \in Requests :
          /\ pc[r] \in {"handling", "using", "waiting"} /\ HasTenant(r)
          => company[own[r]] = CompanyOf(r)
    /\ \A c \in Connections :
          company[c] # NoCompany => \E r \in Requests : own[r] = c

\* A connection belongs to one request at a time, and so does its company.
ConnectionsHold == TypeOK /\ ConnectionsAccounted /\ CompanyIsOwn

\* Everyone waits for everyone: interceptors hold every connection and every
\* one of their handlers waits for another.
Exhausted ==
    \A c \in Connections :
        \E r \in Requests : own[r] = c /\ pc[r] = "waiting"

\* A request that waits for a connection is answered at last, or lost with the
\* process, unless the pool is exhausted for ever: queueing, refusals and other
\* requests' errors starve nobody.
RequestsAnswered ==
    \A r \in Requests :
        pc[r] \in Waiting ~> pc[r] \in Ended \/ []Exhausted
=============================================================================
