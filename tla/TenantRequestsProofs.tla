------------------------- MODULE TenantRequestsProofs -------------------------
(***************************************************************************)
(* Connections and companies of requests, for any number of requests,      *)
(* companies, connections, statements and faults.                          *)
(***************************************************************************)
EXTENDS TenantRequests, SequenceTheorems, FiniteSetTheorems, TLAPS

Inside == {"handling", "using", "waiting"}
Alone == {"opening", "committing", "rollingBack"}

(* Types, without what TypeOK says of the line. *)
Typed ==
    /\ pc \in [Requests -> Places]
    /\ own \in [Requests -> Connections \cup {NoConnection}]
    /\ other \in [Requests -> Connections \cup {NoConnection}]
    /\ queries \in [Requests -> 0..MaxQueries]
    /\ free \subseteq Connections
    /\ company \in [Connections -> Companies \cup {NoCompany}]
    /\ faults \in 0..MaxFaults

(* The line holds who waits, each request once. *)
InLine(l, r) == \E i \in DOMAIN l : l[i] = r
LineOnce(l) == \A i, j \in DOMAIN l : l[i] = l[j] => i = j
LineHolds ==
    /\ line \in Seq(Requests)
    /\ LineOnce(line)
    /\ \A r \in Requests : pc[r] \in Waiting <=> InLine(line, r)

(* What a request holds follows from where it stands. *)
HoldsAtPlace ==
    \A r \in Requests :
        /\ pc[r] \in Alone \cup {"connecting"} => HasTenant(r)
        /\ own[r] # NoConnection <=> pc[r] \in Alone \/ (pc[r] \in Inside /\ HasTenant(r))
        /\ other[r] # NoConnection <=> pc[r] = "using"

(* A connection that is held is not in the pool, and is held once. *)
HeldOnce ==
    /\ \A r \in Requests : own[r] \notin free /\ other[r] \notin free
    /\ \A r, q \in Requests :
          /\ own[r] # NoConnection /\ own[r] = own[q] => r = q
          /\ other[r] # NoConnection /\ other[r] = other[q] => r = q
          /\ own[r] # NoConnection => own[r] # other[q]

(* None is lost. *)
NoneLost == \A c \in Connections \ free : \E r \in Requests : own[r] = c \/ other[r] = c

TenantInv == Typed /\ LineHolds /\ HoldsAtPlace /\ HeldOnce /\ NoneLost /\ CompanyIsOwn

-------------------------------------------------------------------------------
(* The line after somebody joined it, and after its head was served. *)
LEMMA Joined ==
  ASSUME NEW l \in Seq(Requests), LineOnce(l), NEW r \in Requests, ~InLine(l, r)
  PROVE  /\ Append(l, r) \in Seq(Requests)
         /\ LineOnce(Append(l, r))
         /\ \A q \in Requests : InLine(Append(l, r), q) <=> InLine(l, q) \/ q = r
<1>1. /\ Append(l, r) \in Seq(Requests)
      /\ Len(Append(l, r)) = Len(l) + 1
      /\ \A i \in 1..Len(l) : Append(l, r)[i] = l[i]
      /\ Append(l, r)[Len(l) + 1] = r
  BY AppendProperties
<1>2. Len(l) \in Nat /\ DOMAIN l = 1..Len(l) /\ DOMAIN Append(l, r) = 1..(Len(l) + 1)
  BY <1>1, LenProperties
<1> QED
  BY <1>1, <1>2 DEF LineOnce, InLine

LEMMA Served ==
  ASSUME NEW l \in Seq(Requests), LineOnce(l), l # <<>>
  PROVE  /\ Head(l) \in Requests /\ InLine(l, Head(l))
         /\ Tail(l) \in Seq(Requests)
         /\ LineOnce(Tail(l))
         /\ \A q \in Requests : InLine(Tail(l), q) <=> InLine(l, q) /\ q # Head(l)
<1>1. /\ Head(l) \in Requests /\ Tail(l) \in Seq(Requests)
      /\ Len(Tail(l)) = Len(l) - 1
      /\ \A i \in 1..Len(Tail(l)) : Tail(l)[i] = l[i + 1]
  BY HeadTailProperties
<1>2. /\ Len(l) \in Nat \ {0} /\ DOMAIN l = 1..Len(l)
      /\ DOMAIN Tail(l) = 1..(Len(l) - 1)
  BY <1>1, LenProperties, EmptySeq
<1>3. Head(l) = l[1]
  OBVIOUS
<1>4. ASSUME NEW q \in Requests
      PROVE  InLine(Tail(l), q) <=> InLine(l, q) /\ q # Head(l)
  <2>1. ASSUME InLine(Tail(l), q) PROVE InLine(l, q) /\ q # Head(l)
    <3>1. PICK i \in 1..(Len(l) - 1) : Tail(l)[i] = q
      BY <2>1, <1>2 DEF InLine
    <3>2. i + 1 \in DOMAIN l /\ l[i + 1] = q /\ 1 \in DOMAIN l /\ i + 1 # 1
      BY <3>1, <1>1, <1>2
    <3> QED
      BY <3>2, <1>3 DEF InLine, LineOnce
  <2>2. ASSUME InLine(l, q), q # Head(l) PROVE InLine(Tail(l), q)
    <3>1. PICK i \in 1..Len(l) : l[i] = q
      BY <2>2, <1>2 DEF InLine
    <3>2. i # 1
      BY <3>1, <2>2, <1>3
    <3>3. i - 1 \in 1..(Len(l) - 1) /\ (i - 1) + 1 = i
      BY <3>2, <1>2
    <3>4. Tail(l)[i - 1] = q
      BY <3>1, <3>3, <1>1
    <3> QED
      BY <3>3, <3>4, <1>2 DEF InLine
  <2> QED
    BY <2>1, <2>2
<1>5. LineOnce(Tail(l))
  <2> SUFFICES ASSUME NEW i \in 1..(Len(l) - 1), NEW j \in 1..(Len(l) - 1),
                      Tail(l)[i] = Tail(l)[j]
               PROVE  i = j
    BY <1>2 DEF LineOnce
  <2>1. i + 1 \in DOMAIN l /\ j + 1 \in DOMAIN l /\ l[i + 1] = l[j + 1]
    BY <1>1, <1>2
  <2> QED
    BY <2>1 DEF LineOnce
<1> QED
  BY <1>1, <1>2, <1>3, <1>4, <1>5 DEF InLine

-------------------------------------------------------------------------------
LEMMA InitTenant == Init => TenantInv
<1> SUFFICES ASSUME Init PROVE TenantInv
  OBVIOUS
<1> USE CompanyAssumption, BoundsAssumption DEF Init
<1>1. Typed
  BY DEF Typed, Places
<1>2. LineHolds
  BY EmptySeq DEF LineHolds, LineOnce, InLine, Waiting
<1>3. HoldsAtPlace /\ HeldOnce /\ NoneLost /\ CompanyIsOwn
  BY DEF HoldsAtPlace, HeldOnce, NoneLost, CompanyIsOwn, Alone, Inside
<1> QED
  BY <1>1, <1>2, <1>3 DEF TenantInv

(* A request that moves between places where nobody waits leaves the line as *)
(* it is.                                                                    *)
LEMMA LineStays ==
  ASSUME Typed, LineHolds, NEW r \in Requests, NEW place,
         pc[r] \notin Waiting, place \notin Waiting, GoTo(r, place), UNCHANGED line
  PROVE  LineHolds'
BY DEF Typed, LineHolds, GoTo

(* Joining the line, for a request that stands elsewhere. *)
LEMMA LineJoined ==
  ASSUME Typed, LineHolds, NEW r \in Requests, NEW place \in Waiting,
         pc[r] \notin Waiting, Join(r, place)
  PROVE  LineHolds'
<1>1. ~InLine(line, r)
  BY DEF LineHolds
<1>2. /\ line' \in Seq(Requests) /\ LineOnce(line')
      /\ \A q \in Requests : InLine(line', q) <=> InLine(line, q) \/ q = r
  BY <1>1, Joined DEF LineHolds, Join
<1>3. \A q \in Requests : pc'[q] = IF q = r THEN place ELSE pc[q]
  BY DEF Typed, Join, GoTo
<1> QED
  BY <1>2, <1>3 DEF LineHolds

(* The head of the line goes where nobody waits. *)
LEMMA LineServed ==
  ASSUME Typed, LineHolds, line # <<>>, line' = Tail(line), NEW place,
         place \notin Waiting, GoTo(Head(line), place)
  PROVE  LineHolds'
<1>1. /\ Head(line) \in Requests
      /\ line' \in Seq(Requests) /\ LineOnce(line')
      /\ \A q \in Requests : InLine(line', q) <=> InLine(line, q) /\ q # Head(line)
  BY Served DEF LineHolds
<1>2. \A q \in Requests : pc'[q] = IF q = Head(line) THEN place ELSE pc[q]
  BY <1>1 DEF Typed, GoTo
<1> QED
  BY <1>1, <1>2 DEF LineHolds

LEMMA HeadWaits ==
  ASSUME LineHolds, line # <<>>
  PROVE  Head(line) \in Requests /\ pc[Head(line)] \in Waiting
BY Served DEF LineHolds

-------------------------------------------------------------------------------
(* One lemma for the pool and one for the interceptor. *)
LEMMA PoolStep == TenantInv /\ (Grant \/ Refuse) => TenantInv'
<1> SUFFICES ASSUME TenantInv, Grant \/ Refuse PROVE TenantInv'
  OBVIOUS
<1> DEFINE r == Head(line)
<1>0. line # <<>> /\ r \in Requests /\ pc[r] \in Waiting
  BY HeadWaits DEF TenantInv, Grant, Refuse
<1> HIDE DEF r
<1> USE CompanyAssumption, BoundsAssumption DEF TenantInv, Typed, Waiting
<1>1. CASE Grant
  <2>1. PICK c \in free :
          /\ free' = free \ {c}
          /\ \/ /\ pc[r] = "connecting" /\ GoTo(r, "opening")
                /\ own' = [own EXCEPT ![r] = c] /\ UNCHANGED other
             \/ /\ pc[r] = "waiting" /\ GoTo(r, "using")
                /\ other' = [other EXCEPT ![r] = c] /\ UNCHANGED own
    BY <1>1 DEF Grant, r
  <2>2. LineHolds'
    BY <1>0, <1>1, <2>1, LineServed DEF Grant, r
  <2>3. UNCHANGED <<queries, company, faults>> /\ c \in Connections /\ c # NoConnection
    BY <1>1, <2>1 DEF Grant
  <2>4. Typed'
    BY <1>0, <2>1, <2>3 DEF GoTo, Places
  <2>5. HoldsAtPlace'
    BY <1>0, <2>1, <2>3 DEF HoldsAtPlace, GoTo, Alone, Inside
  <2>6. own[r] = NoConnection \/ own[r] # c
    BY <1>0, <2>1 DEF HeldOnce
  <2>7. /\ \A q \in Requests : own[q] # c /\ other[q] # c
        /\ pc[r] = "connecting" => own[r] = NoConnection
        /\ pc[r] = "waiting" => other[r] = NoConnection
    BY <1>0, <2>1 DEF HeldOnce, HoldsAtPlace, Alone, Inside
  <2>8. HeldOnce'
    <3>1. \/ \A q \in Requests : own'[q] = (IF q = r THEN c ELSE own[q]) /\ other'[q] = other[q]
          \/ \A q \in Requests : other'[q] = (IF q = r THEN c ELSE other[q]) /\ own'[q] = own[q]
      BY <1>0, <2>1
    <3> QED
      BY <1>0, <2>1, <2>3, <2>7, <3>1 DEF HeldOnce
  <2>9. NoneLost'
    BY <1>0, <2>1, <2>3, <2>7 DEF NoneLost
  <2>10. CompanyIsOwn'
    <3>1. ASSUME NEW q \in Requests, pc'[q] \in {"handling", "using", "waiting"}, HasTenant(q)
          PROVE  company'[own'[q]] = CompanyOf(q)
      <4>1. pc[q] \in {"handling", "using", "waiting"} /\ own'[q] = own[q]
        BY <1>0, <2>1, <3>1 DEF GoTo
      <4> QED
        BY <2>3, <3>1, <4>1 DEF CompanyIsOwn
    <3>2. ASSUME NEW d \in Connections, company'[d] # NoCompany
          PROVE  \E q \in Requests : own'[q] = d
      <4>1. PICK q \in Requests : own[q] = d
        BY <2>3, <3>2 DEF CompanyIsOwn
      <4>2. own'[q] = d
        BY <1>0, <2>1, <2>7, <4>1
      <4> QED
        BY <4>2
    <3> QED
      BY <3>1, <3>2 DEF CompanyIsOwn, HasTenant
  <2> QED
    BY <2>2, <2>4, <2>5, <2>8, <2>9, <2>10
<1>2. CASE Refuse
  <2>1. PICK place \in {"failed", "rollingBack"} :
          /\ GoTo(r, place)
          /\ \/ pc[r] = "connecting" /\ place = "failed"
             \/ pc[r] = "waiting" /\ (place = "rollingBack" <=> HasTenant(r))
    BY <1>2 DEF Refuse, Throw, r
  <2>2. LineHolds'
    BY <1>0, <1>2, <2>1, LineServed DEF Refuse, r
  <2>3. UNCHANGED <<own, other, queries, free, company>> /\ Fault
    BY <1>2 DEF Refuse
  <2>4. Typed'
    BY <1>0, <2>1, <2>3 DEF GoTo, Places, Fault, Ended
  <2>5. HoldsAtPlace'
    BY <1>0, <2>1, <2>3 DEF HoldsAtPlace, GoTo, Alone, Inside
  <2>6. HeldOnce' /\ NoneLost'
    BY <2>3 DEF HeldOnce, NoneLost
  <2>7. CompanyIsOwn'
    BY <1>0, <2>1, <2>3 DEF CompanyIsOwn, GoTo
  <2> QED
    BY <2>2, <2>4, <2>5, <2>6, <2>7
<1> QED
  BY <1>1, <1>2

-------------------------------------------------------------------------------
(* What a request does itself, one step per action of the interceptor.       *)
LEMMA RequestStep ==
  ASSUME TenantInv, NEW r \in Requests, Arrive(r) \/ Query(r) \/ Step(r)
  PROVE  TenantInv'
<1> USE CompanyAssumption, BoundsAssumption DEF TenantInv
<1>1. CASE Arrive(r)
  <2>1. PICK place \in {"connecting", "handling"} :
          /\ GoTo(r, place)
          /\ place = "connecting" <=> HasTenant(r)
          /\ place = "connecting" => Join(r, place)
          /\ place = "handling" => UNCHANGED line
    BY <1>1 DEF Arrive, Join
  <2>2. pc[r] = "idle" /\ UNCHANGED <<own, other, queries, free, company, faults>>
    BY <1>1 DEF Arrive
  <2>3. LineHolds'
    BY <2>1, <2>2, LineJoined, LineStays DEF Waiting
  <2>4. Typed'
    BY <2>1, <2>2 DEF Typed, GoTo, Places, Waiting
  <2>5. HoldsAtPlace'
    BY <2>1, <2>2 DEF Typed, HoldsAtPlace, GoTo, Alone, Inside
  <2>6. HeldOnce' /\ NoneLost'
    BY <2>2 DEF HeldOnce, NoneLost
  <2>7. CompanyIsOwn'
    BY <2>1, <2>2 DEF Typed, CompanyIsOwn, GoTo, HasTenant
  <2> QED
    BY <2>3, <2>4, <2>5, <2>6, <2>7
<1>2. CASE Open(r)
  <2>1. /\ pc[r] = "opening" /\ HasTenant(r) /\ own[r] \in Connections
        /\ UNCHANGED <<own, other, queries, free, line>>
    BY <1>2 DEF Open, Typed, HoldsAtPlace, Alone
  <2>2. PICK place \in {"handling", "rollingBack"} :
          /\ GoTo(r, place)
          /\ faults' \in 0..MaxFaults
          /\ \/ place = "handling" /\ company' = [company EXCEPT ![own[r]] = CompanyOf(r)]
             \/ place = "rollingBack" /\ UNCHANGED company
    BY <1>2 DEF Open, Fault, Typed
  <2>3. LineHolds'
    BY <2>1, <2>2, LineStays DEF Waiting
  <2>4. Typed'
    BY <2>1, <2>2 DEF Typed, GoTo, Places, HasTenant
  <2>5. HoldsAtPlace'
    BY <2>1, <2>2 DEF Typed, HoldsAtPlace, GoTo, Alone, Inside
  <2>6. HeldOnce' /\ NoneLost'
    BY <2>1 DEF HeldOnce, NoneLost
  <2>7. CompanyIsOwn'
    <3>1. ASSUME NEW q \in Requests, pc'[q] \in {"handling", "using", "waiting"}, HasTenant(q)
          PROVE  company'[own'[q]] = CompanyOf(q)
      <4>1. CASE q = r
        BY <2>1, <2>2, <3>1, <4>1 DEF Typed, GoTo
      <4>2. CASE q # r
        <5>1. pc[q] \in {"handling", "using", "waiting"}
          BY <2>2, <3>1, <4>2 DEF Typed, GoTo
        <5>2. company[own[q]] = CompanyOf(q) /\ own[q] \in Connections /\ own[q] # own[r]
          BY <2>1, <3>1, <4>2, <5>1 DEF CompanyIsOwn, HeldOnce, HoldsAtPlace, Typed, Inside
        <5> QED
          BY <2>1, <2>2, <5>2 DEF Typed
      <4> QED
        BY <4>1, <4>2
    <3>2. ASSUME NEW d \in Connections, company'[d] # NoCompany
          PROVE  \E q \in Requests : own'[q] = d
      BY <2>1, <2>2, <3>2 DEF CompanyIsOwn, Typed
    <3> QED
      BY <3>1, <3>2 DEF CompanyIsOwn, HasTenant
  <2> QED
    BY <2>3, <2>4, <2>5, <2>6, <2>7
<1>3. CASE Query(r)
  <2>1. /\ pc[r] = "handling" /\ Join(r, "waiting") /\ GoTo(r, "waiting")
        /\ UNCHANGED <<own, other, free, company, faults>>
    BY <1>3 DEF Query, Join
  <2>2. queries' \in [Requests -> 0..MaxQueries]
    BY <1>3 DEF Query, Typed
  <2>3. LineHolds'
    BY <2>1, LineJoined DEF Waiting
  <2>4. Typed'
    BY <2>1, <2>2 DEF Typed, GoTo, Places, Waiting
  <2>5. HoldsAtPlace'
    BY <2>1 DEF Typed, HoldsAtPlace, GoTo, Alone, Inside
  <2>6. HeldOnce' /\ NoneLost'
    BY <2>1 DEF HeldOnce, NoneLost
  <2>7. CompanyIsOwn'
    BY <2>1 DEF Typed, CompanyIsOwn, GoTo, HasTenant
  <2> QED
    BY <2>3, <2>4, <2>5, <2>6, <2>7
<1>4. CASE QueryEnds(r)
  <2>1. /\ pc[r] = "using" /\ GoTo(r, "handling") /\ other[r] \in Connections
        /\ free' = free \cup {other[r]}
        /\ other' = [other EXCEPT ![r] = NoConnection]
        /\ UNCHANGED <<own, queries, line, company, faults>>
    BY <1>4 DEF QueryEnds, Typed, HoldsAtPlace
  <2>2. LineHolds'
    BY <2>1, LineStays DEF Waiting
  <2>3. Typed'
    BY <2>1 DEF Typed, GoTo, Places
  <2>4. HoldsAtPlace'
    BY <2>1 DEF Typed, HoldsAtPlace, GoTo, Alone, Inside
  <2>5. \A q \in Requests : other'[q] = IF q = r THEN NoConnection ELSE other[q]
    BY <2>1 DEF Typed
  <2>6. HeldOnce'
    BY <2>1, <2>5 DEF HeldOnce, Typed
  <2>7. NoneLost'
    BY <2>1, <2>5 DEF NoneLost, Typed
  <2>8. CompanyIsOwn'
    BY <2>1 DEF Typed, CompanyIsOwn, GoTo, HasTenant
  <2> QED
    BY <2>2, <2>3, <2>4, <2>6, <2>7, <2>8
<1>5. CASE HandlerEnds(r)
  <2>1. PICK place \in {"committing", "answered", "rollingBack", "failed"} :
          /\ GoTo(r, place)
          /\ place \in {"committing", "rollingBack"} <=> HasTenant(r)
    BY <1>5 DEF HandlerEnds, Throw
  <2>2. pc[r] = "handling" /\ UNCHANGED <<own, other, queries, free, line, company, faults>>
    BY <1>5 DEF HandlerEnds
  <2>3. LineHolds'
    BY <2>1, <2>2, LineStays DEF Waiting
  <2>4. Typed'
    BY <2>1, <2>2 DEF Typed, GoTo, Places, Ended
  <2>5. HoldsAtPlace'
    BY <2>1, <2>2 DEF Typed, HoldsAtPlace, GoTo, Alone, Inside
  <2>6. HeldOnce' /\ NoneLost'
    BY <2>2 DEF HeldOnce, NoneLost
  <2>7. CompanyIsOwn'
    BY <2>1, <2>2 DEF Typed, CompanyIsOwn, GoTo, HasTenant
  <2> QED
    BY <2>3, <2>4, <2>5, <2>6, <2>7
<1>6. CASE Commit(r) \/ RollBack(r)
  <2>1. PICK place \in {"answered", "failed"} : GoTo(r, place)
    BY <1>6 DEF Commit, RollBack
  <2>2. /\ pc[r] \in {"committing", "rollingBack"} /\ own[r] \in Connections
        /\ free' = free \cup {own[r]}
        /\ company' = [company EXCEPT ![own[r]] = NoCompany]
        /\ own' = [own EXCEPT ![r] = NoConnection]
        /\ UNCHANGED <<other, queries, line, faults>>
    BY <1>6 DEF Commit, RollBack, Release, Typed, HoldsAtPlace, Alone
  <2>3. LineHolds'
    BY <2>1, <2>2, LineStays DEF Waiting
  <2>4. Typed'
    BY <2>1, <2>2 DEF Typed, GoTo, Places, Ended
  <2>5. HoldsAtPlace'
    BY <2>1, <2>2 DEF Typed, HoldsAtPlace, GoTo, Alone, Inside
  <2>6. \A q \in Requests : own'[q] = IF q = r THEN NoConnection ELSE own[q]
    BY <2>2 DEF Typed
  <2>7. HeldOnce'
    BY <2>2, <2>6 DEF HeldOnce, Typed
  <2>8. NoneLost'
    BY <2>2, <2>6 DEF NoneLost, Typed
  <2>9. CompanyIsOwn'
    <3>1. ASSUME NEW q \in Requests, pc'[q] \in {"handling", "using", "waiting"}, HasTenant(q)
          PROVE  company'[own'[q]] = CompanyOf(q)
      <4>1. q # r /\ pc[q] \in {"handling", "using", "waiting"}
        BY <2>1, <3>1 DEF Typed, GoTo
      <4>2. company[own[q]] = CompanyOf(q) /\ own[q] \in Connections /\ own[q] # own[r]
        BY <2>2, <3>1, <4>1 DEF CompanyIsOwn, HeldOnce, HoldsAtPlace, Typed, Inside
      <4> QED
        BY <2>2, <2>6, <4>1, <4>2 DEF Typed
    <3>2. ASSUME NEW d \in Connections, company'[d] # NoCompany
          PROVE  \E q \in Requests : own'[q] = d
      <4>1. d # own[r] /\ company[d] # NoCompany
        BY <2>2, <3>2 DEF Typed
      <4> QED
        BY <2>6, <4>1 DEF CompanyIsOwn
    <3> QED
      BY <3>1, <3>2 DEF CompanyIsOwn, HasTenant
  <2> QED
    BY <2>3, <2>4, <2>5, <2>7, <2>8, <2>9
<1>7. CASE CommitFails(r)
  <2>1. /\ \A q \in Requests :
              pc'[q] \in Ended \cup {"idle"} /\ own'[q] = NoConnection /\ other'[q] = NoConnection
        /\ free' = Connections /\ line' = <<>>
        /\ \A c \in Connections : company'[c] = NoCompany
    BY <1>7 DEF CommitFails, Ended
  <2>2. Typed'
    BY <1>7 DEF CommitFails, Fault, Typed, Places, Ended
  <2>3. LineHolds'
    BY <2>1, EmptySeq DEF LineHolds, LineOnce, InLine, Waiting, Ended
  <2>4. HoldsAtPlace'
    BY <2>1 DEF HoldsAtPlace, Alone, Inside, Ended
  <2>5. HeldOnce' /\ NoneLost' /\ CompanyIsOwn'
    BY <2>1 DEF HeldOnce, NoneLost, CompanyIsOwn, Ended
  <2> QED
    BY <2>2, <2>3, <2>4, <2>5
<1> QED
  BY <1>1, <1>2, <1>3, <1>4, <1>5, <1>6, <1>7 DEF Step

LEMMA NextTenant == TenantInv /\ [Next]_vars => TenantInv'
<1>1. TenantInv /\ UNCHANGED vars => TenantInv'
  BY DEF vars, TenantInv, Typed, LineHolds, LineOnce, InLine, HoldsAtPlace, HeldOnce, NoneLost, CompanyIsOwn
<1> QED
  BY <1>1, PoolStep, RequestStep DEF Next

-------------------------------------------------------------------------------
(* What is held once has one holder. *)
LEMMA OneHolder ==
  ASSUME TenantInv, NEW c \in Connections \ free
  PROVE  Cardinality(Holders(c)) = 1
<1>1. PICK r \in Requests : own[r] = c \/ other[r] = c
  BY DEF TenantInv, NoneLost
<1>2. Holders(c) = {r}
  <2>1. c # NoConnection
    BY CompanyAssumption
  <2> QED
    BY <1>1, <2>1 DEF TenantInv, HeldOnce, Holders
<1> QED
  BY <1>2, FS_Singleton

LEMMA TenantHolds == TenantInv => ConnectionsHold
<1> SUFFICES ASSUME TenantInv PROVE ConnectionsHold
  OBVIOUS
<1>1. TypeOK
  BY DEF TenantInv, Typed, LineHolds, InLine, TypeOK
<1>2. ConnectionsAccounted
  <2>1. ASSUME NEW c \in free PROVE Holders(c) = {}
    BY <2>1 DEF TenantInv, HeldOnce, Holders
  <2>2. ASSUME NEW r \in Requests
        PROVE  /\ pc[r] \in Ended => own[r] = NoConnection /\ other[r] = NoConnection
               /\ own[r] = other[r] => own[r] = NoConnection
    BY DEF TenantInv, HoldsAtPlace, HeldOnce, Ended, Alone, Inside
  <2> QED
    BY <2>1, <2>2, OneHolder DEF ConnectionsAccounted
<1> QED
  BY <1>1, <1>2 DEF TenantInv, ConnectionsHold

(* Each connection is in the pool or with one request, a request that is     *)
(* over holds none, and a company's setting is seen by its own requests only *)
(* (ConnectionsHold), however requests, refusals and failing commits         *)
(* interleave.                                                               *)
THEOREM ConnectionsKept == Spec => []ConnectionsHold
<1>1. Spec => []TenantInv
  BY InitTenant, NextTenant, PTL DEF Spec
<1> QED
  BY <1>1, TenantHolds, PTL
===============================================================================
