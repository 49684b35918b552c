---------------------------- MODULE NominalRosters -----------------------------
(***************************************************************************)
(* NominalRosteringSolver and RosteringEvaluator (services/rostering):     *)
(* duties of one day are matched with operators.  A linear program picks a *)
(* matching of the pairs that keep the rest; when its status is not        *)
(* optimal, a greedy loop takes pairs by falling score.                    *)
(***************************************************************************)
EXTENDS Integers, FiniteSets, FiniteSetsExt

CONSTANTS
  Calls   \* the requests: crew and duties by number, rules, rest, oneVehicle

ASSUME CallsNumbered ==
  \A c \in Calls : DOMAIN c.crew \subseteq Nat /\ DOMAIN c.duties \subseteq Nat

VARIABLES
  call,       \* the request being answered
  callStage,  \* how far solve has come
  pairs,      \* valid_pairs the loop has not come to
  matched     \* assignments

nominal == <<call, callStage, pairs, matched>>

CallInit ==
  /\ call \in Calls
  /\ callStage = "asked"
  /\ pairs = {} /\ matched = {}

-------------------------------------------------------------------------------
(* RosteringEvaluator.evaluate *)
Prohibitive == -1000000

Rested(i, j) == call.duties[j].start - call.crew[i].shiftEnd >= call.rest

Shift(j) == IF call.duties[j].start < 720 THEN "morning" ELSE "afternoon"

(* A rule counts once for the operator's tag and once for the affinity it  *)
(* names, whatever its type: HARD rules only add their weight.             *)
Boost(r, i, j) ==
  LET op == call.crew[i]
      line == r.id = "line_affinity" /\ op.lines \cap call.duties[j].lines # {}
      shift == r.id = "shift_affinity" /\ Shift(j) \in op.shifts
  IN r.weight * Cardinality({c \in {1, 2, 3} : \/ c = 1 /\ r.id \in op.tags
                                               \/ c = 2 /\ line
                                               \/ c = 3 /\ shift})

Score(i, j) == 100 + MapThenSumSet(LAMBDA r : Boost(r, i, j), call.rules)

ValidPairs ==
  {p \in (DOMAIN call.crew) \X (DOMAIN call.duties) :
     Rested(p[1], p[2]) /\ Score(p[1], p[2]) >= Prohibitive}

-------------------------------------------------------------------------------
Apart(m) == \A p, q \in m : p # q => p[1] # q[1] /\ p[2] # q[2]

(* operator_single_vehicle_only: y[i, v] lets an operator touch one vehicle.*)
(* The route never sends it; the greedy loop does not look at it.          *)
OneVehicle(p) == call.oneVehicle => Cardinality(call.duties[p[2]].vehicles) <= 1

NoValidPair ==
  /\ callStage = "asked" /\ ValidPairs = {}
  /\ callStage' = "empty"
  /\ UNCHANGED <<call, pairs, matched>>

(* CBC answers optimal, or with the best it found when its time is over *)
ProgramAnswers ==
  /\ callStage = "asked" /\ ValidPairs # {}
  /\ \E m \in SUBSET ValidPairs :
       /\ Apart(m)
       /\ \A p \in m : OneVehicle(p)
       /\ matched' = m
  /\ callStage' = "matched"
  /\ UNCHANGED <<call, pairs>>

(* the solver raises: an answer without assignments or unassigned duties *)
ProgramFails ==
  /\ callStage = "asked" /\ ValidPairs # {}
  /\ callStage' = "empty"
  /\ UNCHANGED <<call, pairs, matched>>

NotOptimal ==
  /\ callStage = "asked" /\ ValidPairs # {}
  /\ callStage' = "greedy"
  /\ pairs' = ValidPairs
  /\ UNCHANGED <<call, matched>>

(* sorted(valid_pairs, key = score, reverse): equal scores keep the order  *)
(* of the matrix, by operator and then by duty                             *)
Before(p, q) ==
  LET sp == Score(p[1], p[2])
      sq == Score(q[1], q[2])
  IN \/ sp > sq
     \/ sp = sq /\ (p[1] < q[1] \/ (p[1] = q[1] /\ p[2] <= q[2]))

\* A variant that forgets used_duties.
FreeOperator(p) == \A q \in matched : q[1] # p[1]

Free(p) == \A q \in matched : q[1] # p[1] /\ q[2] # p[2]

TakePair ==
  /\ callStage = "greedy"
  /\ \E p \in pairs :
       /\ \A q \in pairs : Before(p, q)
       /\ pairs' = pairs \ {p}
       /\ matched' = IF Free(p) THEN matched \cup {p} ELSE matched
  /\ UNCHANGED <<call, callStage>>

PairsDone ==
  /\ callStage = "greedy" /\ pairs = {}
  /\ callStage' = "fallback"
  /\ UNCHANGED <<call, pairs, matched>>

CallNext ==
  NoValidPair \/ ProgramAnswers \/ ProgramFails \/ NotOptimal \/ TakePair \/ PairsDone

CallSpec == CallInit /\ [][CallNext]_nominal

-------------------------------------------------------------------------------
(* An answer of either solver gives no operator two duties, no duty two    *)
(* operators and nobody a duty before the rest is over; and the fallback   *)
(* leaves no operator and duty that both did worse than with each other.   *)
MatchingHolds ==
  callStage \in {"matched", "fallback"} =>
    /\ Apart(matched)
    /\ \A p \in matched : Rested(p[1], p[2])
    /\ callStage = "fallback" =>
         \A p \in ValidPairs :
           \E q \in matched : (q[1] = p[1] \/ q[2] = p[2]) /\ Before(q, p)

===============================================================================
