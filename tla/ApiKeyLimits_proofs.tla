------------------------- MODULE ApiKeyLimits_proofs -------------------------
(***************************************************************************)
(* What ApiKeyLimits guarantees for any number of requests and gateways,   *)
(* any limits and any number of faults: the minute windows count exactly   *)
(* what was admitted and stay within the limits, costs land in the period  *)
(* of their admission, and active_count, and with it the concurrency       *)
(* limit, covers every lease that is held but those a second release or a  *)
(* repair takes, the repair only leases that came while it waited or that  *)
(* are about as old as the quiet period.                                   *)
(***************************************************************************)
EXTENDS ApiKeyLimits, FiniteSetTheorems, WellFoundedInduction, TLAPS

\* Every request, by how far it has got: nothing is read, counted, leased, settled or left to
\* do before its admission, and it is settled once.
Shape(q) ==
  /\ q.pc = "new" => ~ q.limited
  /\ q.pc \in {"new", "checking", "counting"} =>
       ~ q.counted /\ ~ q.lease /\ ~ q.settled /\ q.tasks = {}
  /\ q.settled => q.pc = "closed" /\ "settle" \notin q.tasks

----------------------------------------------------------------------------
(* Sums: MapThenSumSet counts units, w[x] of them for every x. *)

\* As many pairs as the values of w on s add up to.
Units(w, s) == UNION {{x} \X (1..w[x]) : x \in s}

\* The units of finitely many values are finitely many.
LEMMA UnitsFinite ==
  ASSUME NEW S, IsFiniteSet(S), NEW w \in [S -> Nat]
  PROVE  IsFiniteSet(Units(w, S))
  <1> DEFINE Pile == [x \in S |-> {x} \X (1..w[x])]
             Piles == {{x} \X (1..w[x]) : x \in S}
  <1>1. Pile \in Surjection(S, Piles)
    BY DEF Surjection
  <1>2. IsFiniteSet(Piles)
    <2> HIDE DEF Pile, Piles
    <2> QED BY <1>1, FS_Surjection
  <1>3. \A x \in S : IsFiniteSet({x} \X (1..w[x]))
    <2> SUFFICES ASSUME NEW x \in S PROVE IsFiniteSet({x} \X (1..w[x])) OBVIOUS
    <2>1. IsFiniteSet({x}) BY FS_Singleton
    <2>2. IsFiniteSet(1..w[x]) BY FS_Interval
    <2> QED BY <2>1, <2>2, FS_Product
  <1>4. \A P \in Piles : IsFiniteSet(P)
    BY <1>3
  <1>5. IsFiniteSet(UNION Piles)
    <2> HIDE DEF Piles
    <2> QED BY <1>2, <1>4, FS_UNION
  <1> QED BY <1>5 DEF Units

\* Taking out an element takes out its units.
LEMMA UnitsRemove ==
  ASSUME NEW S, IsFiniteSet(S), NEW w \in [S -> Nat], NEW s \in SUBSET S, NEW x \in s
  PROVE  Cardinality(Units(w, s)) = w[x] + Cardinality(Units(w, s \ {x}))
  <1> DEFINE Rest == Units(w, s \ {x})
             Pile == {x} \X (1..w[x])
  <1>1. w \in [S -> Nat] /\ Units(w, s) = Rest \cup Pile /\ Rest \cap Pile = {}
    BY DEF Units
  <1>2. Rest \subseteq Units(w, S)
    BY DEF Units
  <1>3. IsFiniteSet(Rest)
    BY <1>2, UnitsFinite, FS_Subset
  <1>4. IsFiniteSet({x}) /\ Cardinality({x}) = 1
    BY FS_Singleton
  <1>5. IsFiniteSet(1..w[x]) /\ Cardinality(1..w[x]) = w[x]
    BY FS_Interval
  <1>6. IsFiniteSet(Pile) /\ Cardinality(Pile) = w[x]
    <2>1. IsFiniteSet({x} \X (1..w[x])) /\ Cardinality({x} \X (1..w[x])) = Cardinality({x}) * Cardinality(1..w[x])
      BY <1>4, <1>5, FS_Product
    <2>2. w[x] \in Nat
      OBVIOUS
    <2>3. Cardinality({x}) * Cardinality(1..w[x]) = w[x]
      BY <1>4, <1>5, <2>2
    <2> QED BY <2>1, <2>3
  <1>7. Cardinality(Rest) \in Nat
    BY <1>3, FS_CardinalityType
  <1>8. Cardinality(Rest \cup Pile) = Cardinality(Rest) + Cardinality(Pile) - Cardinality(Rest \cap Pile)
    <2> HIDE DEF Rest, Pile
    <2> QED BY <1>3, <1>6, FS_Union
  <1>9. Cardinality({}) = 0
    BY FS_EmptySet
  <1> HIDE DEF Rest, Pile
  <1>10. Cardinality(Units(w, s)) = w[x] + Cardinality(Rest)
    <2>1. w[x] \in Nat
      OBVIOUS
    <2>2. Cardinality(Rest \cap Pile) = 0
      BY <1>1, <1>9
    <2>3. Cardinality(Rest \cup Pile) = Cardinality(Rest) + w[x]
      BY <1>6, <1>7, <1>8, <2>1, <2>2
    <2> QED BY <1>1, <1>7, <2>1, <2>3
  <1> QED BY <1>10 DEF Rest

\* The equation of the fold that adds up w.
Adds(f, w, S) ==
  f = [s \in SUBSET S |-> IF s = {} THEN 0
                          ELSE w[CHOOSE x \in s : TRUE] + f[s \ {CHOOSE x \in s : TRUE}]]

\* Counting the units satisfies the equation of the fold.
LEMMA UnitsAdd ==
  ASSUME NEW S, IsFiniteSet(S), NEW w \in [S -> Nat]
  PROVE  Adds([s \in SUBSET S |-> Cardinality(Units(w, s))], w, S)
  <1> DEFINE g == [s \in SUBSET S |-> Cardinality(Units(w, s))]
             Chosen(s) == CHOOSE x \in s : TRUE
  <1>1. g[{}] = 0
    BY FS_EmptySet DEF Units
  <1>2. ASSUME NEW s \in SUBSET S, s # {}
        PROVE  g[s] = w[Chosen(s)] + g[s \ {Chosen(s)}]
    <2>1. Chosen(s) \in s
      BY <1>2
    <2>2. s \ {Chosen(s)} \in SUBSET S
      OBVIOUS
    <2> HIDE DEF Chosen
    <2> QED BY <2>1, <2>2, UnitsRemove
  <1>3. \A s \in SUBSET S :
          Cardinality(Units(w, s)) = IF s = {} THEN 0 ELSE w[Chosen(s)] + g[s \ {Chosen(s)}]
    <2> SUFFICES ASSUME NEW s \in SUBSET S
                 PROVE  g[s] = IF s = {} THEN 0 ELSE w[Chosen(s)] + g[s \ {Chosen(s)}]
      OBVIOUS
    <2> HIDE DEF g, Chosen
    <2> QED BY <1>1, <1>2
  <1> QED BY <1>3 DEF Adds

\* Only one function does: two of them differ on no smallest set.
LEMMA AddsUnique ==
  ASSUME NEW S, IsFiniteSet(S), NEW w, NEW f, NEW g, Adds(f, w, S), Adds(g, w, S)
  PROVE  f[S] = g[S]
  <1> DEFINE Differ == {s \in SUBSET S : f[s] # g[s]}
             Chosen(s) == CHOOSE x \in s : TRUE
  <1>1. SUFFICES ASSUME Differ # {} PROVE FALSE
    OBVIOUS
  <1>2. IsWellFoundedOn(StrictSubsetOrdering(S), SUBSET S)
    BY FS_StrictSubsetOrderingWellFounded, FS_FiniteSubsetsOfFinite
  <1>3. \E s \in Differ : \A t \in Differ : <<t, s>> \notin StrictSubsetOrdering(S)
    <2>1. Differ \subseteq SUBSET S OBVIOUS
    <2> HIDE DEF Differ
    <2> QED BY <1>1, <1>2, <2>1, WFMin
  <1>4. PICK s \in Differ : \A t \in Differ : <<t, s>> \notin StrictSubsetOrdering(S)
    BY <1>3
  <1>5. CASE s = {}
    BY <1>5 DEF Adds
  <1>6. CASE s # {}
    <2>1. Chosen(s) \in s
      BY <1>6
    <2>2. s \ {Chosen(s)} \in SUBSET S /\ s \ {Chosen(s)} \subseteq s /\ s \ {Chosen(s)} # s
      BY <2>1
    <2>3. s \ {Chosen(s)} \notin Differ
      BY <1>4, <2>2 DEF StrictSubsetOrdering
    <2>4. f[s \ {Chosen(s)}] = g[s \ {Chosen(s)}]
      BY <2>2, <2>3
    <2>5. f[s] = w[Chosen(s)] + f[s \ {Chosen(s)}] /\ g[s] = w[Chosen(s)] + g[s \ {Chosen(s)}]
      BY <1>6, <2>2 DEF Adds
    <2> QED BY <2>4, <2>5
  <1> QED BY <1>5, <1>6

\* The sum that the properties take.
Sum(w, S) == MapThenSumSet(LAMBDA r : w[r], S)

\* The fold over a set is the number of its units, whatever order it takes.
LEMMA SumIsUnits ==
  ASSUME NEW S, IsFiniteSet(S), NEW T, S \subseteq T, NEW w \in [T -> Nat]
  PROVE  Sum(w, S) = Cardinality(Units(w, S))
  <1> DEFINE v == [x \in S |-> w[x]]
             f == CHOOSE f : Adds(f, w, S)
             g == [s \in SUBSET S |-> Cardinality(Units(v, s))]
  <1>1. v \in [S -> Nat]
    OBVIOUS
  <1>2. Adds(g, v, S)
    BY <1>1, UnitsAdd
  <1>3. Adds(g, w, S)
    <2> HIDE DEF g
    <2>1. \A s \in SUBSET S : s # {} => v[CHOOSE x \in s : TRUE] = w[CHOOSE x \in s : TRUE]
      OBVIOUS
    <2> QED BY <1>2, <2>1 DEF Adds
  <1>4. Adds(f, w, S)
    BY <1>3
  <1>5. Sum(w, S) = f[S]
    BY DEF Sum, MapThenSumSet, MapThenFoldSet, Adds
  <1>6. f[S] = g[S]
    <2> HIDE DEF f, g
    <2> QED BY <1>3, <1>4, AddsUnique
  <1>7. g[S] = Cardinality(Units(w, S))
    <2>1. Units(v, S) = Units(w, S) BY DEF Units
    <2> QED BY <2>1
  <1> QED BY <1>5, <1>6, <1>7

\* Nothing adds up to 0.
LEMMA SumEmpty == ASSUME NEW w PROVE Sum(w, {}) = 0
  <1>2. Adds([s \in SUBSET {} |-> 0], w, {}) BY DEF Adds
  <1>3. Adds(CHOOSE f : Adds(f, w, {}), w, {}) BY <1>2
  <1>4. (CHOOSE f : Adds(f, w, {}))[{}] = 0 BY <1>3 DEF Adds
  <1>5. Sum(w, {}) = (CHOOSE f : Adds(f, w, {}))[{}]
    BY DEF Sum, MapThenSumSet, MapThenFoldSet, Adds
  <1> QED BY <1>4, <1>5

\* One more element adds its value.
LEMMA SumAdd ==
  ASSUME NEW T, IsFiniteSet(T), NEW w \in [T -> Nat], NEW S \in SUBSET T, NEW x \in T \ S
  PROVE  Sum(w, S \cup {x}) = Sum(w, S) + w[x]
  <1>1. IsFiniteSet(S) /\ IsFiniteSet(S \cup {x}) BY FS_Subset, FS_AddElement
  <1>2. (S \cup {x}) \ {x} = S OBVIOUS
  <1>3. Cardinality(Units(w, S \cup {x})) = w[x] + Cardinality(Units(w, S))
    <2>1. S \cup {x} \in SUBSET T /\ x \in S \cup {x} OBVIOUS
    <2>2. Cardinality(Units(w, S \cup {x})) = w[x] + Cardinality(Units(w, (S \cup {x}) \ {x}))
      BY <2>1, UnitsRemove
    <2> QED BY <1>2, <2>2
  <1>4. Sum(w, S \cup {x}) = Cardinality(Units(w, S \cup {x})) /\ Sum(w, S) = Cardinality(Units(w, S))
    BY <1>1, SumIsUnits
  <1>5. Cardinality(Units(w, S)) \in Nat
    <2>1. Units(w, S) \subseteq Units(w, T) BY DEF Units
    <2> QED BY <2>1, UnitsFinite, FS_Subset, FS_CardinalityType
  <1> QED BY <1>3, <1>4, <1>5

----------------------------------------------------------------------------
(* The sets that the properties count. *)

\* Requests, and every set of them, are finite.
LEMMA Finite ==
  ASSUME NEW S \in SUBSET Requests
  PROVE  IsFiniteSet(S) /\ Cardinality(S) \in Nat /\ Cardinality(S) <= Cardinality(Requests)
  BY RequestsAssumption, FS_Subset, FS_CardinalityType

\* One more request is one more.
LEMMA OneMore ==
  ASSUME NEW S \in SUBSET Requests, NEW r \in Requests, r \notin S
  PROVE  Cardinality(S \cup {r}) = Cardinality(S) + 1
  BY Finite, FS_AddElement

\* What a request adds to the tokens or the costs of a set it was not in.
LEMMA SumGrows ==
  ASSUME NEW w \in {Tokens, Cost}, NEW S \in SUBSET Requests, NEW r \in Requests, r \notin S
  PROVE  Sum(w, S \cup {r}) = Sum(w, S) + w[r]
  BY RequestsAssumption, SumAdd

----------------------------------------------------------------------------
(* The invariant. *)

CountedRequests == {r \in Requests : req[r].counted}

\* RatesCountAdmissions and CostsLandInTheirPeriod, by Sum.
RatesSum ==
  \A m \in Minutes :
    /\ "rpm" \in Counted => rates[m].rpm = Cardinality(CountedIn(m))
    /\ "tpm" \in Counted => rates[m].tpm = Sum(Tokens, CountedIn(m))

CostsSum ==
  \A p \in {Period(m) : m \in Minutes} : spent[p] = Sum(Cost, SettledIn(p))

Inv ==
  /\ TypeOK
  /\ \A r \in Requests : Shape(req[r])
  /\ active <= Cardinality(CountedRequests)
  /\ RatesSum /\ RatesEnforced
  /\ CostsSum

LEMMA SumsAre ==
  /\ RatesSum <=> RatesCountAdmissions
  /\ TypeOK => (CostsSum <=> CostsLandInTheirPeriod)
  <1>1. RatesSum <=> RatesCountAdmissions
    BY DEF Sum, RatesSum, RatesCountAdmissions
  <1>2. TypeOK => DOMAIN spent = {Period(m) : m \in Minutes}
    BY DEF TypeOK
  <1>3. ASSUME TypeOK PROVE CostsSum <=> CostsLandInTheirPeriod
    BY <1>2, <1>3 DEF Sum, CostsSum, CostsLandInTheirPeriod
  <1> QED BY <1>1, <1>3

----------------------------------------------------------------------------
(* Steps that count nothing. *)

\* What a step that admits and settles nothing keeps of a request.
Uncounted(q, new) ==
  /\ new.counted = q.counted /\ new.settled = q.settled
  /\ q.counted \/ q.settled => new.minute = q.minute

\* Such a step leaves what the windows and periods are compared with.
LEMMA CountsKept ==
  ASSUME \A r \in Requests : Uncounted(req[r], req'[r])
  PROVE  /\ CountedRequests' = CountedRequests
         /\ \A m : CountedIn(m)' = CountedIn(m)
         /\ \A p : SettledIn(p)' = SettledIn(p)
  BY DEF Uncounted, CountedRequests, CountedIn, SettledIn

LEMMA InvKept ==
  ASSUME Inv, req' \in [Requests -> Request],
         \A r \in Requests : Uncounted(req[r], req'[r]) /\ Shape(req'[r]),
         active' \in 0..active, quiet' \in 0..QuietMinutes, rules' \in BOOLEAN,
         minute' \in Minutes, faults' \in 0..MaxFaults, repair' \in Repair, uncounted' \in Nat,
         UNCHANGED <<rates, spent>>
  PROVE  Inv'
  <1>1. TypeOK'
    <2>1. active \in Int /\ active' \in Int /\ Cardinality(Requests) \in Nat
      BY Finite DEF Inv, TypeOK
    <2>2. active' \in 0..Cardinality(Requests)
      BY <2>1 DEF Inv, TypeOK
    <2> QED BY <2>2 DEF Inv, TypeOK
  <1>2. active' <= Cardinality(CountedRequests)'
    <2>1. active \in Int /\ active <= Cardinality(CountedRequests)
      BY DEF Inv, TypeOK
    <2>2. Cardinality(CountedRequests) \in Nat
      BY Finite DEF CountedRequests
    <2> QED BY <2>1, <2>2, CountsKept
  <1>3. RatesSum'
    BY CountsKept DEF Inv, RatesSum
  <1>4. RatesEnforced'
    BY DEF Inv, RatesEnforced
  <1>5. CostsSum'
    BY CountsKept DEF Inv, CostsSum
  <1> QED BY <1>1, <1>2, <1>3, <1>4, <1>5 DEF Inv

\* The same for one request.
LEMMA InvKeptOne ==
  ASSUME Inv, NEW r \in Requests, NEW q \in Request, req' = [req EXCEPT ![r] = q],
         Uncounted(req[r], q), Shape(q),
         active' \in 0..active, quiet' \in 0..QuietMinutes, rules' \in BOOLEAN,
         minute' \in Minutes, faults' \in 0..MaxFaults, repair' \in Repair, uncounted' \in Nat,
         UNCHANGED <<rates, spent>>
  PROVE  Inv'
  <1>1. req \in [Requests -> Request] /\ \A x \in Requests : Shape(req[x])
    BY DEF Inv, TypeOK
  <1>2. req' \in [Requests -> Request]
    BY <1>1
  <1>3. ASSUME NEW x \in Requests PROVE Uncounted(req[x], req'[x]) /\ Shape(req'[x])
    BY <1>1 DEF Uncounted
  <1> QED BY <1>2, <1>3, InvKept

LEMMA Parts ==
  ASSUME Inv
  PROVE  /\ active \in Nat /\ quiet \in 0..QuietMinutes /\ rules \in BOOLEAN
         /\ minute \in Minutes /\ faults \in 0..MaxFaults
         /\ repair \in Repair /\ uncounted \in Nat
         /\ req \in [Requests -> Request]
         /\ \A r \in Requests : req[r] \in Request /\ Shape(req[r])
  BY Finite DEF Inv, TypeOK

\* A row is at most as quiet as the time since its updated_at was set.
LEMMA Quiet == ASSUME NEW w \in Nat PROVE QuietFor(w) \in 0..QuietMinutes /\ QuietFor(w) <= w
  BY BoundsAssumption DEF QuietFor

LEMMA Faults == ASSUME Inv, Fault PROVE faults' \in 0..MaxFaults
  BY Parts, BoundsAssumption DEF Fault

\* A step that only changes one request.
LEMMA InvStill ==
  ASSUME Inv, NEW r \in Requests, NEW q \in Request, req' = [req EXCEPT ![r] = q],
         Uncounted(req[r], q), Shape(q), faults' \in 0..MaxFaults,
         UNCHANGED <<rules, active, quiet, rates, spent, minute, repair, uncounted>>
  PROVE  Inv'
  <1>1. active' \in 0..active /\ quiet' \in 0..QuietMinutes /\ rules' \in BOOLEAN
        /\ minute' \in Minutes /\ repair' \in Repair /\ uncounted' \in Nat
    BY Parts
  <1> QED BY <1>1, InvKeptOne

\* Closing a request, or dropping one of its tasks, is no admission and no settlement.
LEMMA Closes ==
  ASSUME NEW q \in Request, Shape(q)
  PROVE  Closed(q) \in Request /\ Shape(Closed(q)) /\ Uncounted(q, Closed(q))
  <1>1. 0 \in 0..MaxLife
    BY BoundsAssumption
  <1> QED BY <1>1 DEF Request, Closed, Shape, Uncounted, Tasks

LEMMA Drops ==
  ASSUME NEW q \in Request, Shape(q), NEW t
  PROVE  Done(q, t) \in Request /\ Shape(Done(q, t)) /\ Uncounted(q, Done(q, t))
  BY DEF Request, Done, Shape, Uncounted

LEMMA AdmissionInv ==
  ASSUME Inv, NEW r \in Requests, Begin(r) \/ CheckBudget(r) \/ AdmissionFails(r)
  PROVE  Inv'
  <1> DEFINE q == req[r]
  <1>1. q \in Request /\ Shape(q)
    BY Parts
  <1>2. CASE Begin(r)
    <2>1. q.pc = "new"
      BY <1>2 DEF Begin
    <2> DEFINE new == IF rules THEN [q EXCEPT !.pc = "checking", !.limited = TRUE, !.minute = minute]
                               ELSE [q EXCEPT !.pc = "calling"]
    <2>2. new \in Request /\ Shape(new) /\ Uncounted(q, new)
      BY <1>1, <2>1, Parts DEF Request, Shape, Uncounted
    <2>3. req' = [req EXCEPT ![r] = new]
      BY <1>2, Parts DEF Begin
    <2>4. faults' \in 0..MaxFaults /\ UNCHANGED <<rules, active, quiet, rates, spent, minute, repair, uncounted>>
      BY <1>2, Parts DEF Begin
    <2> HIDE DEF new
    <2> QED BY <2>2, <2>3, <2>4, InvStill
  <1>3. CASE CheckBudget(r)
    <2> DEFINE counting == [q EXCEPT !.pc = "counting",
                              !.locks = ReadsBudget(r) /\ Opened(Period(req[r].minute))]
               closed == [q EXCEPT !.pc = "closed"]
    <2>1. q.pc = "checking"
      BY <1>3 DEF CheckBudget
    <2>2. counting \in Request /\ Shape(counting) /\ Uncounted(q, counting)
      <3>1. (ReadsBudget(r) /\ Opened(Period(req[r].minute))) \in BOOLEAN
        BY Zenon
      <3> QED BY <1>1, <2>1, <3>1 DEF Request, Shape, Uncounted
    <2>3. closed \in Request /\ Shape(closed) /\ Uncounted(q, closed)
      BY <1>1, <2>1 DEF Request, Shape, Uncounted
    <2>4. req' = [req EXCEPT ![r] = counting] \/ req' = [req EXCEPT ![r] = closed]
      BY <1>3, Parts DEF CheckBudget, Goes
    <2>5. faults' \in 0..MaxFaults /\ UNCHANGED <<rules, active, quiet, rates, spent, minute, repair, uncounted>>
      BY <1>3, Parts DEF CheckBudget
    <2> HIDE DEF counting, closed
    <2> QED BY <2>2, <2>3, <2>4, <2>5, InvStill
  <1>4. CASE AdmissionFails(r)
    <2>1. req' = [req EXCEPT ![r] = Closed(q)]
      BY <1>4 DEF AdmissionFails
    <2>2. faults' \in 0..MaxFaults /\ UNCHANGED <<rules, active, quiet, rates, spent, minute, repair, uncounted>>
      BY <1>4, Faults DEF AdmissionFails
    <2> QED BY <1>1, <2>1, <2>2, Closes, InvStill
  <1> QED BY <1>2, <1>3, <1>4

LEMMA AnswerInv ==
  ASSUME Inv, NEW r \in Requests, JsonAnswer(r) \/ StreamAnswer(r) \/ StreamEnds(r)
  PROVE  Inv'
  <1> DEFINE q == req[r]
  <1>1. q \in Request /\ Shape(q)
    BY Parts
  <1>2. CASE JsonAnswer(r)
    <2>1. PICK ok \in BOOLEAN :
            req' = [req EXCEPT ![r].pc = "releasing", ![r].tasks = Earned(r, ok)]
      BY <1>2 DEF JsonAnswer
    <2> DEFINE new == [q EXCEPT !.pc = "releasing", !.tasks = Earned(r, ok)]
    <2>2. q.pc = "calling" /\ Earned(r, ok) \in SUBSET Tasks
      BY <1>2 DEF JsonAnswer, Earned, Tasks
    <2>3. new \in Request /\ Shape(new) /\ Uncounted(q, new)
      BY <1>1, <2>2 DEF Request, Shape, Uncounted
    <2>4. req' = [req EXCEPT ![r] = new]
      BY <2>1, Parts
    <2>5. faults' \in 0..MaxFaults /\ UNCHANGED <<rules, active, quiet, rates, spent, minute, repair, uncounted>>
      BY <1>2, Parts DEF JsonAnswer
    <2> HIDE DEF new
    <2> QED BY <2>3, <2>4, <2>5, InvStill
  <1>3. CASE StreamAnswer(r)
    <2>1. PICK pc \in {"streaming", "releasing", "again"} : Goes(r, pc)
      BY <1>3 DEF StreamAnswer
    <2> DEFINE new == [q EXCEPT !.pc = pc]
    <2>2. q.pc = "calling"
      BY <1>3 DEF StreamAnswer
    <2>3. new \in Request /\ Shape(new) /\ Uncounted(q, new)
      BY <1>1, <2>2 DEF Request, Shape, Uncounted
    <2>4. req' = [req EXCEPT ![r] = new]
      BY <2>1, Parts DEF Goes
    <2>5. faults' \in 0..MaxFaults /\ UNCHANGED <<rules, active, quiet, rates, spent, minute, repair, uncounted>>
      BY <1>3, Parts DEF StreamAnswer
    <2> HIDE DEF new
    <2> QED BY <2>3, <2>4, <2>5, InvStill
  <1>4. CASE StreamEnds(r)
    <2> DEFINE Left(ok) == Earned(r, ok) \cup IF Leased(r) THEN {"release"} ELSE {}
    <2>1. PICK ok \in BOOLEAN :
            req' = [req EXCEPT ![r] = [@ EXCEPT !.pc = "closed", !.tasks = Left(ok)]]
      BY <1>4 DEF StreamEnds
    <2> DEFINE new == [q EXCEPT !.pc = "closed", !.tasks = Left(ok)]
    <2>2. q.pc = "streaming" /\ Left(ok) \in SUBSET Tasks
      BY <1>4 DEF StreamEnds, Earned, Tasks
    <2>3. new \in Request /\ Shape(new) /\ Uncounted(q, new)
      <3> HIDE DEF Left
      <3> QED BY <1>1, <2>2 DEF Request, Shape, Uncounted
    <2>4. req' = [req EXCEPT ![r] = new]
      BY <2>1, Parts
    <2>5. faults' \in 0..MaxFaults /\ UNCHANGED <<rules, active, quiet, rates, spent, minute, repair, uncounted>>
      BY <1>4, Parts DEF StreamEnds
    <2> HIDE DEF new
    <2> QED BY <2>3, <2>4, <2>5, InvStill
  <1> QED BY <1>2, <1>3, <1>4

\* Giving back a lease.
LEMMA Returned ==
  ASSUME Inv, NEW r \in Requests, NEW q, Returns(r, q)
  PROVE  /\ active' \in 0..active /\ quiet' \in 0..QuietMinutes /\ uncounted' \in Nat
         /\ quiet' = quiet \/ quiet' <= MaxWait
         /\ req' = [req EXCEPT ![r] = q]
  <1>1. active' \in 0..active
    BY Parts DEF Returns, Decremented
  <1>2. quiet' \in 0..QuietMinutes /\ (quiet' = quiet \/ quiet' <= MaxWait)
    <2>1. PICK w \in 0..MaxWait : quiet' = IF Leased(r) THEN QuietFor(w) ELSE quiet
      BY DEF Returns
    <2>2. w \in Nat /\ w <= MaxWait /\ quiet \in 0..QuietMinutes
      BY BoundsAssumption, Parts
    <2>3. QuietFor(w) \in 0..QuietMinutes /\ QuietFor(w) <= w
      BY <2>2, Quiet
    <2> QED BY <2>1, <2>2, <2>3, BoundsAssumption
  <1>3. uncounted' \in Nat
    BY Parts DEF Returns, UncountedAfter
  <1> QED BY <1>1, <1>2, <1>3 DEF Returns

LEMMA ReleaseInv ==
  ASSUME Inv, NEW r \in Requests, Release(r) \/ ReleaseFails(r)
  PROVE  Inv'
  <1> DEFINE q == req[r]
             after == AfterFailedRelease(r)
             lost == [after EXCEPT !.lease = FALSE, !.age = 0]
  <1>1. q \in Request /\ Shape(q)
    BY Parts
  <1>2. CASE Release(r)
    <2>1. Returns(r, Closed(q))
      BY <1>2 DEF Release
    <2>2. active' \in 0..active /\ quiet' \in 0..QuietMinutes /\ uncounted' \in Nat
          /\ req' = [req EXCEPT ![r] = Closed(q)]
      BY <2>1, Returned
    <2>3. rules' \in BOOLEAN /\ minute' \in Minutes /\ faults' \in 0..MaxFaults /\ repair' \in Repair
          /\ UNCHANGED <<rates, spent>>
      BY <1>2, Parts DEF Release
    <2> QED BY <1>1, <2>2, <2>3, Closes, InvKeptOne
  <1>3. CASE ReleaseFails(r)
    <2>1. q.pc \in {"releasing", "again"}
      BY <1>3 DEF ReleaseFails
    <2>2. after \in Request /\ Shape(after) /\ Uncounted(q, after)
      <3>1. CASE q.pc = "releasing" /\ r \in Streaming
        <4>1. after = [q EXCEPT !.pc = "again"]
          BY <3>1 DEF AfterFailedRelease
        <4> HIDE DEF after
        <4> QED BY <1>1, <2>1, <4>1 DEF Request, Shape, Uncounted
      <3>2. CASE ~ (q.pc = "releasing" /\ r \in Streaming)
        BY <1>1, <3>2, Closes DEF AfterFailedRelease
      <3> QED BY <3>1, <3>2
    <2>3. lost \in Request /\ Shape(lost) /\ Uncounted(q, lost)
      <3>1. 0 \in 0..MaxLife
        BY BoundsAssumption
      <3> HIDE DEF after
      <3> QED BY <2>2, <3>1 DEF Request, Shape, Uncounted
    <2>4. rules' \in BOOLEAN /\ minute' \in Minutes /\ faults' \in 0..MaxFaults /\ repair' \in Repair
          /\ UNCHANGED <<rates, spent>>
      BY <1>3, Parts, Faults DEF ReleaseFails
    <2>5. CASE req' = [req EXCEPT ![r] = after] /\ UNCHANGED <<active, quiet, uncounted>>
      <3>1. active' \in 0..active /\ quiet' \in 0..QuietMinutes /\ uncounted' \in Nat
        BY <2>5, Parts
      <3> HIDE DEF after
      <3> QED BY <2>2, <2>4, <2>5, <3>1, InvKeptOne
    <2>6. CASE Returns(r, lost)
      <3>1. active' \in 0..active /\ quiet' \in 0..QuietMinutes /\ uncounted' \in Nat
            /\ req' = [req EXCEPT ![r] = lost]
        <4> HIDE DEF lost
        <4> QED BY <2>6, Returned
      <3> HIDE DEF lost
      <3> QED BY <2>3, <2>4, <3>1, InvKeptOne
    <2>7. (req' = [req EXCEPT ![r] = after] /\ UNCHANGED <<active, quiet, uncounted>>) \/ Returns(r, lost)
      BY <1>3 DEF ReleaseFails
    <2> QED BY <2>5, <2>6, <2>7
  <1> QED BY <1>2, <1>3

LEMMA TaskInv ==
  ASSUME Inv, NEW r \in Requests, ReleaseTask(r) \/ TaskFails(r)
  PROVE  Inv'
  <1> DEFINE q == req[r]
             done(t) == Done(q, t)
  <1>1. q \in Request /\ Shape(q)
    BY Parts
  <1>2. ASSUME NEW t
        PROVE  /\ done(t) \in Request /\ Shape(done(t)) /\ Uncounted(q, done(t))
               /\ Closed(done(t)) \in Request /\ Shape(Closed(done(t))) /\ Uncounted(q, Closed(done(t)))
    <2>1. done(t) \in Request /\ Shape(done(t)) /\ Uncounted(q, done(t))
      BY <1>1, Drops
    <2> HIDE DEF done
    <2>2. Closed(done(t)) \in Request /\ Shape(Closed(done(t))) /\ Uncounted(done(t), Closed(done(t)))
      BY <2>1, Closes
    <2> QED BY <2>1, <2>2 DEF Uncounted
  <1>3. CASE ReleaseTask(r)
    <2>1. Returns(r, Closed(done("release")))
      BY <1>3 DEF ReleaseTask
    <2>2. active' \in 0..active /\ quiet' \in 0..QuietMinutes /\ uncounted' \in Nat
          /\ req' = [req EXCEPT ![r] = Closed(done("release"))]
      BY <2>1, Returned
    <2>3. rules' \in BOOLEAN /\ minute' \in Minutes /\ faults' \in 0..MaxFaults /\ repair' \in Repair
          /\ UNCHANGED <<rates, spent>>
      BY <1>3, Parts DEF ReleaseTask
    <2> HIDE DEF done
    <2> QED BY <1>2, <2>2, <2>3, InvKeptOne
  <1>4. CASE TaskFails(r)
    <2>1. PICK t \in Tasks :
            /\ Ready(r, t) /\ Fault
            /\ req' = [req EXCEPT ![r] = IF t = "release" THEN Closed(Done(@, t)) ELSE Done(@, t)]
      BY <1>4 DEF TaskFails
    <2>2. req' = [req EXCEPT ![r] = Closed(done(t))] \/ req' = [req EXCEPT ![r] = done(t)]
      BY <2>1, Parts
    <2>3. faults' \in 0..MaxFaults /\ UNCHANGED <<rules, active, quiet, rates, spent, minute, repair, uncounted>>
      BY <1>4, <2>1, Faults DEF TaskFails
    <2> HIDE DEF done
    <2> QED BY <1>2, <2>2, <2>3, InvStill
  <1> QED BY <1>3, <1>4

\* The three ends of the repair's statement are its own.
RepairStep == ReconcileReads \/ ReconcileWrites \/ ReconcileFails

\* What the repair changes: a write leaves the count at 0.
LEMMA RepairChanges ==
  ASSUME Inv, RepairStep
  PROVE  /\ active' \in 0..active /\ quiet' \in 0..QuietMinutes /\ uncounted' \in Nat
         /\ repair' \in Repair /\ faults' \in 0..MaxFaults
         /\ UNCHANGED <<rules, rates, spent, minute, req>>
  <1>1. NoRepair \in Repair /\ [NoRepair EXCEPT !.waits = TRUE] \in Repair
    <2>1. 0 \in 0..MaxWait
      BY BoundsAssumption
    <2>2. NoRepair \in Repair
      BY <2>1 DEF NoRepair, Repair
    <2> QED BY <2>2 DEF Repair
  <1>2. CASE ReconcileReads
    BY <1>1, <1>2, Parts DEF ReconcileReads
  <1>3. CASE ReconcileFails
    BY <1>1, <1>3, Parts, Faults DEF ReconcileFails
  <1>4. CASE ReconcileWrites
    <2>1. /\ repair' = NoRepair /\ UNCHANGED <<rules, rates, spent, minute, req, faults>>
          /\ Repaired \/ UNCHANGED <<active, quiet, uncounted>>
      BY <1>4 DEF ReconcileWrites
    <2>2. CASE Repaired
      <3>1. active' = 0
        BY <2>2, FS_EmptySet DEF Repaired, Started
      <3>2. quiet' \in 0..QuietMinutes
        <4>1. repair.since \in Nat
          BY Parts, BoundsAssumption DEF Repair
        <4> QED BY <2>2, <4>1, Quiet DEF Repaired
      <3>3. uncounted' \in Nat
        BY <2>2, Finite DEF Repaired, AtRisk, Live
      <3> QED BY <1>1, <2>1, <3>1, <3>2, <3>3, Parts
    <2>3. CASE UNCHANGED <<active, quiet, uncounted>>
      BY <1>1, <2>1, <2>3, Parts
    <2> QED BY <2>1, <2>2, <2>3
  <1> QED BY <1>2, <1>3, <1>4 DEF RepairStep

\* A minute that passes for the requests that are under way.
LEMMA Ticks ==
  ASSUME Inv, Tick
  PROVE  /\ quiet' \in 0..QuietMinutes /\ quiet' <= quiet + 1
         /\ minute' \in Minutes /\ repair' \in Repair
         /\ repair'.waits = repair.waits /\ repair'.late = repair.late
         /\ req' \in [Requests -> Request]
         /\ \A r \in Requests :
              /\ req'[r] = [req[r] EXCEPT !.age = req'[r].age]
              /\ req'[r].age \in {req[r].age, req[r].age + 1}
              /\ r \in Live => req'[r].age = req[r].age + 1
              /\ r \in Admitting => req'[r].age <= MaxWait
              /\ r \notin Admitting \cup Live => req'[r].age = req[r].age
         /\ UNCHANGED <<rules, active, rates, spent, uncounted, faults>>
  <1>1. quiet' \in 0..QuietMinutes /\ quiet' <= quiet + 1
    <2>1. quiet + 1 \in Nat
      BY Parts, BoundsAssumption
    <2> QED BY <2>1, Quiet DEF Tick
  <1>2. minute' \in Minutes
    BY Parts, BoundsAssumption DEF Tick, Minutes
  <1>3. repair' \in Repair /\ repair'.waits = repair.waits /\ repair'.late = repair.late
    <2>1. CASE repair.waits
      <3>1. repair' = [repair EXCEPT !.since = @ + 1] /\ repair.since < MaxWait
        BY <2>1 DEF Tick
      <3>2. repair.since + 1 \in 0..MaxWait
        BY <3>1, Parts, BoundsAssumption DEF Repair
      <3> QED BY <3>1, <3>2, Parts DEF Repair
    <2>2. CASE ~ repair.waits
      BY <2>2, Parts DEF Tick
    <2> QED BY <2>1, <2>2
  <1>4. ASSUME NEW r \in Requests
        PROVE  /\ req'[r] \in Request
               /\ req'[r] = [req[r] EXCEPT !.age = req'[r].age]
               /\ req'[r].age \in {req[r].age, req[r].age + 1}
               /\ r \in Live => req'[r].age = req[r].age + 1
               /\ r \in Admitting => req'[r].age <= MaxWait
               /\ r \notin Admitting \cup Live => req'[r].age = req[r].age
    <2>1. req[r] \in Request
      BY Parts
    <2>2. CASE r \in Admitting \cup Live
      <3>1. req'[r] = [req[r] EXCEPT !.age = @ + 1]
        BY <2>2 DEF Tick
      <3>2. req[r].age \in 0..MaxLife /\ req[r].age < MaxLife /\ (r \in Admitting => req[r].age < MaxWait)
        BY <2>1, <2>2 DEF Tick, Request
      <3>3. req[r].age + 1 \in 0..MaxLife /\ (r \in Admitting => req[r].age + 1 <= MaxWait)
        BY <3>2, BoundsAssumption
      <3>4. /\ req'[r].age = req[r].age + 1 /\ req'[r] \in Request
            /\ req'[r] = [req[r] EXCEPT !.age = req'[r].age]
        BY <2>1, <3>1, <3>3 DEF Request
      <3> QED BY <2>2, <3>3, <3>4
    <2>3. CASE r \notin Admitting \cup Live
      <3>1. req'[r] = req[r]
        BY <2>3 DEF Tick
      <3> QED BY <2>1, <2>3, <3>1 DEF Request
    <2> QED BY <2>2, <2>3
  <1>5. req' = [r \in Requests |-> req'[r]]
    BY DEF Tick
  <1>6. req' \in [Requests -> Request]
    BY <1>4, <1>5
  <1> QED BY <1>1, <1>2, <1>3, <1>4, <1>6 DEF Tick

\* The steps that no single request takes.
LEMMA OtherInv ==
  ASSUME Inv, SwitchLimits \/ RepairStep \/ Tick \/ \E g \in Gateways : Crash(g)
  PROVE  Inv'
  <1>1. \A r \in Requests : Uncounted(req[r], req[r]) /\ Shape(req[r])
    BY Parts DEF Uncounted
  <1>2. CASE SwitchLimits
    <2>1. active' \in 0..active /\ quiet' \in 0..QuietMinutes /\ rules' \in BOOLEAN /\ minute' \in Minutes
          /\ repair' \in Repair /\ uncounted' \in Nat /\ UNCHANGED <<rates, spent>> /\ req' = req
      BY <1>2, Parts DEF SwitchLimits
    <2>2. faults' \in 0..MaxFaults
      BY <1>2, Faults DEF SwitchLimits
    <2> QED BY <1>1, <2>1, <2>2, Parts, InvKept
  <1>3. CASE RepairStep
    <2>1. /\ active' \in 0..active /\ quiet' \in 0..QuietMinutes /\ uncounted' \in Nat
          /\ repair' \in Repair /\ faults' \in 0..MaxFaults
          /\ UNCHANGED <<rules, rates, spent, minute, req>>
      BY <1>3, RepairChanges
    <2>2. rules' \in BOOLEAN /\ minute' \in Minutes /\ req' \in [Requests -> Request]
      BY <2>1, Parts
    <2> QED BY <1>1, <2>1, <2>2, InvKept
  <1>4. CASE Tick
    <2>1. active' \in 0..active /\ rules' \in BOOLEAN /\ faults' \in 0..MaxFaults /\ uncounted' \in Nat
          /\ UNCHANGED <<rates, spent>>
      BY <1>4, Parts DEF Tick
    <2>2. quiet' \in 0..QuietMinutes /\ minute' \in Minutes /\ repair' \in Repair /\ req' \in [Requests -> Request]
      BY <1>4, Ticks
    <2>3. ASSUME NEW r \in Requests
          PROVE  Uncounted(req[r], req'[r]) /\ Shape(req'[r])
      <3>1. req[r] \in Request /\ Shape(req[r])
        BY Parts
      <3>2. req'[r] = [req[r] EXCEPT !.age = req'[r].age]
        BY <1>4, Ticks
      <3> QED BY <3>1, <3>2 DEF Request, Uncounted, Shape
    <2> QED BY <2>1, <2>2, <2>3, InvKept
  <1>5. CASE \E g \in Gateways : Crash(g)
    <2>1. PICK g \in Gateways : Crash(g)
      BY <1>5
    <2>2. active' \in 0..active /\ quiet' \in 0..QuietMinutes /\ rules' \in BOOLEAN /\ minute' \in Minutes
          /\ repair' \in Repair /\ uncounted' \in Nat /\ UNCHANGED <<rates, spent>>
      BY <2>1, Parts DEF Crash
    <2>3. faults' \in 0..MaxFaults
      BY <2>1, Faults DEF Crash
    <2>4. ASSUME NEW r \in Requests
          PROVE  req'[r] \in Request /\ Uncounted(req[r], req'[r]) /\ Shape(req'[r])
      <3>1. req[r] \in Request /\ Shape(req[r])
        BY Parts
      <3>2. CASE GatewayOf[r] # g \/ req[r].pc = "new"
        BY <2>1, <3>1, <3>2 DEF Crash, Uncounted
      <3>3. CASE ~ (GatewayOf[r] # g \/ req[r].pc = "new")
        <4> DEFINE c == Closed(req[r])
        <4>1. req'[r] = [c EXCEPT !.tasks = {}]
          BY <2>1, <3>3 DEF Crash
        <4>2. c \in Request /\ Shape(c) /\ Uncounted(req[r], c)
          BY <3>1, Closes
        <4> HIDE DEF c
        <4> QED BY <4>1, <4>2 DEF Request, Uncounted, Shape
      <3> QED BY <3>2, <3>3
    <2>5. req' = [r \in Requests |-> req'[r]]
      BY <2>1 DEF Crash
    <2>6. req' \in [Requests -> Request]
      BY <2>4, <2>5
    <2> QED BY <2>2, <2>3, <2>4, <2>6, InvKept
  <1> QED BY <1>2, <1>3, <1>4, <1>5

----------------------------------------------------------------------------
(* An admission that counts, and a settlement. *)

\* The request as its admission leaves it.
AdmittedRequest(r) == [req[r] EXCEPT !.pc = "calling", !.locks = FALSE, !.counted = TRUE, !.lease = Leases]
LostRequest(r) == [Closed(req[r]) EXCEPT !.counted = TRUE]

\* What an admission changes.
LEMMA Admission ==
  ASSUME Inv, NEW r \in Requests, CountRates(r), Admitted(r)
  PROVE  /\ rates' = Incremented(r, Counted)
         /\ active' = (IF Leases THEN active + 1 ELSE active)
         /\ quiet' = (IF Leases THEN QuietFor(req[r].age) ELSE quiet)
         /\ repair' = (IF repair.waits THEN [repair EXCEPT !.late = @ \cup {r}] ELSE repair)
         /\ \/ req' = [req EXCEPT ![r] = AdmittedRequest(r)] /\ UNCHANGED faults
            \/ req' = [req EXCEPT ![r] = LostRequest(r)] /\ Fault
         /\ UNCHANGED <<rules, spent, minute, uncounted>>
  BY DEF CountRates, RatesAfter, AdmittedRequest, LostRequest

\* Its windows grow by one and by its tokens, and the others stay.
LEMMA Increments ==
  ASSUME Inv, NEW r \in Requests
  PROVE  /\ Incremented(r, Counted) \in [Minutes -> [rpm : Nat, tpm : Nat]]
         /\ \A m \in Minutes : m # req[r].minute => Incremented(r, Counted)[m] = rates[m]
         /\ "rpm" \in Counted =>
              Incremented(r, Counted)[req[r].minute].rpm = rates[req[r].minute].rpm + 1
         /\ "tpm" \in Counted =>
              Incremented(r, Counted)[req[r].minute].tpm = rates[req[r].minute].tpm + Tokens[r]
  <1> DEFINE m == req[r].minute
             next == [rpm |-> IF "rpm" \in Counted THEN rates[m].rpm + 1 ELSE rates[m].rpm,
                      tpm |-> IF "tpm" \in Counted THEN rates[m].tpm + Tokens[r] ELSE rates[m].tpm]
  <1>1. m \in Minutes
    BY Parts DEF Request
  <1>2. rates \in [Minutes -> [rpm : Nat, tpm : Nat]] /\ Tokens[r] \in Nat
    BY RequestsAssumption DEF Inv, TypeOK
  <1>3. next \in [rpm : Nat, tpm : Nat]
    BY <1>1, <1>2
  <1>4. Incremented(r, Counted) = [rates EXCEPT ![m] = next]
    BY <1>1, <1>2 DEF Incremented
  <1> HIDE DEF m
  <1>5. next.rpm = (IF "rpm" \in Counted THEN rates[m].rpm + 1 ELSE rates[m].rpm)
        /\ next.tpm = (IF "tpm" \in Counted THEN rates[m].tpm + Tokens[r] ELSE rates[m].tpm)
    OBVIOUS
  <1> HIDE DEF next
  <1> QED BY <1>1, <1>2, <1>3, <1>4, <1>5 DEF m

LEMMA AdmittedShapes ==
  ASSUME Inv, NEW r \in Requests, req[r].pc = "counting",
         NEW q \in {AdmittedRequest(r), LostRequest(r)}
  PROVE  /\ q \in Request /\ Shape(q)
         /\ q.counted /\ q.minute = req[r].minute /\ q.settled = req[r].settled
  <1>1. req[r] \in Request /\ Shape(req[r]) /\ 0 \in 0..MaxLife
    BY Parts, BoundsAssumption
  <1>2. Leases \in BOOLEAN
    BY DEF Leases
  <1>3. CASE q = AdmittedRequest(r)
    BY <1>1, <1>2, <1>3 DEF Request, Shape, AdmittedRequest
  <1>4. CASE q = LostRequest(r)
    <2> DEFINE c == Closed(req[r])
    <2>1. c \in Request /\ Shape(c) /\ c.pc = "closed" /\ c.minute = req[r].minute
          /\ c.settled = req[r].settled
      BY <1>1, Closes DEF Closed, Request
    <2>2. q = [c EXCEPT !.counted = TRUE]
      BY <1>4 DEF LostRequest
    <2> HIDE DEF c
    <2> QED BY <2>1, <2>2 DEF Request, Shape
  <1> QED BY <1>3, <1>4

LEMMA CountRatesInv ==
  ASSUME Inv, NEW r \in Requests, CountRates(r)
  PROVE  Inv'
  <1> DEFINE now == req[r].minute
  <1>1. req[r] \in Request /\ Shape(req[r]) /\ req[r].pc = "counting" /\ now \in Minutes
    BY Parts DEF CountRates, Request
  <1>2. CASE ~ Admitted(r)
    <2>1. req' = [req EXCEPT ![r] = Closed(req[r])] /\ faults' \in 0..MaxFaults
          /\ UNCHANGED <<rules, active, quiet, rates, spent, minute, repair, uncounted>>
      BY <1>2, Parts DEF CountRates, RatesAfter
    <2> QED BY <1>1, <2>1, Closes, InvStill
  <1>3. CASE Admitted(r)
    <2>1. PICK q \in {AdmittedRequest(r), LostRequest(r)} : req' = [req EXCEPT ![r] = q]
      BY <1>3, Admission
    <2>2. /\ q \in Request /\ Shape(q)
          /\ q.counted /\ q.minute = now /\ q.settled = req[r].settled
      BY <1>1, AdmittedShapes
    <2>3. ~ req[r].counted /\ ~ req[r].settled
      BY <1>1 DEF Shape
    <2>4. req \in [Requests -> Request]
      BY Parts
    <2>5. CountedRequests' = CountedRequests \cup {r} /\ r \notin CountedRequests
      BY <2>1, <2>2, <2>3, <2>4 DEF CountedRequests
    <2>6. CountedIn(now)' = CountedIn(now) \cup {r} /\ r \notin CountedIn(now)
      <3>1. now' = now
        BY <2>1, <2>2, <2>4
      <3> HIDE DEF now
      <3>2. {x \in Requests : req'[x].counted /\ req'[x].minute = now} = CountedIn(now) \cup {r}
        BY <2>1, <2>2, <2>4 DEF CountedIn
      <3> QED BY <2>3, <3>1, <3>2 DEF CountedIn
    <2>7. \A m : m # now => CountedIn(m)' = CountedIn(m)
      BY <2>1, <2>2, <2>3, <2>4 DEF CountedIn
    <2>8. \A p : SettledIn(p)' = SettledIn(p)
      BY <2>1, <2>2, <2>3, <2>4 DEF SettledIn
    <2>9. active' <= Cardinality(CountedRequests)'
      <3>1. active <= Cardinality(CountedRequests) /\ active \in Nat /\ Cardinality(CountedRequests) \in Nat
        BY Parts, Finite DEF Inv, CountedRequests
      <3>2. Cardinality(CountedRequests)' = Cardinality(CountedRequests) + 1
        BY <2>5, OneMore DEF CountedRequests
      <3> QED BY <1>3, <3>1, <3>2, Admission
    <2>10. TypeOK'
      <3>1. active' \in Nat
        BY <1>3, Parts, Admission
      <3>2. Cardinality(CountedRequests)' <= Cardinality(Requests)
            /\ Cardinality(CountedRequests)' \in Nat /\ Cardinality(Requests) \in Nat
        <4>1. CountedRequests' \in SUBSET Requests
          BY DEF CountedRequests
        <4> QED BY <4>1, Finite
      <3>3. active' \in 0..Cardinality(Requests)
        BY <2>9, <3>1, <3>2
      <3>4. quiet' \in 0..QuietMinutes /\ repair' \in Repair
        <4>1. req[r].age \in Nat
          BY <1>1, BoundsAssumption DEF Request
        <4>2. QuietFor(req[r].age) \in 0..QuietMinutes /\ quiet \in 0..QuietMinutes
          BY <4>1, Quiet, Parts
        <4>3. repair' \in Repair
          BY <1>3, Parts, Admission DEF Repair
        <4> QED BY <1>3, <4>2, <4>3, Admission
      <3>5. rates' \in [Minutes -> [rpm : Nat, tpm : Nat]]
        BY <1>3, Admission, Increments
      <3>6. req' \in [Requests -> Request]
        BY <2>1, <2>2, <2>4
      <3>7. faults' \in 0..MaxFaults
        BY <1>3, Parts, Admission, Faults
      <3>8. UNCHANGED <<rules, spent, minute, uncounted>>
        BY <1>3, Admission
      <3> QED BY <3>3, <3>4, <3>5, <3>6, <3>7, <3>8 DEF Inv, TypeOK
    <2>11. (\A x \in Requests : Shape(req[x]))'
      BY <2>1, <2>2, <2>4, Parts
    <2>12. RatesSum'
      <3>1. rates' = Incremented(r, Counted)
        BY <1>3, Admission
      <3>2. Cardinality(CountedIn(now))' = Cardinality(CountedIn(now)) + 1
        BY <2>6, OneMore DEF CountedIn
      <3>3. Sum(Tokens, CountedIn(now) \cup {r}) = Sum(Tokens, CountedIn(now)) + Tokens[r]
        BY <2>6, SumGrows DEF CountedIn
      <3> HIDE DEF now
      <3>4. ASSUME NEW m \in Minutes
            PROVE  /\ "rpm" \in Counted => rates'[m].rpm = Cardinality(CountedIn(m)')
                   /\ "tpm" \in Counted => rates'[m].tpm = Sum(Tokens, CountedIn(m)')
        <4>1. CASE m # now
          BY <2>7, <3>1, <4>1, Increments DEF Inv, RatesSum, now
        <4>2. CASE m = now
          <5>1. /\ "rpm" \in Counted => rates'[now].rpm = rates[now].rpm + 1
                /\ "tpm" \in Counted => rates'[now].tpm = rates[now].tpm + Tokens[r]
            BY <3>1, Increments DEF now
          <5>2. /\ "rpm" \in Counted => rates[now].rpm = Cardinality(CountedIn(now))
                /\ "tpm" \in Counted => rates[now].tpm = Sum(Tokens, CountedIn(now))
            BY <4>2 DEF Inv, RatesSum
          <5>3. CountedIn(m)' = CountedIn(now) \cup {r}
            BY <2>1, <2>2, <2>4, <4>2 DEF CountedIn
          <5>4. Cardinality(CountedIn(now) \cup {r}) = Cardinality(CountedIn(now)) + 1
            BY <2>6, OneMore DEF CountedIn
          <5> QED BY <3>3, <4>2, <5>1, <5>2, <5>3, <5>4
        <4> QED BY <4>1, <4>2
      <3> QED BY <3>4 DEF RatesSum
    <2>13. RatesEnforced'
      <3>1. rates' = Incremented(r, Counted)
        BY <1>3, Admission
      <3>2. ASSUME NEW m \in Minutes, NEW t \in Counted \ (Lenient \cup {"concurrency"})
            PROVE  rates'[m][t] <= Limit[t]
        <4>1. CASE m # now
          BY <3>1, <3>2, <4>1, Increments DEF Inv, RatesEnforced
        <4>2. CASE m = now
          <5>1. Admits(r, t) /\ t \in {"rpm", "tpm"}
            BY <1>3, <3>2 DEF Admitted, Counted, RateTypes
          <5>2. rates[now][t] + Increment(r, t) <= Limit[t]
            BY <3>2, <5>1 DEF Admits, Count
          <5>3. rates'[now][t] = rates[now][t] + Increment(r, t)
            BY <3>1, <3>2, <5>1, Increments DEF Increment
          <5> QED BY <4>2, <5>2, <5>3
        <4> QED BY <4>1, <4>2
      <3> QED BY <3>2 DEF RatesEnforced
    <2>14. CostsSum'
      BY <1>3, <2>8, Admission DEF Inv, CostsSum
    <2> QED BY <2>9, <2>10, <2>11, <2>12, <2>13, <2>14 DEF Inv
  <1> QED BY <1>2, <1>3

LEMMA SettleInv ==
  ASSUME Inv, NEW r \in Requests, SettleTask(r)
  PROVE  Inv'
  <1> DEFINE q == req[r]
             done == Done(q, "settle")
             new == [done EXCEPT !.settled = TRUE]
             p == Period(q.minute)
  <1>1. q \in Request /\ Shape(q) /\ q.pc = "closed" /\ "settle" \in q.tasks /\ q.minute \in Minutes
    BY Parts DEF SettleTask, Ready, Request
  <1>2. ~ q.settled
    BY <1>1 DEF Shape
  <1>3. new \in Request /\ Shape(new) /\ new.settled /\ new.counted = q.counted /\ new.minute = q.minute
    BY <1>1 DEF Request, Shape, Done
  <1>4. req' = [req EXCEPT ![r] = new] /\ req \in [Requests -> Request]
    BY Parts DEF SettleTask
  <1>5. spent' = [spent EXCEPT ![p] = @ + IF r \in Unpriced THEN 0 ELSE Cost[r]]
        /\ UNCHANGED <<rules, active, quiet, rates, minute, repair, uncounted, faults>>
    BY DEF SettleTask, SettledPeriod
  <1>6. spent \in [{Period(m) : m \in Minutes} -> Nat] /\ Cost[r] \in Nat
    BY RequestsAssumption DEF Inv, TypeOK
  <1>7. p \in {Period(m) : m \in Minutes}
    BY <1>1
  <1> HIDE DEF new
  <1>8. CountedRequests' = CountedRequests /\ \A m : CountedIn(m)' = CountedIn(m)
    BY <1>3, <1>4 DEF CountedRequests, CountedIn
  <1>9. TypeOK'
    BY <1>3, <1>4, <1>5, <1>6, <1>7 DEF Inv, TypeOK
  <1>10. (\A x \in Requests : Shape(req[x]))'
    BY <1>3, <1>4, Parts
  <1>11. RatesSum' /\ RatesEnforced' /\ active' <= Cardinality(CountedRequests)'
    BY <1>5, <1>8 DEF Inv, RatesSum, RatesEnforced
  <1>12. ASSUME NEW k \in {Period(m) : m \in Minutes}
         PROVE  spent'[k] = Sum(Cost, SettledIn(k)')
    <2> HIDE DEF p
    <2>1. spent[k] = Sum(Cost, SettledIn(k))
      BY DEF Inv, CostsSum
    <2>2. CASE k # p \/ r \in Unpriced
      <3>1. SettledIn(k)' = SettledIn(k)
        BY <1>2, <1>3, <1>4, <2>2 DEF SettledIn, p
      <3>2. spent'[k] = spent[k]
        BY <1>5, <1>6, <1>7, <2>2
      <3> QED BY <2>1, <3>1, <3>2
    <2>3. CASE k = p /\ r \notin Unpriced
      <3>1. SettledIn(k)' = SettledIn(k) \cup {r} /\ r \notin SettledIn(k)
        BY <1>2, <1>3, <1>4, <2>3 DEF SettledIn, p
      <3>2. spent'[k] = spent[k] + Cost[r]
        BY <1>5, <1>6, <1>7, <2>3
      <3>3. Sum(Cost, SettledIn(k) \cup {r}) = Sum(Cost, SettledIn(k)) + Cost[r]
        BY <3>1, SumGrows DEF SettledIn
      <3> QED BY <2>1, <3>1, <3>2, <3>3
    <2> QED BY <2>2, <2>3
  <1>13. CostsSum'
    BY <1>12 DEF CostsSum
  <1> QED BY <1>9, <1>10, <1>11, <1>13 DEF Inv

LEMMA InvNext == Inv /\ [Next]_vars => Inv'
  <1> SUFFICES ASSUME Inv, [Next]_vars PROVE Inv'
    OBVIOUS
  <1>1. CASE \E r \in Requests : Step(r)
    <2>1. PICK r \in Requests : Step(r)
      BY <1>1
    <2>2. CASE Begin(r) \/ CheckBudget(r) \/ AdmissionFails(r)
      BY <2>2, AdmissionInv
    <2>3. CASE CountRates(r)
      BY <2>3, CountRatesInv
    <2>4. CASE JsonAnswer(r) \/ StreamAnswer(r) \/ StreamEnds(r)
      BY <2>4, AnswerInv
    <2>5. CASE Release(r) \/ ReleaseFails(r)
      BY <2>5, ReleaseInv
    <2>6. CASE ReleaseTask(r) \/ TaskFails(r)
      BY <2>6, TaskInv
    <2>7. CASE SettleTask(r)
      BY <2>7, SettleInv
    <2> QED BY <2>1, <2>2, <2>3, <2>4, <2>5, <2>6, <2>7 DEF Step
  <1>2. CASE SwitchLimits \/ RepairStep \/ Tick \/ \E g \in Gateways : Crash(g)
    BY <1>2, OtherInv
  <1>3. CASE UNCHANGED vars
    <2>1. req' = req /\ UNCHANGED <<rates, spent>>
      BY <1>3 DEF vars
    <2>2. \A r \in Requests : Uncounted(req[r], req'[r]) /\ Shape(req'[r])
      BY <2>1, Parts DEF Uncounted
    <2>3. active' \in 0..active /\ quiet' \in 0..QuietMinutes /\ rules' \in BOOLEAN
          /\ minute' \in Minutes /\ faults' \in 0..MaxFaults /\ req' \in [Requests -> Request]
          /\ repair' \in Repair /\ uncounted' \in Nat
      BY <1>3, Parts DEF vars
    <2> QED BY <2>1, <2>2, <2>3, InvKept
  <1> QED BY <1>1, <1>2, <1>3 DEF Next, RepairStep

LEMMA InvInit == Init => Inv
  <1> SUFFICES ASSUME Init PROVE Inv
    OBVIOUS
  <1>1. 0 \in Minutes /\ 0 \in 0..QuietMinutes /\ 0 \in 0..MaxFaults /\ 0 \in 0..MaxLife
    BY BoundsAssumption DEF Minutes
  <1>2. ASSUME NEW r \in Requests PROVE req[r] \in Request /\ Shape(req[r]) /\ ~ req[r].counted /\ ~ req[r].settled
    BY <1>1 DEF Init, Request, Shape
  <1>3. req \in [Requests -> Request]
    <2>1. req = [r \in Requests |-> req[r]]
      BY DEF Init
    <2> QED BY <1>2, <2>1
  <1>4. CountedRequests = {} /\ (\A m : CountedIn(m) = {}) /\ (\A p : SettledIn(p) = {})
    BY <1>2 DEF CountedRequests, CountedIn, SettledIn
  <1>5. Cardinality({}) = 0 /\ Cardinality(Requests) \in Nat
    BY FS_EmptySet, Finite
  <1>6. TypeOK
    <2>1. NoRepair \in Repair
      BY BoundsAssumption DEF NoRepair, Repair
    <2> QED BY <1>1, <1>3, <1>5, <2>1 DEF Init, TypeOK
  <1>7. RatesSum
    <2>1. \A m \in Minutes : rates[m].rpm = 0 /\ rates[m].tpm = 0
      BY DEF Init
    <2> QED BY <1>4, <1>5, <2>1, SumEmpty DEF RatesSum
  <1>8. RatesEnforced
    <2>1. ASSUME NEW m \in Minutes, NEW t \in Counted \ (Lenient \cup {"concurrency"})
          PROVE  rates[m][t] <= Limit[t]
      <3>1. t \in {"rpm", "tpm"} /\ Limit[t] \in Nat
        BY LimitAssumption DEF Counted, RateTypes, LimitTypes
      <3>2. rates[m][t] = 0
        BY <3>1 DEF Init
      <3> QED BY <3>1, <3>2
    <2> QED BY <2>1 DEF RatesEnforced
  <1>9. CostsSum
    <2>1. \A p \in {Period(m) : m \in Minutes} : spent[p] = 0
      BY DEF Init
    <2> QED BY <1>4, <2>1, SumEmpty DEF CostsSum
  <1>10. active <= Cardinality(CountedRequests)
    BY <1>4, <1>5 DEF Init
  <1> QED BY <1>2, <1>6, <1>7, <1>8, <1>9, <1>10 DEF Inv

LEMMA InvHolds == Spec => []Inv
  BY InvInit, InvNext, PTL DEF Spec

----------------------------------------------------------------------------
(* The leases. *)

\* An admission lasts no longer than MaxWait.
Waiting(q) == q.pc \in {"new", "checking", "counting"} => q.age <= MaxWait

\* As old as the quiet period, but for the time a transaction may take.
Old(q) == QuietMinutes <= q.age + MaxWait

\* A count that is not 0 was changed after the leases that are held began, or by one that
\* waited for the row; so a repair that found it quiet finds only old leases, and those
\* that came since.
Watched ==
  /\ active # 0 => \A r \in Live : quiet <= req[r].age + MaxWait
  /\ repair.waits => \A r \in Live : r \in repair.late \/ Old(req[r])

LeaseInv ==
  /\ \A r \in Requests : Waiting(req[r])
  /\ Watched
  /\ CountCoversLeases
  /\ ConcurrencyEnforced

LEMMA LiveFinite ==
  ASSUME NEW S \in SUBSET Live
  PROVE  /\ IsFiniteSet(S) /\ Cardinality(S) \in Nat /\ Cardinality(Live) \in Nat
         /\ Cardinality(S) <= Cardinality(Live)
         /\ \A r \in Live \ S : Cardinality(S) + 1 <= Cardinality(Live)
  <1>1. Live \subseteq Requests
    BY DEF Live
  <1>2. IsFiniteSet(Live) /\ IsFiniteSet(S)
    BY <1>1, Finite
  <1>3. Cardinality(S) \in Nat /\ Cardinality(Live) \in Nat /\ Cardinality(S) <= Cardinality(Live)
    BY <1>2, FS_Subset, FS_CardinalityType
  <1>4. ASSUME NEW r \in Live \ S PROVE Cardinality(S) + 1 <= Cardinality(Live)
    <2>1. S \cup {r} \in SUBSET Live
      OBVIOUS
    <2>2. Cardinality(S \cup {r}) <= Cardinality(Live)
      BY <1>2, <2>1, FS_Subset
    <2>3. Cardinality(S \cup {r}) = Cardinality(S) + 1
      BY <1>1, OneMore
    <2> QED BY <2>2, <2>3
  <1> QED BY <1>2, <1>3, <1>4

\* The numbers that the bounds compare.
LEMMA Numbers ==
  ASSUME Inv, LeaseInv
  PROVE  /\ active \in Nat /\ uncounted \in Nat /\ quiet \in Nat /\ MaxWait \in Nat /\ QuietMinutes \in Nat
         /\ Cardinality(Live) \in Nat /\ Cardinality(Live) <= active + uncounted
         /\ \A r \in Requests : req[r].age \in Nat
         /\ Leases /\ "concurrency" \notin Lenient =>
              Limit["concurrency"] \in Nat /\ Cardinality(Live) <= Limit["concurrency"] + uncounted
  <1>1. \A r \in Requests : req[r].age \in Nat
    BY Parts, BoundsAssumption DEF Request
  <1>2. Leases => Limit["concurrency"] \in Nat
    BY LimitAssumption DEF Leases, Counted, LimitTypes, RateTypes
  <1> QED BY <1>1, <1>2, Parts, BoundsAssumption, LiveFinite
          DEF LeaseInv, CountCoversLeases, ConcurrencyEnforced

\* The bounds survive a step that takes no lease, if the count falls with a lease, or what
\* it may lack grows.
LEMMA FewerLeases ==
  ASSUME Inv, LeaseInv, Live' \subseteq Live, active' \in Nat, uncounted' \in Nat,
         \/ active' = active /\ uncounted' = uncounted
         \/ active' + 1 = active /\ uncounted' = uncounted + 1
         \/ /\ \E r \in Live : r \notin Live'
            /\ \/ active' + 1 = active /\ uncounted' = uncounted
               \/ active' = active /\ uncounted' + 1 = uncounted
  PROVE  CountCoversLeases' /\ ConcurrencyEnforced'
  <1>1. /\ Cardinality(Live') \in Nat /\ Cardinality(Live') <= Cardinality(Live)
        /\ (\E r \in Live : r \notin Live') => Cardinality(Live') + 1 <= Cardinality(Live)
    BY LiveFinite
  <1>2. Cardinality(Live') <= active' + uncounted'
    BY <1>1, Numbers
  <1>3. ASSUME Leases, "concurrency" \notin Lenient
        PROVE  Cardinality(Live') <= Limit["concurrency"] + uncounted'
    <2>1. Limit["concurrency"] \in Nat /\ Cardinality(Live) <= Limit["concurrency"] + uncounted
      BY <1>3, Numbers
    <2> QED BY <1>1, <2>1, Numbers
  <1> QED BY <1>2, <1>3 DEF CountCoversLeases, ConcurrencyEnforced

\* The watch survives a step that takes no lease and changes the row, if at all, by a
\* statement that did not wait longer than MaxWait.
LEMMA StillWatched ==
  ASSUME Inv, LeaseInv, Live' \subseteq Live, \A x \in Live' : req'[x].age = req[x].age,
         active' # 0 => active # 0, quiet' \in Nat, quiet' = quiet \/ quiet' <= MaxWait,
         repair' = repair
  PROVE  Watched'
  <1>1. ASSUME active' # 0, NEW x \in Live' PROVE quiet' <= req'[x].age + MaxWait
    <2>1. x \in Live /\ x \in Requests /\ req'[x].age = req[x].age
      BY <1>1 DEF Live
    <2>2. quiet <= req[x].age + MaxWait
      BY <1>1, <2>1 DEF LeaseInv, Watched
    <2>3. req[x].age \in Nat
      BY <2>1, Numbers
    <2> QED BY <2>1, <2>2, <2>3, Numbers
  <1>2. ASSUME repair'.waits, NEW x \in Live' PROVE x \in repair'.late \/ Old(req[x])'
    <2>1. x \in Live /\ req'[x].age = req[x].age
      BY <1>2
    <2>2. x \in repair.late \/ Old(req[x])
      BY <1>2, <2>1 DEF LeaseInv, Watched
    <2> QED BY <2>1, <2>2 DEF Old
  <1> QED BY <1>1, <1>2 DEF Watched

\* A step of one request that takes no lease.
LEMMA LeaseKeptOne ==
  ASSUME Inv, LeaseInv, NEW r \in Requests, NEW q \in Request, req' = [req EXCEPT ![r] = q],
         Waiting(q), q.lease => req[r].lease /\ q.age = req[r].age
  PROVE  /\ \A x \in Requests : Waiting(req'[x])
         /\ Live' \subseteq Live /\ \A x \in Live' : req'[x].age = req[x].age
         /\ req[r].lease /\ ~ q.lease => r \in Live /\ r \notin Live'
  <1>1. req \in [Requests -> Request]
    BY Parts
  <1>2. \A x \in Requests : Waiting(req'[x])
    BY <1>1 DEF LeaseInv
  <1>3. Live' \subseteq Live /\ (req[r].lease /\ ~ q.lease => r \in Live /\ r \notin Live')
    BY <1>1 DEF Live
  <1>4. ASSUME NEW x \in Live' PROVE req'[x].age = req[x].age
    BY <1>1, <1>4 DEF Live
  <1> QED BY <1>2, <1>3, <1>4

\* One that changes nothing else.
LEMMA LeaseStill ==
  ASSUME Inv, LeaseInv, NEW r \in Requests, NEW q \in Request, req' = [req EXCEPT ![r] = q],
         Waiting(q), q.lease => req[r].lease /\ q.age = req[r].age,
         UNCHANGED <<active, quiet, repair, uncounted>>
  PROVE  LeaseInv'
  <1>1. /\ \A x \in Requests : Waiting(req'[x])
        /\ Live' \subseteq Live /\ \A x \in Live' : req'[x].age = req[x].age
    BY LeaseKeptOne
  <1>2. active' \in Nat /\ uncounted' \in Nat /\ quiet' \in Nat
    BY Numbers
  <1>3. Watched'
    BY <1>1, <1>2, StillWatched
  <1>4. CountCoversLeases' /\ ConcurrencyEnforced'
    BY <1>1, <1>2, FewerLeases
  <1>5. (\A x \in Requests : Waiting(req[x]))'
    BY <1>1 DEF Waiting
  <1> QED BY <1>3, <1>4, <1>5 DEF LeaseInv

\* And one that gives back r's lease, or the lease of another if r's is gone.
LEMMA LeaseReturned ==
  ASSUME Inv, LeaseInv, NEW r \in Requests, NEW q \in Request, Returns(r, q), repair' = repair,
         ~ q.lease, Waiting(q)
  PROVE  LeaseInv'
  <1>1. req' = [req EXCEPT ![r] = q] /\ active' \in 0..active /\ uncounted' \in Nat
        /\ quiet' \in 0..QuietMinutes /\ (quiet' = quiet \/ quiet' <= MaxWait)
    BY Returned
  <1>2. /\ \A x \in Requests : Waiting(req'[x])
        /\ Live' \subseteq Live /\ \A x \in Live' : req'[x].age = req[x].age
        /\ req[r].lease => r \in Live /\ r \notin Live'
    BY <1>1, LeaseKeptOne
  <1>3. active' \in Nat /\ (active' # 0 => active # 0)
    BY <1>1, Numbers
  <1>4. quiet' \in Nat
    BY <1>1, Numbers
  <1>5. Watched'
    BY <1>1, <1>2, <1>3, <1>4, StillWatched
  <1>6. CASE Leased(r) /\ active > 0
    <2>1. active' + 1 = active /\ uncounted' = (IF req[r].lease THEN uncounted ELSE uncounted + 1)
      <3>1. active' = active - 1
        BY <1>6 DEF Returns, Decremented
      <3>2. uncounted' = (IF req[r].lease THEN uncounted ELSE uncounted + 1)
        BY <1>6, Numbers DEF Returns, UncountedAfter
      <3> QED BY <3>1, <3>2, Numbers
    <2>2. CountCoversLeases' /\ ConcurrencyEnforced'
      BY <1>1, <1>2, <1>3, <2>1, FewerLeases
    <2> QED BY <1>2, <1>5, <2>2 DEF LeaseInv
  <1>7. CASE Leased(r) /\ active = 0 /\ req[r].lease
    <2>1. 1 <= uncounted
      <3>1. r \in Live
        BY <1>2, <1>7
      <3>2. Cardinality({}) + 1 <= Cardinality(Live)
        BY <3>1, LiveFinite
      <3>3. Cardinality({}) = 0
        BY FS_EmptySet
      <3> QED BY <1>7, <3>2, <3>3, Numbers
    <2>2. active' = active
      BY <1>7 DEF Returns, Decremented
    <2>3. uncounted' = uncounted - 1
      BY <1>7, <2>1, Numbers DEF Returns, UncountedAfter
    <2>4. uncounted' + 1 = uncounted
      BY <2>3, Numbers
    <2>5. CountCoversLeases' /\ ConcurrencyEnforced'
      BY <1>1, <1>2, <1>3, <1>7, <2>2, <2>4, FewerLeases
    <2> QED BY <1>2, <1>5, <2>5 DEF LeaseInv
  <1>8. CASE ~ Leased(r) \/ (active = 0 /\ ~ req[r].lease)
    <2>1. active' = active /\ uncounted' = uncounted
      BY <1>8, Numbers DEF Returns, Decremented, UncountedAfter
    <2>2. CountCoversLeases' /\ ConcurrencyEnforced'
      BY <1>1, <1>2, <1>3, <2>1, FewerLeases
    <2> QED BY <1>2, <1>5, <2>2 DEF LeaseInv
  <1>9. active = 0 \/ active > 0
    BY Numbers
  <1> QED BY <1>6, <1>7, <1>8, <1>9

LEMMA HoldsNow ==
  ASSUME Inv, LeaseInv, NEW r \in Requests
  PROVE  /\ req[r] \in Request /\ Shape(req[r]) /\ Waiting(req[r])
         /\ req \in [Requests -> Request]
  BY Parts DEF LeaseInv

\* A request that is closed holds no lease.
LEMMA ClosedHolds ==
  ASSUME NEW q \in Request, Shape(q)
  PROVE  Closed(q) \in Request /\ Waiting(Closed(q)) /\ ~ Closed(q).lease
  <1>1. Closed(q) \in Request
    BY Closes
  <1> QED BY <1>1 DEF Waiting, Closed, Request

LEMMA AdmissionLeases ==
  ASSUME Inv, LeaseInv, NEW r \in Requests, Begin(r) \/ CheckBudget(r) \/ AdmissionFails(r)
  PROVE  LeaseInv'
  <1> DEFINE q == req[r]
  <1>1. q \in Request /\ Shape(q) /\ Waiting(q) /\ req \in [Requests -> Request]
    BY HoldsNow
  <1>2. CASE Begin(r)
    <2> DEFINE new == IF rules THEN [q EXCEPT !.pc = "checking", !.limited = TRUE, !.minute = minute]
                               ELSE [q EXCEPT !.pc = "calling"]
    <2>1. q.pc = "new"
      BY <1>2 DEF Begin
    <2>2. new \in Request /\ Waiting(new) /\ ~ new.lease
      BY <1>1, <2>1, Parts DEF Request, Shape, Waiting
    <2>3. req' = [req EXCEPT ![r] = new] /\ UNCHANGED <<active, quiet, repair, uncounted>>
      BY <1>1, <1>2 DEF Begin
    <2> HIDE DEF new
    <2> QED BY <2>2, <2>3, LeaseStill
  <1>3. CASE CheckBudget(r)
    <2> DEFINE counting == [q EXCEPT !.pc = "counting",
                              !.locks = ReadsBudget(r) /\ Opened(Period(req[r].minute))]
               closed == [q EXCEPT !.pc = "closed"]
    <2>1. q.pc = "checking"
      BY <1>3 DEF CheckBudget
    <2>2. counting \in Request /\ Waiting(counting) /\ ~ counting.lease
      <3>1. (ReadsBudget(r) /\ Opened(Period(req[r].minute))) \in BOOLEAN
        BY Zenon
      <3> QED BY <1>1, <2>1, <3>1 DEF Request, Shape, Waiting
    <2>3. closed \in Request /\ Waiting(closed) /\ ~ closed.lease
      BY <1>1, <2>1 DEF Request, Shape, Waiting
    <2>4. req' = [req EXCEPT ![r] = counting] \/ req' = [req EXCEPT ![r] = closed]
      BY <1>1, <1>3 DEF CheckBudget, Goes
    <2>5. UNCHANGED <<active, quiet, repair, uncounted>>
      BY <1>3 DEF CheckBudget
    <2> HIDE DEF counting, closed
    <2> QED BY <2>2, <2>3, <2>4, <2>5, LeaseStill
  <1>4. CASE AdmissionFails(r)
    <2>1. req' = [req EXCEPT ![r] = Closed(q)] /\ UNCHANGED <<active, quiet, repair, uncounted>>
      BY <1>4 DEF AdmissionFails
    <2>2. Closed(q) \in Request /\ Waiting(Closed(q)) /\ ~ Closed(q).lease
      BY <1>1, ClosedHolds
    <2> QED BY <2>1, <2>2, LeaseStill
  <1> QED BY <1>2, <1>3, <1>4

LEMMA AnswerLeases ==
  ASSUME Inv, LeaseInv, NEW r \in Requests, JsonAnswer(r) \/ StreamAnswer(r) \/ StreamEnds(r)
  PROVE  LeaseInv'
  <1> DEFINE q == req[r]
             Goes1(pc, ts) == [q EXCEPT !.pc = pc, !.tasks = ts]
  <1>1. q \in Request /\ req \in [Requests -> Request]
    BY HoldsNow
  <1>2. UNCHANGED <<active, quiet, repair, uncounted>>
    BY DEF JsonAnswer, StreamAnswer, StreamEnds
  <1>3. PICK pc \in {"streaming", "releasing", "again", "closed"}, ts \in SUBSET Tasks :
          req' = [req EXCEPT ![r] = Goes1(pc, ts)]
    <2>1. \A ok \in BOOLEAN : Earned(r, ok) \in SUBSET Tasks
      BY DEF Earned, Tasks
    <2>2. CASE JsonAnswer(r)
      <3>1. PICK ok \in BOOLEAN :
              req' = [req EXCEPT ![r].pc = "releasing", ![r].tasks = Earned(r, ok)]
        BY <2>2 DEF JsonAnswer
      <3>2. req' = [req EXCEPT ![r] = Goes1("releasing", Earned(r, ok))]
        BY <1>1, <3>1
      <3> QED BY <2>1, <3>2
    <2>3. CASE StreamAnswer(r)
      <3>1. PICK pc \in {"streaming", "releasing", "again"} : req' = [req EXCEPT ![r].pc = pc]
        BY <2>3 DEF StreamAnswer, Goes
      <3>2. [q EXCEPT !.pc = pc] = Goes1(pc, q.tasks) /\ q.tasks \in SUBSET Tasks
        BY <1>1 DEF Request
      <3>3. req' = [req EXCEPT ![r] = [q EXCEPT !.pc = pc]]
        BY <1>1, <3>1
      <3> QED BY <3>2, <3>3
    <2>4. CASE StreamEnds(r)
      <3> DEFINE Left(ok) == Earned(r, ok) \cup IF Leased(r) THEN {"release"} ELSE {}
      <3>1. PICK ok \in BOOLEAN :
              req' = [req EXCEPT ![r] = [@ EXCEPT !.pc = "closed", !.tasks = Left(ok)]]
        BY <2>4 DEF StreamEnds
      <3>2. req' = [req EXCEPT ![r] = Goes1("closed", Left(ok))]
        <4> HIDE DEF Left
        <4> QED BY <1>1, <3>1
      <3>3. Left(ok) \in SUBSET Tasks
        BY <2>1 DEF Tasks
      <3> HIDE DEF Left
      <3> QED BY <3>2, <3>3
    <2> QED BY <2>2, <2>3, <2>4
  <1>4. Goes1(pc, ts) \in Request /\ Waiting(Goes1(pc, ts))
        /\ Goes1(pc, ts).lease = q.lease /\ Goes1(pc, ts).age = q.age
    BY <1>1 DEF Request, Waiting
  <1> HIDE DEF Goes1
  <1> QED BY <1>2, <1>3, <1>4, LeaseStill

LEMMA ReleaseLeases ==
  ASSUME Inv, LeaseInv, NEW r \in Requests, Release(r) \/ ReleaseFails(r)
  PROVE  LeaseInv'
  <1> DEFINE q == req[r]
             after == AfterFailedRelease(r)
             lost == [after EXCEPT !.lease = FALSE, !.age = 0]
  <1>1. q \in Request /\ Shape(q) /\ req \in [Requests -> Request]
    BY HoldsNow
  <1>2. Closed(q) \in Request /\ Waiting(Closed(q)) /\ ~ Closed(q).lease
    BY <1>1, ClosedHolds
  <1>3. CASE Release(r)
    BY <1>2, <1>3, LeaseReturned DEF Release
  <1>4. CASE ReleaseFails(r)
    <2>1. after \in Request /\ Waiting(after) /\ (after.lease => q.lease /\ after.age = q.age)
          /\ after.pc \in {"again", "closed"}
      <3>1. CASE q.pc = "releasing" /\ r \in Streaming
        <4>1. after = [q EXCEPT !.pc = "again"]
          BY <3>1 DEF AfterFailedRelease
        <4> HIDE DEF after
        <4> QED BY <1>1, <4>1 DEF Request, Waiting
      <3>2. CASE ~ (q.pc = "releasing" /\ r \in Streaming)
        <4>1. after = Closed(q)
          BY <3>2 DEF AfterFailedRelease
        <4>2. Closed(q).pc = "closed"
          BY <1>1 DEF Closed, Request
        <4> HIDE DEF after
        <4> QED BY <1>2, <4>1, <4>2
      <3> QED BY <3>1, <3>2
    <2>2. lost \in Request /\ Waiting(lost) /\ ~ lost.lease
      <3>1. 0 \in 0..MaxLife
        BY BoundsAssumption
      <3> HIDE DEF after
      <3> QED BY <2>1, <3>1 DEF Request, Waiting
    <2>3. CASE req' = [req EXCEPT ![r] = after] /\ UNCHANGED <<active, quiet, uncounted>>
      <3>1. repair' = repair
        BY <1>4 DEF ReleaseFails
      <3> HIDE DEF after
      <3> QED BY <2>1, <2>3, <3>1, LeaseStill
    <2>4. CASE Returns(r, lost)
      <3>1. repair' = repair
        BY <1>4 DEF ReleaseFails
      <3> HIDE DEF lost
      <3> QED BY <2>2, <2>4, <3>1, LeaseReturned
    <2> QED BY <1>4, <2>3, <2>4 DEF ReleaseFails
  <1> QED BY <1>3, <1>4

LEMMA TaskLeases ==
  ASSUME Inv, LeaseInv, NEW r \in Requests, ReleaseTask(r) \/ SettleTask(r) \/ TaskFails(r)
  PROVE  LeaseInv'
  <1> DEFINE q == req[r]
             done(t) == Done(q, t)
  <1>1. q \in Request /\ Shape(q) /\ Waiting(q) /\ req \in [Requests -> Request]
    BY HoldsNow
  <1>2. ASSUME NEW t
        PROVE  /\ done(t) \in Request /\ Shape(done(t)) /\ Waiting(done(t))
               /\ done(t).lease = q.lease /\ done(t).age = q.age
    <2>1. done(t) \in Request /\ Shape(done(t))
      BY <1>1, Drops
    <2> QED BY <1>1, <2>1 DEF Request, Waiting, Done
  <1>3. ASSUME NEW t
        PROVE  Closed(done(t)) \in Request /\ Waiting(Closed(done(t))) /\ ~ Closed(done(t)).lease
    <2> HIDE DEF done
    <2> QED BY <1>2, ClosedHolds
  <1>4. CASE ReleaseTask(r)
    <2>1. Returns(r, Closed(done("release"))) /\ repair' = repair
      BY <1>4 DEF ReleaseTask
    <2> HIDE DEF done
    <2> QED BY <1>3, <2>1, LeaseReturned
  <1>5. CASE SettleTask(r)
    <2> DEFINE new == [done("settle") EXCEPT !.settled = TRUE]
    <2>1. new \in Request /\ Waiting(new) /\ new.lease = q.lease /\ new.age = q.age
      <3> HIDE DEF done
      <3> QED BY <1>2 DEF Request, Waiting
    <2>2. req' = [req EXCEPT ![r] = new] /\ UNCHANGED <<active, quiet, repair, uncounted>>
      BY <1>1, <1>5 DEF SettleTask
    <2> HIDE DEF new
    <2> QED BY <2>1, <2>2, LeaseStill
  <1>6. CASE TaskFails(r)
    <2>1. PICK t \in Tasks :
            req' = [req EXCEPT ![r] = IF t = "release" THEN Closed(Done(@, t)) ELSE Done(@, t)]
      BY <1>6 DEF TaskFails
    <2>2. req' = [req EXCEPT ![r] = Closed(done(t))] \/ req' = [req EXCEPT ![r] = done(t)]
      BY <1>1, <2>1
    <2>3. UNCHANGED <<active, quiet, repair, uncounted>>
      BY <1>6 DEF TaskFails
    <2> HIDE DEF done
    <2> QED BY <1>2, <1>3, <2>2, <2>3, LeaseStill
  <1> QED BY <1>4, <1>5, <1>6

LEMMA CountLeases ==
  ASSUME Inv, LeaseInv, NEW r \in Requests, CountRates(r)
  PROVE  LeaseInv'
  <1> DEFINE q == req[r]
             new == AdmittedRequest(r)
             lost == LostRequest(r)
  <1>1. /\ q \in Request /\ Shape(q) /\ Waiting(q) /\ req \in [Requests -> Request]
        /\ q.pc = "counting"
    BY HoldsNow DEF CountRates
  <1>2. ~ q.lease /\ r \notin Live
    BY <1>1 DEF Shape, Live
  <1>3. CASE ~ Admitted(r)
    <2>1. req' = [req EXCEPT ![r] = Closed(q)] /\ UNCHANGED <<active, quiet, repair, uncounted>>
      BY <1>3 DEF CountRates
    <2>2. Closed(q) \in Request /\ Waiting(Closed(q)) /\ ~ Closed(q).lease
      BY <1>1, ClosedHolds
    <2> QED BY <2>1, <2>2, LeaseStill
  <1>4. CASE Admitted(r)
    <2>1. new \in Request /\ lost \in Request
      BY <1>1, AdmittedShapes
    <2>2. /\ new.lease = Leases /\ new.pc = "calling"
          /\ ~ lost.lease /\ lost.pc = "closed"
      BY <1>1 DEF AdmittedRequest, LostRequest, Closed, Request
    <2>3. q.age \in Nat /\ q.age <= MaxWait
      BY <1>1, Numbers DEF Waiting
    <2>4. PICK next \in {new, lost} : req' = [req EXCEPT ![r] = next]
      BY <1>4, Admission
    <2>5. next \in Request /\ (next.lease => Leases) /\ Waiting(next)
      <3> HIDE DEF new, lost
      <3> QED BY <2>1, <2>2, <2>4 DEF Waiting
    <2> HIDE DEF new, lost
    <2>6. \A x \in Requests : Waiting(req'[x])
      BY <1>1, <2>4, <2>5, HoldsNow
    <2>7. /\ Live' = (IF next.lease THEN Live \cup {r} ELSE Live)
          /\ \A x \in Requests : x # r => req'[x] = req[x]
      BY <1>1, <1>2, <2>4, <2>5 DEF Live
    <2>8. /\ active' = (IF Leases THEN active + 1 ELSE active)
          /\ quiet' = (IF Leases THEN QuietFor(q.age) ELSE quiet)
          /\ repair' = (IF repair.waits THEN [repair EXCEPT !.late = @ \cup {r}] ELSE repair)
          /\ uncounted' = uncounted
      BY <1>4, Admission
    <2>9. QuietFor(q.age) \in Nat /\ QuietFor(q.age) <= MaxWait
      BY <2>3, Quiet, Numbers
    <2>10. ASSUME active' # 0, NEW x \in Live' PROVE quiet' <= req'[x].age + MaxWait
      <3>1. x \in Requests /\ req'[x].age \in Nat
        <4>1. x \in Requests
          BY <2>10 DEF Live
        <4>2. req'[x] \in Request
          BY <1>1, <2>4, <2>5, <4>1
        <4> QED BY <4>1, <4>2, BoundsAssumption DEF Request
      <3>2. CASE Leases
        BY <2>8, <2>9, <3>1, <3>2, Numbers
      <3>3. CASE ~ Leases
        <4>1. x \in Live /\ x # r /\ active # 0 /\ quiet' = quiet
          BY <1>2, <2>5, <2>7, <2>8, <2>10, <3>3
        <4>2. req'[x] = req[x]
          BY <2>7, <3>1, <4>1
        <4> QED BY <4>1, <4>2 DEF LeaseInv, Watched
      <3> QED BY <3>2, <3>3
    <2>11. ASSUME repair'.waits, NEW x \in Live' PROVE x \in repair'.late \/ Old(req[x])'
      <3>1. repair \in Repair
        BY Parts
      <3>2. repair.waits /\ repair'.late = repair.late \cup {r}
        BY <2>8, <2>11, <3>1 DEF Repair
      <3>3. CASE x # r
        <4>1. x \in Live /\ x \in Requests
          BY <2>7, <2>11, <3>3 DEF Live
        <4>2. req'[x] = req[x]
          BY <2>7, <3>3, <4>1
        <4>3. x \in repair.late \/ Old(req[x])
          BY <3>2, <4>1 DEF LeaseInv, Watched
        <4> QED BY <3>2, <4>2, <4>3 DEF Old
      <3> QED BY <3>2, <3>3
    <2>12. Watched'
      BY <2>10, <2>11 DEF Watched
    <2>13. Cardinality(Live') \in Nat /\ Cardinality(Live') <= (IF Leases THEN Cardinality(Live) + 1 ELSE Cardinality(Live))
      <3>1. Cardinality(Live \cup {r}) = Cardinality(Live) + 1
        BY <1>2, OneMore DEF Live
      <3> QED BY <2>5, <2>7, <3>1, Numbers
    <2>14. CountCoversLeases'
      BY <2>8, <2>13, Numbers DEF CountCoversLeases
    <2>15. ConcurrencyEnforced'
      <3> SUFFICES ASSUME Leases, "concurrency" \notin Lenient
                   PROVE  Cardinality(Live)' <= Limit["concurrency"] + uncounted'
        BY DEF ConcurrencyEnforced
      <3>1. Admits(r, "concurrency") /\ Limit["concurrency"] \in Nat
        BY <1>4, LimitAssumption DEF Admitted, Leases, Counted, LimitTypes, RateTypes
      <3>2. active + 1 <= Limit["concurrency"]
        BY <3>1 DEF Admits, Count, Increment
      <3> QED BY <2>8, <2>13, <3>1, <3>2, Numbers
    <2> QED BY <2>6, <2>12, <2>14, <2>15 DEF LeaseInv
  <1> QED BY <1>3, <1>4

\* A repair that finds the row quiet leaves no lease uncounted that it does not account for.
LEMMA RepairLeases ==
  ASSUME Inv, LeaseInv, RepairStep
  PROVE  LeaseInv'
  <1>1. req' = req /\ Live' = Live
    BY RepairChanges DEF Live
  <1>2. \A r \in Requests : Waiting(req'[r])
    BY <1>1 DEF LeaseInv
  <1>3. CASE UNCHANGED <<active, quiet, uncounted>>
    <2>1. CountCoversLeases' /\ ConcurrencyEnforced'
      BY <1>1, <1>3, Numbers, FewerLeases
    <2>2. ASSUME repair'.waits, NEW r \in Live PROVE Old(req[r])
      <3>1. CASE ReconcileReads
        <4>1. QuietMinutes <= quiet /\ active # 0
          BY <3>1, FS_EmptySet DEF ReconcileReads, IsQuiet, Started
        <4>2. quiet <= req[r].age + MaxWait /\ req[r].age \in Nat
          BY <2>2, <4>1, Numbers DEF LeaseInv, Watched, Live
        <4> QED BY <4>1, <4>2, Numbers DEF Old
      <3>2. CASE ReconcileWrites \/ ReconcileFails
        BY <2>2, <3>2 DEF ReconcileWrites, ReconcileFails, NoRepair
      <3> QED BY <3>1, <3>2 DEF RepairStep
    <2>3. Watched'
      BY <1>1, <1>3, <2>2 DEF LeaseInv, Watched, Old
    <2> QED BY <1>2, <2>1, <2>3 DEF LeaseInv
  <1>4. CASE ReconcileWrites /\ Repaired
    <2>1. active' = 0 /\ uncounted' = Cardinality(AtRisk)
      BY <1>4, FS_EmptySet DEF Repaired, Started
    <2>2. AtRisk = Live
      <3>1. repair.waits
        BY <1>4 DEF ReconcileWrites
      <3>2. ASSUME NEW r \in Live PROVE r \in AtRisk
        <4>1. r \in repair.late \/ QuietMinutes <= req[r].age + MaxWait
          BY <3>1, <3>2 DEF LeaseInv, Watched, Old
        <4> QED BY <3>2, <4>1 DEF AtRisk
      <3> QED BY <3>2 DEF AtRisk
    <2>3. CountCoversLeases'
      BY <1>1, <2>1, <2>2, Numbers DEF CountCoversLeases
    <2>4. ConcurrencyEnforced'
      BY <1>1, <2>1, <2>2, Numbers DEF ConcurrencyEnforced
    <2>5. ~ repair'.waits
      BY <1>4 DEF ReconcileWrites, NoRepair
    <2>6. Watched'
      BY <2>1, <2>5 DEF Watched
    <2> QED BY <1>2, <2>3, <2>4, <2>6 DEF LeaseInv
  <1>5. UNCHANGED <<active, quiet, uncounted>> \/ (ReconcileWrites /\ Repaired)
    BY DEF RepairStep, ReconcileReads, ReconcileWrites, ReconcileFails
  <1> QED BY <1>3, <1>4, <1>5

LEMMA OtherLeases ==
  ASSUME Inv, LeaseInv, SwitchLimits \/ Tick \/ \E g \in Gateways : Crash(g)
  PROVE  LeaseInv'
  <1>1. CASE SwitchLimits
    <2>1. UNCHANGED <<active, quiet, req, repair, uncounted>>
      BY <1>1 DEF SwitchLimits
    <2>2. Live' = Live
      BY <2>1 DEF Live
    <2>3. CountCoversLeases' /\ ConcurrencyEnforced'
      BY <2>1, <2>2, Numbers, FewerLeases
    <2>4. Watched'
      BY <2>1, <2>2 DEF LeaseInv, Watched, Old
    <2> QED BY <2>1, <2>3, <2>4 DEF LeaseInv
  <1>2. CASE Tick
    <2>1. /\ quiet' \in 0..QuietMinutes /\ quiet' <= quiet + 1
          /\ repair'.waits = repair.waits /\ repair'.late = repair.late
          /\ UNCHANGED <<active, uncounted>>
      BY <1>2, Ticks
    <2>2. ASSUME NEW r \in Requests
          PROVE  /\ Waiting(req'[r]) /\ (req'[r].lease <=> req[r].lease)
                 /\ r \in Live => req'[r].age = req[r].age + 1
      <3>1. req[r] \in Request /\ Shape(req[r]) /\ Waiting(req[r]) /\ req[r].age \in Nat
        BY HoldsNow, Numbers
      <3>2. /\ req'[r] = [req[r] EXCEPT !.age = req'[r].age]
            /\ r \in Live => req'[r].age = req[r].age + 1
            /\ r \in Admitting => req'[r].age <= MaxWait
            /\ r \notin Admitting \cup Live => req'[r].age = req[r].age
        BY <1>2, Ticks
      <3>3. req'[r].pc = req[r].pc /\ req'[r].lease = req[r].lease
        BY <3>1, <3>2 DEF Request
      <3>4. req[r].pc = "new" => r \notin Admitting \cup Live
        BY <3>1 DEF Shape, Live, Admitting
      <3>5. Waiting(req'[r])
        BY <3>1, <3>2, <3>3, <3>4 DEF Waiting, Admitting
      <3> QED BY <3>2, <3>3, <3>5
    <2>3. Live' = Live
      BY <2>2 DEF Live
    <2>4. CountCoversLeases' /\ ConcurrencyEnforced'
      BY <2>1, <2>3, Numbers, FewerLeases
    <2>5. ASSUME NEW r \in Live
          PROVE  /\ active' # 0 => quiet' <= req'[r].age + MaxWait
                 /\ repair'.waits => r \in repair'.late \/ Old(req[r])'
      <3>1. r \in Requests /\ req[r].age \in Nat
        BY Numbers DEF Live
      <3>2. req'[r].age = req[r].age + 1
        BY <2>2, <3>1
      <3>3. active # 0 => quiet <= req[r].age + MaxWait
        BY DEF LeaseInv, Watched
      <3>4. repair.waits => r \in repair.late \/ QuietMinutes <= req[r].age + MaxWait
        BY DEF LeaseInv, Watched, Old
      <3>5. active' # 0 => quiet' <= req'[r].age + MaxWait
        BY <2>1, <3>1, <3>2, <3>3, Numbers
      <3>6. repair'.waits => r \in repair'.late \/ QuietMinutes <= req'[r].age + MaxWait
        BY <2>1, <3>1, <3>2, <3>4, Numbers
      <3> QED BY <3>5, <3>6 DEF Old
    <2>6. Watched'
      BY <2>3, <2>5 DEF Watched
    <2> QED BY <2>2, <2>4, <2>6 DEF LeaseInv
  <1>3. CASE \E g \in Gateways : Crash(g)
    <2>1. PICK g \in Gateways : Crash(g)
      BY <1>3
    <2>2. UNCHANGED <<active, quiet, repair, uncounted>>
      BY <2>1 DEF Crash
    <2>3. ASSUME NEW r \in Requests
          PROVE  Waiting(req'[r]) /\ (req'[r].lease => req'[r] = req[r])
      <3>1. req[r] \in Request /\ Waiting(req[r])
        BY HoldsNow
      <3>2. CASE GatewayOf[r] # g \/ req[r].pc = "new"
        BY <2>1, <3>1, <3>2 DEF Crash
      <3>3. CASE ~ (GatewayOf[r] # g \/ req[r].pc = "new")
        <4>1. req'[r] = [Closed(req[r]) EXCEPT !.tasks = {}]
          BY <2>1, <3>3 DEF Crash
        <4>2. ~ req'[r].lease /\ req'[r].pc = "closed"
          BY <3>1, <4>1 DEF Request, Closed
        <4> QED BY <4>2 DEF Waiting
      <3> QED BY <3>2, <3>3
    <2>4. Live' \subseteq Live /\ \A x \in Live' : req'[x].age = req[x].age
      BY <2>3 DEF Live
    <2>5. CountCoversLeases' /\ ConcurrencyEnforced'
      BY <2>2, <2>4, Numbers, FewerLeases
    <2>6. Watched'
      BY <2>2, <2>4, Numbers, StillWatched
    <2> QED BY <2>3, <2>5, <2>6 DEF LeaseInv
  <1> QED BY <1>1, <1>2, <1>3

LEMMA LeaseNext == Inv /\ LeaseInv /\ [Next]_vars => LeaseInv'
  <1> SUFFICES ASSUME Inv, LeaseInv, [Next]_vars PROVE LeaseInv'
    OBVIOUS
  <1>1. CASE \E r \in Requests : Step(r)
    <2>1. PICK r \in Requests : Step(r)
      BY <1>1
    <2>2. CASE Begin(r) \/ CheckBudget(r) \/ AdmissionFails(r)
      BY <2>2, AdmissionLeases
    <2>3. CASE CountRates(r)
      BY <2>3, CountLeases
    <2>4. CASE JsonAnswer(r) \/ StreamAnswer(r) \/ StreamEnds(r)
      BY <2>4, AnswerLeases
    <2>5. CASE Release(r) \/ ReleaseFails(r)
      BY <2>5, ReleaseLeases
    <2>6. CASE ReleaseTask(r) \/ SettleTask(r) \/ TaskFails(r)
      BY <2>6, TaskLeases
    <2> QED BY <2>1, <2>2, <2>3, <2>4, <2>5, <2>6 DEF Step
  <1>2. CASE RepairStep
    BY <1>2, RepairLeases
  <1>3. CASE SwitchLimits \/ Tick \/ \E g \in Gateways : Crash(g)
    BY <1>3, OtherLeases
  <1>4. CASE UNCHANGED vars
    <2>1. UNCHANGED <<active, quiet, req, repair, uncounted>>
      BY <1>4 DEF vars
    <2>2. Live' = Live
      BY <2>1 DEF Live
    <2>3. CountCoversLeases' /\ ConcurrencyEnforced'
      BY <2>1, <2>2, Numbers, FewerLeases
    <2>4. Watched'
      BY <2>1, <2>2 DEF LeaseInv, Watched, Old
    <2> QED BY <2>1, <2>3, <2>4 DEF LeaseInv
  <1> QED BY <1>1, <1>2, <1>3, <1>4 DEF Next, RepairStep

LEMMA LeaseInit == Init => LeaseInv
  <1> SUFFICES ASSUME Init PROVE LeaseInv
    OBVIOUS
  <1>1. \A r \in Requests : Waiting(req[r]) /\ ~ req[r].lease
    BY BoundsAssumption DEF Init, Waiting
  <1>2. Live = {} /\ Cardinality({}) = 0
    BY <1>1, FS_EmptySet DEF Live
  <1>3. CountCoversLeases
    BY <1>2 DEF Init, CountCoversLeases
  <1>4. ConcurrencyEnforced
    BY <1>2, LimitAssumption DEF Init, ConcurrencyEnforced, Leases, Counted, LimitTypes, RateTypes
  <1>5. Watched
    BY <1>2 DEF Watched
  <1> QED BY <1>1, <1>3, <1>4, <1>5 DEF LeaseInv

LEMMA LeasesHold == Spec => []LeaseInv
  BY LeaseInit, LeaseNext, InvHolds, PTL DEF Spec

----------------------------------------------------------------------------
(* The theorems. *)

\* The rows hold what their columns may hold, whatever clients, gateways and the
\* worker do: active_count is between 0 and the number of requests.
THEOREM TypeCorrect == Spec => []TypeOK
  <1>1. Inv => TypeOK
    BY DEF Inv
  <1> QED BY <1>1, InvHolds, PTL

\* evaluateAndIncrementRateLimits evaluates every window before it increments any:
\* a minute's windows count exactly the requests, and the tokens of the requests, that
\* were admitted in it, and never more than the limits that are enforced.
THEOREM RatesKept == Spec => []RatesHold
  <1>1. Inv => RatesHold
    BY SumsAre DEF Inv, RatesHold
  <1> QED BY <1>1, InvHolds, PTL

\* recordGatewayBudgetUsage charges the period of the admission: a period's cost is the
\* sum of the costs of the requests admitted in it and settled, each of them once.
THEOREM CostsKept == Spec => []CostsLandInTheirPeriod
  <1>1. Inv => CostsLandInTheirPeriod
    BY SumsAre DEF Inv
  <1> QED BY <1>1, InvHolds, PTL

\* No crash, failed release or switch of the limits takes a lease out of active_count, and
\* reconcileGatewayConcurrencyWindows takes only leases that came after its snapshot or are
\* as old as its quiet period, less the time a transaction takes: with what it and the
\* second releases took added, active_count covers the leases that are held.
THEOREM LeasesCovered == Spec => []CountCoversLeases
  <1>1. LeaseInv => CountCoversLeases
    BY DEF LeaseInv
  <1> QED BY <1>1, LeasesHold, PTL

\* The key never has more requests under way than an enforced concurrency limit and the
\* leases so taken.
THEOREM ConcurrencyKept == Spec => []ConcurrencyEnforced
  <1>1. LeaseInv => ConcurrencyEnforced
    BY DEF LeaseInv
  <1> QED BY <1>1, LeasesHold, PTL
=============================================================================
