------------------------- MODULE FeeBalancesProofs -------------------------
(***************************************************************************)
(* Proofs about FeeBalances: rows stay well formed, the two ways in which  *)
(* the code attributes payments to members agree, the list of balances     *)
(* shows what each statement ends with, statements join, and a new fee     *)
(* leaves the past alone.                                                  *)
(*                                                                         *)
(* Fees and payments are summed by MapThenSumSet. What such a sum is for   *)
(* an empty range, for two ranges together and for equal summands follows  *)
(* from its recursion by taking a smallest set for which it would fail.    *)
(***************************************************************************)
EXTENDS FeeBalances, FiniteSetTheorems, TLAPS

(* The rows are well formed to begin with ...                              *)
LEMMA InitTypeOK == Init => TypeOK
<1> SUFFICES ASSUME Init PROVE TypeOK
  OBVIOUS
<1>1. today \in Months
  BY MonthAssumption DEF Init, Months
<1>2. fees \in [Months -> Amounts \cup {None}]
  BY DEF Init
<1>3. members \in [Members -> Member]
  BY ColumnAssumption DEF Init, Member
<1>4. partner \in [Ibans -> Partners]
  BY DEF Init, Partners
<1>5. bookings \in [Bookings -> Booking \cup {None}]
  BY DEF Init
<1> QED
  BY <1>1, <1>2, <1>3, <1>4, <1>5 DEF TypeOK

(* ... and every operation leaves them so.                                 *)
LEMMA NextTypeOK == TypeOK /\ [Next]_vars => TypeOK'
<1> SUFFICES ASSUME TypeOK, [Next]_vars PROVE TypeOK'
  OBVIOUS
<1> USE DEF TypeOK
<1>1. ASSUME NEW m \in Months, NEW amount \in Amounts, CreateFee(m, amount) PROVE TypeOK'
  BY <1>1 DEF CreateFee
<1>2. ASSUME NEW m \in Months, DeleteFee(m) PROVE TypeOK'
  BY <1>2 DEF DeleteFee
<1>3. ASSUME NEW m \in Members, NEW since \in Since, NEW opening \in Openings,
             NEW freed \in BOOLEAN, UpdateFeeMember(m, since, opening, freed)
      PROVE  TypeOK'
  <2> DEFINE new == [members[m] EXCEPT !.since = since, !.opening = opening, !.freed = freed]
  <2>1. members[m] \in Member /\ new \in Member
    BY DEF Member
  <2>2. members' = [members EXCEPT ![m] = new]
    BY <1>3 DEF UpdateFeeMember
  <2> HIDE DEF new
  <2>3. members' \in [Members -> Member]
    BY <2>1, <2>2
  <2> QED
    BY <1>3, <2>3 DEF UpdateFeeMember
<1>4. ASSUME NEW m \in Members, ChangeState(m) PROVE TypeOK'
  <2>1. /\ members[m] \in Member
        /\ [members[m] EXCEPT !.liable = ~members[m].liable] \in Member
    BY DEF Member
  <2>2. members' = [members EXCEPT ![m] = [members[m] EXCEPT !.liable = ~members[m].liable]]
    BY <1>4 DEF ChangeState
  <2> QED
    BY <1>4, <2>1, <2>2 DEF ChangeState
<1>5. ASSUME NEW i \in Ibans, NEW who \in Partners, SetPartner(i, who) PROVE TypeOK'
  BY <1>5 DEF SetPartner
<1>6. ASSUME NEW b \in Bookings, NEW who \in Partners, Delegate(b, who) PROVE TypeOK'
  <2>1. bookings[b] \in Booking
    BY <1>6 DEF Delegate
  <2>2. [bookings[b] EXCEPT !.delegate = who] \in Booking
    BY <2>1 DEF Booking
  <2>3. bookings' = [bookings EXCEPT ![b] = [bookings[b] EXCEPT !.delegate = who]]
    BY <1>6 DEF Delegate
  <2> QED
    BY <1>6, <2>2, <2>3 DEF Delegate
<1>7. ASSUME NEW b \in Bookings, NEW i \in Ibans, NEW day \in BookedOn, NEW hit \in BOOLEAN,
             Import(b, i, day, hit)
      PROVE  TypeOK'
  <2>1. [iban |-> i, day |-> day, direct |-> "none", hit |-> hit, delegate |-> None] \in Booking
    BY DEF Booking, Partners
  <2> QED
    BY <1>7, <2>1 DEF Import
<1>8. ASSUME NEW b \in Bookings, NEW direct \in {"none", "fee", "other"}, Assign(b, direct)
      PROVE  TypeOK'
  <2>1. bookings[b] \in Booking
    BY <1>8 DEF Assign
  <2>2. [bookings[b] EXCEPT !.direct = direct] \in Booking
    BY <2>1 DEF Booking
  <2>3. bookings' = [bookings EXCEPT ![b] = [bookings[b] EXCEPT !.direct = direct]]
    BY <1>8 DEF Assign
  <2> QED
    BY <1>8, <2>2, <2>3 DEF Assign
<1>9. CASE NextMonth
  BY <1>9, MonthAssumption DEF NextMonth, Months
<1>10. CASE UNCHANGED vars
  BY <1>10 DEF vars
<1> QED
  BY <1>1, <1>2, <1>3, <1>4, <1>5, <1>6, <1>7, <1>8, <1>9, <1>10 DEF Next

(* Fees, members, partners and bookings stay well formed whatever is saved. *)
THEOREM TypeCorrect == Spec => []TypeOK
<1> QED
  BY InitTypeOK, NextTypeOK, PTL DEF Spec

(* _attribute_payment gives a member exactly the payments that the         *)
(* member's own statement collects: the delegation rule, the rule for a    *)
(* payment from one's own IBAN and the exception for a member without one  *)
(* are the same in both.                                                   *)
THEOREM AttributionAgrees ==
    ASSUME TypeOK, NEW m \in Listed
    PROVE  {b \in FeePayments : Target(b) = m} = PaymentsOf(m)
<1>1. m \in Members /\ m # None
  BY NoneAssumption DEF Listed
<1>2. \A b \in FeePayments : b \in Bookings /\ bookings[b].iban \in Ibans
  <2>1. \A b \in FeePayments : b \in Bookings /\ bookings[b] # None
    BY DEF FeePayments
  <2> QED
    BY <2>1 DEF TypeOK, Booking
<1>3. CASE OwnIbans(m) = {}
  <2>1. m \notin WithOwnIban
    BY <1>3 DEF WithOwnIban
  <2>2. \A i \in Ibans : partner[i] # m
    BY <1>3 DEF OwnIbans
  <2>3. \A b \in FeePayments : Target(b) # m
    BY <1>1, <1>2, <2>1, <2>2 DEF Target
  <2> QED
    BY <1>3, <2>3 DEF PaymentsOf
<1>4. CASE OwnIbans(m) # {}
  <2>1. m \in WithOwnIban
    BY <1>4 DEF WithOwnIban
  <2>2. ASSUME NEW b \in FeePayments
        PROVE  Target(b) = m <=> \/ bookings[b].iban \in OwnIbans(m) /\ bookings[b].delegate = None
                                 \/ bookings[b].delegate = m
    <3>1. None \notin WithOwnIban
      BY NoneAssumption DEF WithOwnIban, Listed
    <3>2. bookings[b].iban \in OwnIbans(m) <=> partner[bookings[b].iban] = m
      BY <1>2 DEF OwnIbans
    <3> QED
      BY <1>1, <2>1, <3>1, <3>2 DEF Target
  <2> QED
    BY <1>4, <2>2 DEF PaymentsOf
<1> QED
  BY <1>3, <1>4

-----------------------------------------------------------------------------
(* Sums over finite sets. What a fold gives is shown by looking for a      *)
(* smallest set for which it would not.                                    *)

One(s) == CHOOSE d \in s : TRUE

(* What the recursion of a sum over D says of the sums over its subsets.   *)
Sums(g, w, D) ==
    g = [s \in SUBSET D |-> IF s = {} THEN 0 ELSE w[One(s)] + g[s \ {One(s)}]]

SumOf(w, D) == (CHOOSE g : Sums(g, w, D))[D]

(* Among sets of subsets of a finite set there is a smallest one.          *)
LEMMA Smallest ==
    ASSUME NEW D, IsFiniteSet(D), NEW B \in SUBSET SUBSET D, B # {}
    PROVE  \E s \in B : \A t \in B : ~(t \subseteq s /\ t # s)
<1>1. B \subseteq FiniteSubsetsOf(D)
    BY FS_Subset DEF FiniteSubsetsOf
<1>2. PICK s \in B : \A t \in B : ~(<<t, s>> \in StrictSubsetOrdering(D))
    BY <1>1, FS_StrictSubsetOrderingWellFounded, WFMin
<1>3. ASSUME NEW t \in B, t \subseteq s, t # s PROVE FALSE
    BY <1>1, <1>2, <1>3 DEF StrictSubsetOrdering, FiniteSubsetsOf
<1> QED BY <1>3

(* The member a fold takes next is one.                                    *)
LEMMA OneIn == ASSUME NEW s, s # {} PROVE One(s) \in s
    BY DEF One

(* Two such recursions agree wherever both are defined.                    *)
LEMMA SumsAgree ==
    ASSUME NEW w, NEW D, NEW E, NEW g, NEW k, Sums(g, w, D), Sums(k, w, E),
           NEW s, s \subseteq D, s \subseteq E, IsFiniteSet(s)
    PROVE  g[s] = k[s]
<1> DEFINE B == {t \in SUBSET s : g[t] # k[t]}
<1>1. SUFFICES ASSUME B # {} PROVE FALSE
    OBVIOUS
<1>2. PICK t \in B : \A u \in B : ~(u \subseteq t /\ u # t)
  <2> B \in SUBSET SUBSET s
    OBVIOUS
  <2> HIDE DEF B
  <2> QED BY <1>1, Smallest
<1>3. CASE t = {}
  <2>1. g[{}] = 0 /\ k[{}] = 0
    BY DEF Sums
  <2> QED BY <1>3, <2>1
<1>4. CASE t # {}
  <2>1. One(t) \in t
    BY <1>4, OneIn
  <2>2. g[t \ {One(t)}] = k[t \ {One(t)}]
    BY <1>2, <2>1
  <2>3. g[t] = w[One(t)] + g[t \ {One(t)}]
    BY <1>4 DEF Sums
  <2>4. k[t] = w[One(t)] + k[t \ {One(t)}]
    BY <1>4 DEF Sums
  <2> QED BY <2>2, <2>3, <2>4
<1> QED BY <1>3, <1>4

(* There is one over every finite set: the fold is what it says it is.     *)
LEMMA SumsExist ==
    ASSUME NEW w, NEW D, IsFiniteSet(D)
    PROVE  Sums(CHOOSE g : Sums(g, w, D), w, D)
<1> DEFINE B == {t \in SUBSET D : ~ \E g : Sums(g, w, t)}
<1>1. SUFFICES ASSUME B # {} PROVE FALSE
    BY DEF B
<1>2. PICK s \in B : \A u \in B : ~(u \subseteq s /\ u # s)
  <2> B \in SUBSET SUBSET D
    OBVIOUS
  <2> HIDE DEF B
  <2> QED BY <1>1, Smallest
<1> DEFINE G(t) == (CHOOSE g : Sums(g, w, t))
           h == [t \in SUBSET s |-> IF t = {} THEN 0
                                    ELSE w[One(t)] + G(t \ {One(t)})[t \ {One(t)}]]
<1>3. ASSUME NEW t \in SUBSET s, t # s PROVE Sums(G(t), w, t)
    BY <1>2, <1>3
<1>4. ASSUME NEW t \in SUBSET s, t # s PROVE h[t] = G(t)[t]
  <2>1. CASE t = {}
    <3>1. Sums(G(t), w, t)
      BY <1>3, <1>4
    <3>2. G(t)[{}] = 0
      BY <3>1, <2>1 DEF Sums
    <3> QED BY <2>1, <3>2
  <2>2. CASE t # {}
    <3> DEFINE u == t \ {One(t)}
    <3>1. One(t) \in t
      BY <2>2, OneIn
    <3>2. u \in SUBSET s /\ u # s /\ u \subseteq t /\ IsFiniteSet(u)
      BY <3>1, <1>4, FS_Subset
    <3>3. Sums(G(t), w, t) /\ Sums(G(u), w, u)
      BY <1>3, <1>4, <3>2
    <3> HIDE DEF G
    <3>4. G(t)[t] = w[One(t)] + G(t)[u]
      BY <3>3, <2>2 DEF Sums
    <3>5. G(t)[u] = G(u)[u]
      BY <3>2, <3>3, SumsAgree
    <3>6. h[t] = w[One(t)] + G(u)[u]
      BY <2>2
    <3> QED BY <3>4, <3>5, <3>6
  <2> QED BY <2>1, <2>2
<1>5. ASSUME NEW t \in SUBSET s, t # {} PROVE h[t] = w[One(t)] + h[t \ {One(t)}]
  <2> DEFINE u == t \ {One(t)}
  <2>1. One(t) \in t
    BY <1>5, OneIn
  <2>2. u \in SUBSET s /\ u # s
    BY <2>1
  <2> HIDE DEF G
  <2>3. h[t] = w[One(t)] + G(u)[u]
    BY <1>5
  <2>4. h[u] = G(u)[u]
    BY <1>4, <2>2
  <2> QED BY <2>3, <2>4
<1>6. Sums(h, w, s)
  <2> HIDE DEF G
  <2>1. h[{}] = 0
    OBVIOUS
  <2>3. h = [t \in SUBSET s |-> h[t]]
    OBVIOUS
  <2> HIDE DEF h
  <2>2. \A t \in SUBSET s : h[t] = IF t = {} THEN 0 ELSE w[One(t)] + h[t \ {One(t)}]
    BY <1>5, <2>1
  <2> QED BY <2>2, <2>3 DEF Sums
<1> QED BY <1>2, <1>6

(* The equation of the recursion, without the function that defines it.    *)
LEMMA SumStep ==
    ASSUME NEW w, NEW D, IsFiniteSet(D)
    PROVE  /\ SumOf(w, {}) = 0
           /\ D # {} => SumOf(w, D) = w[One(D)] + SumOf(w, D \ {One(D)})
<1> DEFINE G(t) == (CHOOSE g : Sums(g, w, t))
<1>1. \A t : SumOf(w, t) = G(t)[t]
    BY DEF SumOf
<1>2. \A t : IsFiniteSet(t) => Sums(G(t), w, t)
    BY SumsExist
<1> HIDE DEF G
<1>3. G({})[{}] = 0
    BY <1>2, FS_EmptySet DEF Sums
<1>4. ASSUME D # {} PROVE G(D)[D] = w[One(D)] + G(D \ {One(D)})[D \ {One(D)}]
  <2> DEFINE u == D \ {One(D)}
  <2>1. u \subseteq D /\ IsFiniteSet(u)
    BY FS_Subset
  <2>2. Sums(G(D), w, D) /\ Sums(G(u), w, u)
    BY <1>2, <2>1
  <2>3. G(D)[u] = G(u)[u]
    BY <2>1, <2>2, SumsAgree
  <2>4. G(D)[D] = w[One(D)] + G(D)[u]
    BY <2>2, <1>4 DEF Sums
  <2> QED BY <2>3, <2>4
<1> QED BY <1>1, <1>3, <1>4

(* A sum of integers is one.                                               *)
LEMMA SumInt ==
    ASSUME NEW w, NEW D, IsFiniteSet(D), \A d \in D : w[d] \in Int
    PROVE  SumOf(w, D) \in Int
<1> DEFINE B == {t \in SUBSET D : SumOf(w, t) \notin Int}
<1>1. SUFFICES ASSUME B # {} PROVE FALSE
    OBVIOUS
<1>2. PICK s \in B : \A u \in B : ~(u \subseteq s /\ u # s)
  <2> B \in SUBSET SUBSET D
    OBVIOUS
  <2> HIDE DEF B
  <2> QED BY <1>1, Smallest
<1>3. IsFiniteSet(s) /\ s # {} /\ One(s) \in s
  <2>1. IsFiniteSet(s)
    BY FS_Subset
  <2>2. SumOf(w, {}) = 0
    BY SumStep
  <2> QED BY <2>1, <2>2, OneIn
<1>4. SumOf(w, s \ {One(s)}) \in Int
    BY <1>2, <1>3
<1>5. SumOf(w, s) = w[One(s)] + SumOf(w, s \ {One(s)})
    BY <1>3, SumStep
<1> QED BY <1>3, <1>4, <1>5

(* Any member may be taken out of a sum.                                   *)
LEMMA SumRemove ==
    ASSUME NEW w, NEW D, IsFiniteSet(D), \A d \in D : w[d] \in Int, NEW x \in D
    PROVE  SumOf(w, D) = SumOf(w, D \ {x}) + w[x]
<1> DEFINE B == {t \in SUBSET D : \E d \in t : SumOf(w, t) # SumOf(w, t \ {d}) + w[d]}
<1>1. SUFFICES ASSUME B # {} PROVE FALSE
    OBVIOUS
<1>2. PICK s \in B : \A u \in B : ~(u \subseteq s /\ u # s)
  <2> B \in SUBSET SUBSET D
    OBVIOUS
  <2> HIDE DEF B
  <2> QED BY <1>1, Smallest
<1>3. PICK d \in s : SumOf(w, s) # SumOf(w, s \ {d}) + w[d]
    OBVIOUS
<1> DEFINE o == One(s)
           r == (s \ {o}) \ {d}
<1>4. IsFiniteSet(s) /\ o \in s
    BY FS_Subset, OneIn
<1>5. SumOf(w, s) = w[o] + SumOf(w, s \ {o})
    BY <1>4, SumStep
<1>6. o # d
  <2>1. IsFiniteSet(s \ {o}) /\ (\A e \in s \ {o} : w[e] \in Int) /\ w[o] \in Int
    BY <1>4, FS_Subset
  <2>2. SumOf(w, s \ {o}) \in Int
    BY <2>1, SumInt
  <2>3. SumOf(w, s) = SumOf(w, s \ {o}) + w[o]
    <3> HIDE DEF o
    <3> QED BY <1>5, <2>1, <2>2
  <2> QED BY <1>3, <2>3
<1>7. SumOf(w, s \ {o}) = SumOf(w, r) + w[d]
  <2>1. s \ {o} \notin B
    BY <1>2, <1>4
  <2> QED BY <2>1, <1>6
<1>8. SumOf(w, s \ {d}) = SumOf(w, (s \ {d}) \ {o}) + w[o]
  <2>1. s \ {d} \notin B /\ o \in s \ {d}
    BY <1>2, <1>4, <1>6
  <2> QED BY <2>1
<1>9. r = (s \ {d}) \ {o}
    OBVIOUS
<1>10. SumOf(w, r) \in Int /\ w[o] \in Int /\ w[d] \in Int
  <2>1. IsFiniteSet(r) /\ \A e \in r : w[e] \in Int
    BY FS_Subset
  <2> QED BY <2>1, <1>4, SumInt
<1> HIDE DEF r, o
<1> QED BY <1>3, <1>5, <1>7, <1>8, <1>9, <1>10

(* The sum over two sets that share nothing.                               *)
LEMMA SumJoin ==
    ASSUME NEW w, NEW C, NEW D, IsFiniteSet(C), IsFiniteSet(D), C \cap D = {},
           \A d \in C \cup D : w[d] \in Int
    PROVE  SumOf(w, C \cup D) = SumOf(w, C) + SumOf(w, D)
<1> DEFINE B == {t \in SUBSET D : SumOf(w, C \cup t) # SumOf(w, C) + SumOf(w, t)}
<1>1. SUFFICES ASSUME B # {} PROVE FALSE
    OBVIOUS
<1>2. PICK s \in B : \A u \in B : ~(u \subseteq s /\ u # s)
  <2> B \in SUBSET SUBSET D
    OBVIOUS
  <2> HIDE DEF B
  <2> QED BY <1>1, Smallest
<1>3. SumOf(w, C) \in Int
    BY SumInt
<1>4. s # {}
  <2>1. SumOf(w, {}) = 0
    BY SumStep
  <2>2. C \cup {} = C
    OBVIOUS
  <2>3. SumOf(w, C \cup {}) = SumOf(w, C) + SumOf(w, {})
    BY <2>1, <2>2, <1>3
  <2> QED BY <2>3
<1>5. PICK x \in s : TRUE
    BY <1>4
<1> DEFINE r == s \ {x}
<1>6. SumOf(w, C \cup r) = SumOf(w, C) + SumOf(w, r)
    BY <1>2
<1>7. IsFiniteSet(s) /\ IsFiniteSet(r) /\ IsFiniteSet(C \cup s)
    BY FS_Subset, FS_Union
<1>8. SumOf(w, s) = SumOf(w, r) + w[x]
    BY <1>7, SumRemove
<1>9. SumOf(w, C \cup s) = SumOf(w, C \cup r) + w[x]
  <2>1. (C \cup s) \ {x} = C \cup r /\ x \in C \cup s
    OBVIOUS
  <2>2. \A d \in C \cup s : w[d] \in Int
    OBVIOUS
  <2> QED BY <2>1, <2>2, <1>7, SumRemove
<1>10. SumOf(w, r) \in Int /\ w[x] \in Int
    BY <1>7, SumInt
<1> HIDE DEF r
<1> QED BY <1>3, <1>6, <1>8, <1>9, <1>10

(* Equal members add up to equal sums.                                     *)
LEMMA SumSame ==
    ASSUME NEW v, NEW w, NEW D, IsFiniteSet(D), \A d \in D : v[d] = w[d]
    PROVE  SumOf(v, D) = SumOf(w, D)
<1> DEFINE B == {t \in SUBSET D : SumOf(v, t) # SumOf(w, t)}
<1>1. SUFFICES ASSUME B # {} PROVE FALSE
    OBVIOUS
<1>2. PICK s \in B : \A u \in B : ~(u \subseteq s /\ u # s)
  <2> B \in SUBSET SUBSET D
    OBVIOUS
  <2> HIDE DEF B
  <2> QED BY <1>1, Smallest
<1>3. IsFiniteSet(s)
    BY FS_Subset
<1>4. SumOf(v, {}) = 0 /\ SumOf(w, {}) = 0
    BY SumStep
<1>5. One(s) \in s
    BY <1>4, OneIn
<1>6. SumOf(v, s \ {One(s)}) = SumOf(w, s \ {One(s)})
    BY <1>2, <1>5
<1>7. /\ SumOf(v, s) = v[One(s)] + SumOf(v, s \ {One(s)})
      /\ SumOf(w, s) = w[One(s)] + SumOf(w, s \ {One(s)})
    BY <1>3, <1>5, SumStep
<1> QED BY <1>5, <1>6, <1>7

(* The fees of a period are such a sum.                                    *)
FeesAreSums ==
    \A a, b \in Int : FeesOf(a, b) = SumOf([m \in a..b |-> FeeAt(m)], a..b)

(* They are, because MapThenSumSet's recursion is Sums.                    *)
LEMMA FeesSum == FeesAreSums
<1> SUFFICES ASSUME NEW a \in Int, NEW b \in Int
             PROVE  FeesOf(a, b) = SumOf([m \in a..b |-> FeeAt(m)], a..b)
    BY DEF FeesAreSums
<1> DEFINE D == a..b
           w == [m \in D |-> FeeAt(m)]
           P(g) == g = [s \in SUBSET D |-> IF s = {} THEN 0
                        ELSE FeeAt(One(s)) + g[s \ {One(s)}]]
<1>1. FeesOf(a, b) = (CHOOSE g : P(g))[D]
    BY DEF FeesOf, MapThenSumSet, MapThenFoldSet, One
<1>2. IsFiniteSet(D)
    BY FS_Interval
<1>3. \A g : P(g) <=> Sums(g, w, D)
  <2> SUFFICES ASSUME NEW g PROVE P(g) <=> Sums(g, w, D)
    OBVIOUS
  <2>1. \A s \in SUBSET D : s # {} => One(s) \in D
    BY OneIn
  <2> HIDE DEF D
  <2>2. \A s \in SUBSET D : s # {} => w[One(s)] = FeeAt(One(s))
    BY <2>1
  <2> HIDE DEF w
  <2> QED BY <2>2 DEF Sums
<1> HIDE DEF w, P, D
<1>4. Sums(CHOOSE g : Sums(g, w, D), w, D)
    BY <1>2, SumsExist
<1>5. Sums(CHOOSE g : P(g), w, D)
    BY <1>3, <1>4
<1>6. (CHOOSE g : P(g))[D] = (CHOOSE g : Sums(g, w, D))[D]
    BY <1>2, <1>4, <1>5, SumsAgree
<1>7. FeesOf(a, b) = SumOf(w, D)
    BY <1>1, <1>6 DEF SumOf
<1> QED BY <1>7 DEF w, D

(* Payments of a set of bookings: the same, over the amounts booked.       *)
LEMMA PaymentSum ==
    ASSUME NEW D, D \subseteq Bookings
    PROVE  Sum(D) = SumOf(Worth, D) /\ IsFiniteSet(D)
<1> DEFINE P(g) == g = [s \in SUBSET D |-> IF s = {} THEN 0
                        ELSE Worth[One(s)] + g[s \ {One(s)}]]
<1>1. Sum(D) = (CHOOSE g : P(g))[D]
    BY DEF Sum, MapThenSumSet, MapThenFoldSet, One
<1>2. \A g : P(g) <=> Sums(g, Worth, D)
    BY DEF Sums
<1>3. IsFiniteSet(D)
    BY AmountAssumption, FS_Subset
<1> QED BY <1>1, <1>2, <1>3 DEF SumOf

(* Months and their days.                                                  *)
LEMMA Calendar ==
    /\ \A d \in Nat : Month(d) \in Nat
    /\ \A m \in Int : FirstOf(m) \in Int /\ EndOf(m) = FirstOf(m + 1) - 1
    /\ \A m \in Nat : FirstOf(m) \in Nat /\ Month(FirstOf(m)) = m
    /\ \A m, n \in Int : m <= n => FirstOf(m) <= FirstOf(n)
    /\ \A d, m \in Nat : d < FirstOf(m) => Month(d) < m
<1> DEFINE L == MonthLength
<1>0. L \in Nat /\ L > 0
    BY MonthAssumption
<1> HIDE DEF L
<1>1. \A d \in Nat : d \div L \in Nat /\ L * (d \div L) <= d /\ d < L * (d \div L) + L
    BY <1>0
<1>2. \A m, n \in Int : m <= n => m * L <= n * L
    BY <1>0
<1>3. \A m \in Int : m * L \in Int /\ m * L + L - 1 = (m + 1) * L - 1
    BY <1>0
<1>4. \A m \in Nat : m * L \in Nat /\ (m * L) \div L = m
    BY <1>0
<1>5. \A d, m \in Nat : d < m * L => d \div L < m
  <2> SUFFICES ASSUME NEW d \in Nat, NEW m \in Nat, d < m * L, ~(d \div L < m) PROVE FALSE
    BY <1>1
  <2>1. m <= d \div L /\ d \div L \in Nat
    BY <1>1
  <2>2. m * L <= (d \div L) * L
    BY <1>2, <2>1
  <2>3. (d \div L) * L <= d
    BY <1>0, <1>1, <2>1
  <2>4. m * L \in Int /\ (d \div L) * L \in Int
    BY <1>3, <2>1
  <2> QED BY <2>2, <2>3, <2>4
<1> QED BY <1>1, <1>2, <1>3, <1>4, <1>5 DEF Month, FirstOf, EndOf, L

(* Some integers, finitely many, have a greatest one.                      *)
LEMMA Greatest ==
    ASSUME NEW S, IsFiniteSet(S), S # {}
    PROVE  S \subseteq Int => Max(S) \in S
<1> DEFINE Above(n) == {k \in S : k > n}
           B == {Above(n) : n \in S}
<1>1. PICK s \in B : \A t \in B : ~(t \subseteq s /\ t # s)
  <2>1. B \in SUBSET SUBSET S /\ B # {}
    OBVIOUS
  <2> HIDE DEF B
  <2> QED BY <2>1, Smallest
<1>2. PICK n \in S : s = Above(n)
    OBVIOUS
<1>3. ASSUME S \subseteq Int, NEW m \in S, ~(n >= m) PROVE FALSE
  <2>1. m \in Int /\ n \in Int /\ n < m
    BY <1>3
  <2>2. \A k \in S : k \in Int /\ (k > m => k > n)
    BY <1>3, <2>1
  <2>3. m > n /\ ~(m > m)
    BY <2>1
  <2>4. Above(m) \subseteq Above(n) /\ m \in Above(n) /\ m \notin Above(m)
    BY <2>2, <2>3
  <2>5. Above(m) \in B
    OBVIOUS
  <2> HIDE DEF Above, B
  <2>6. Above(m) \subseteq s /\ Above(m) # s
    BY <2>4, <1>2
  <2> QED BY <2>5, <2>6, <1>1
<1> QED BY <1>3 DEF Max

(* The fee of a month is a number.                                         *)
LEMMA FeeNumber == ASSUME TypeOK, NEW month \in Int PROVE FeeAt(month) \in Int
<1> DEFINE started == {m \in 0..month : m \in Months /\ fees[m] # None}
<1>1. CASE started = {}
    BY <1>1 DEF FeeAt
<1>2. CASE started # {}
  <2>1. 0..month \subseteq Int /\ IsFiniteSet(0..month) /\ started \in SUBSET (0..month)
    BY FS_Interval
  <2> HIDE DEF started
  <2>2. started \subseteq Int /\ IsFiniteSet(started)
    BY <2>1, FS_Subset
  <2>3. Max(started) \in started
    BY <2>2, <1>2, Greatest
  <2>4. Max(started) \in Months /\ fees[Max(started)] # None
    BY <2>3 DEF started
  <2>5. fees[Max(started)] \in Int
    <3> DEFINE x == Max(started)
    <3> HIDE DEF x
    <3>1. x \in Months /\ fees[x] # None
      BY <2>4, Zenon DEF x
    <3>2. fees[x] \in Amounts
      BY <3>1, Zenon DEF TypeOK
    <3>3. Amounts \subseteq Int
      BY AmountAssumption
    <3>4. fees[x] \in Int
      BY <3>2, <3>3
    <3> QED BY <3>4 DEF x
  <2>6. FeeAt(month) = fees[Max(started)]
    BY <1>2 DEF FeeAt, started
  <2> QED BY <2>5, <2>6
<1> QED BY <1>1, <1>2

(* What is owed for a period is owed for its parts.                        *)
LEMMA FeesJoin ==
    ASSUME TypeOK, NEW a \in Int, NEW b \in Int, NEW c \in Int, a <= b, b <= c + 1
    PROVE  /\ FeesOf(a, b - 1) \in Int /\ FeesOf(b, c) \in Int
           /\ FeesOf(a, c) = FeesOf(a, b - 1) + FeesOf(b, c)
<1> DEFINE C == a..(b - 1)
           D == b..c
           u == [m \in C |-> FeeAt(m)]
           v == [m \in D |-> FeeAt(m)]
           w == [m \in a..c |-> FeeAt(m)]
<1>1. a..c = C \cup D /\ C \cap D = {} /\ C \subseteq Int /\ D \subseteq Int
    OBVIOUS
<1>2. IsFiniteSet(C) /\ IsFiniteSet(D) /\ b - 1 \in Int
    BY FS_Interval
<1>3. /\ FeesOf(a, b - 1) = SumOf(u, C) /\ FeesOf(b, c) = SumOf(v, D)
      /\ FeesOf(a, c) = SumOf(w, C \cup D)
    BY <1>1, <1>2, FeesSum DEF FeesAreSums
<1>4. (\A m \in C : u[m] = w[m]) /\ (\A m \in D : v[m] = w[m])
  <2> HIDE DEF C, D
  <2> QED BY <1>1
<1>5. \A m \in C \cup D : w[m] \in Int
    BY <1>1, FeeNumber
<1> HIDE DEF C, D, u, v, w
<1>6. SumOf(u, C) = SumOf(w, C) /\ SumOf(v, D) = SumOf(w, D)
    BY <1>2, <1>4, SumSame
<1>7. SumOf(w, C) \in Int /\ SumOf(w, D) \in Int
    BY <1>2, <1>5, SumInt
<1>8. SumOf(w, C \cup D) = SumOf(w, C) + SumOf(w, D)
    BY <1>1, <1>2, <1>5, SumJoin
<1> QED BY <1>3, <1>6, <1>7, <1>8

(* No month owes nothing.                                                  *)
LEMMA NothingOwed == \A a \in Int : FeesOf(a, a - 1) = 0
<1> SUFFICES ASSUME NEW a \in Int PROVE FeesOf(a, a - 1) = 0
    OBVIOUS
<1>1. a..(a - 1) = {} /\ a - 1 \in Int
    OBVIOUS
<1>2. \A w : SumOf(w, {}) = 0
    BY SumStep, FS_EmptySet
<1> QED BY <1>1, <1>2, FeesSum DEF FeesAreSums

(* Payments of two periods add up.                                         *)
LEMMA PaymentsJoin ==
    ASSUME TypeOK, NEW S \in SUBSET FeePayments, NEW a \in Int, NEW b \in Int, NEW c \in Int,
           a <= b, b <= c + 1
    PROVE  /\ Sum(Between(S, a, b - 1)) \in Int /\ Sum(Between(S, b, c)) \in Int
           /\ Sum(Between(S, a, c)) = Sum(Between(S, a, b - 1)) + Sum(Between(S, b, c))
           /\ Sum(Between(S, a, a - 1)) = 0
<1> DEFINE C == Between(S, a, b - 1)
           D == Between(S, b, c)
<1>1. S \subseteq Bookings
    BY DEF FeePayments
<1>2. \A p \in S : bookings[p].day \in Nat
    BY DayAssumption DEF FeePayments, TypeOK, Booking
<1>3. /\ Between(S, a, c) = C \cup D /\ C \cap D = {} /\ Between(S, a, a - 1) = {}
      /\ C \subseteq Bookings /\ D \subseteq Bookings
    BY <1>1, <1>2 DEF Between
<1> HIDE DEF C, D
<1>4. /\ Sum(C) = SumOf(Worth, C) /\ Sum(D) = SumOf(Worth, D) /\ Sum({}) = SumOf(Worth, {})
      /\ Sum(C \cup D) = SumOf(Worth, C \cup D) /\ IsFiniteSet(C) /\ IsFiniteSet(D)
    BY <1>3, PaymentSum
<1>5. \A p \in C \cup D : Worth[p] \in Int
    BY <1>3, AmountAssumption
<1>6. SumOf(Worth, C) \in Int /\ SumOf(Worth, D) \in Int
    BY <1>4, <1>5, SumInt
<1>7. SumOf(Worth, C \cup D) = SumOf(Worth, C) + SumOf(Worth, D)
    BY <1>3, <1>4, <1>5, SumJoin
<1>8. SumOf(Worth, {}) = 0
    BY SumStep, FS_EmptySet
<1> QED BY <1>3, <1>4, <1>6, <1>7, <1>8 DEF C, D

(* The later of two months.                                                *)
LEMMA MaxTwo == \A a, b \in Int : Max({a, b}) = IF a >= b THEN a ELSE b
<1> SUFFICES ASSUME NEW a \in Int, NEW b \in Int
             PROVE  Max({a, b}) = IF a >= b THEN a ELSE b
    OBVIOUS
<1> DEFINE x == IF a >= b THEN a ELSE b
<1>1. x \in {a, b} /\ (\A k \in {a, b} : x >= k)
    OBVIOUS
<1>2. \A y \in {a, b} : (\A k \in {a, b} : y >= k) => y = x
    OBVIOUS
<1> QED BY <1>1, <1>2 DEF Max

(* A member on the list has a first month and an opening balance.          *)
LEMMA ListedMember ==
    ASSUME TypeOK, NEW m \in Listed
    PROVE  /\ m \in Members /\ m # None
           /\ members[m].since \in Nat /\ Month(members[m].since) \in Nat
           /\ members[m].opening \in Int /\ members[m].freed \in BOOLEAN
<1>1. m \in Members /\ members[m] \in Member /\ members[m].since # None
    BY DEF Listed, IsFeeMember, TypeOK
<1>2. /\ members[m].since \in Since /\ members[m].opening \in Openings
      /\ members[m].freed \in BOOLEAN
    BY <1>1 DEF Member
<1>3. members[m].since \in Nat
    BY <1>1, <1>2, DayAssumption
<1>4. members[m].opening \in Int
    BY <1>2, AmountAssumption
<1> QED BY <1>1, <1>2, <1>3, <1>4, Calendar, NoneAssumption

(* The statement without dates begins with the opening balance, so that it *)
(* is the list's sum over the same months and the same payments.           *)
LEMMA ListFollowsStatement == TypeOK => ListMatchesStatements
<1> SUFFICES ASSUME TypeOK, NEW m \in Listed
             PROVE  Balance(m) = Statement(m, None, None).end
    BY DEF ListMatchesStatements
<1> DEFINE first == Month(members[m].since)
           last  == ListEnd(m)
           P     == PaymentsOf(m)
           owed(a, b) == IF members[m].freed THEN 0 ELSE FeesOf(a, b)
           before == members[m].opening - owed(first, first - 1)
                     + Sum(Between(P, FirstOf(first), FirstOf(first) - 1))
           during == Sum(Between(P, FirstOf(first), EndOf(last)))
<1>1. first \in Int /\ members[m].opening \in Int /\ FirstOf(first) \in Int
  <2>1. first \in Nat /\ members[m].opening \in Int
    BY ListedMember
  <2> QED BY <2>1, Calendar
<1>2. Statement(m, None, None).end = before - owed(first, last) + during
    BY DEF Statement, ListEnd
<1>3. Balance(m) = members[m].opening - owed(first, last) + during
    BY AttributionAgrees DEF Balance
<1>4. P \in SUBSET FeePayments
    BY DEF PaymentsOf
<1> HIDE DEF first, last, P
<1>5. owed(first, first - 1) = 0
    BY <1>1, NothingOwed
<1>6. Sum(Between(P, FirstOf(first), FirstOf(first) - 1)) = 0
  <2>1. FirstOf(first) <= FirstOf(first) /\ FirstOf(first) <= FirstOf(first) + 1
    BY <1>1
  <2> QED BY <1>1, <1>4, <2>1, PaymentsJoin
<1>7. before = members[m].opening
    BY <1>1, <1>5, <1>6
<1> QED BY <1>2, <1>3, <1>7

(* In every reachable state the list of all balances shows of each member  *)
(* what get_fee_balance computes for that member alone.                    *)
THEOREM ListAgrees == Spec => []ListMatchesStatements
<1> QED BY TypeCorrect, ListFollowsStatement, PTL

(* A statement to the end of one month and the next from the month after:  *)
(* the fees and payments between the two opening balances are those of the *)
(* first.                                                                  *)
LEMMA StatementsFollow == TypeOK => StatementsJoin
<1> SUFFICES ASSUME TypeOK, NEW m \in Listed, NEW a \in Months, NEW b \in Months
             PROVE  LET earlier == Statement(m, FirstOf(a), FirstOf(b))
                    IN Statement(m, FirstOf(earlier.to + 1), None).start = earlier.end
    BY DEF StatementsJoin
<1> DEFINE first == Month(members[m].since)
           P     == PaymentsOf(m)
           start == Max({Month(FirstOf(a)), first})
           end   == Max({start, Month(FirstOf(b))})
           after == Max({Month(FirstOf(end + 1)), first})
           owed(x, y) == IF members[m].freed THEN 0 ELSE FeesOf(x, y)
           paid(x, y) == Sum(Between(P, x, y))
           before == members[m].opening - owed(first, start - 1)
                     + paid(FirstOf(first), FirstOf(start) - 1)
<1>1. first \in Nat /\ members[m].opening \in Int
    BY ListedMember
<1>2. a \in Nat /\ b \in Nat
    BY MonthAssumption DEF Months
<1>3. start \in Nat /\ end \in Nat /\ first <= start /\ start <= end
  <2> HIDE DEF first
  <2>1. Month(FirstOf(a)) = a /\ Month(FirstOf(b)) = b
    BY <1>2, Calendar
  <2>2. start \in Nat /\ first <= start
    BY <2>1, <1>1, <1>2, MaxTwo
  <2> HIDE DEF start
  <2>3. end \in Nat /\ start <= end
    BY <2>1, <2>2, <1>2, MaxTwo
  <2> QED BY <2>2, <2>3
<1>4. after = end + 1
  <2> HIDE DEF first, start, end
  <2>1. Month(FirstOf(end + 1)) = end + 1
    BY <1>3, Calendar
  <2> QED BY <2>1, <1>1, <1>3, MaxTwo
<1>5. /\ FirstOf(a) # None /\ FirstOf(b) # None /\ FirstOf(end + 1) # None
      /\ FirstOf(first) \in Int /\ FirstOf(start) \in Int /\ FirstOf(end + 1) \in Int
  <2> HIDE DEF first, start, end
  <2>1. first \in Int /\ start \in Int /\ end + 1 \in Int /\ a \in Int /\ b \in Int
    BY <1>1, <1>2, <1>3
  <2>2. \A n \in Int : FirstOf(n) \in Int
    BY Calendar
  <2> QED BY <2>1, <2>2, NoneAssumption
<1>6. /\ Statement(m, FirstOf(a), FirstOf(b)).to = end
      /\ Statement(m, FirstOf(a), FirstOf(b)).end
           = before - owed(start, end) + paid(FirstOf(start), EndOf(end))
    BY <1>5 DEF Statement
<1>7. Statement(m, FirstOf(end + 1), None).start
        = members[m].opening - owed(first, after - 1) + paid(FirstOf(first), FirstOf(after) - 1)
    BY <1>5 DEF Statement
<1>8. P \in SUBSET FeePayments
    BY DEF PaymentsOf
<1> HIDE DEF first, P, start, end, after
<1>9. after - 1 = end /\ FirstOf(after) - 1 = EndOf(end) /\ EndOf(end) \in Int
  <2>1. EndOf(end) = FirstOf(end + 1) - 1
    BY <1>3, Calendar
  <2> QED BY <1>3, <1>4, <1>5, <2>1
<1>10. /\ owed(first, start - 1) \in Int /\ owed(start, end) \in Int
       /\ owed(first, end) = owed(first, start - 1) + owed(start, end)
  <2>1. CASE members[m].freed
    BY <2>1
  <2>2. CASE ~members[m].freed
    <3>1. first \in Int /\ start \in Int /\ end \in Int /\ first <= start /\ start <= end + 1
      BY <1>1, <1>3
    <3>2. /\ FeesOf(first, start - 1) \in Int /\ FeesOf(start, end) \in Int
          /\ FeesOf(first, end) = FeesOf(first, start - 1) + FeesOf(start, end)
      BY <3>1, FeesJoin
    <3> QED BY <2>2, <3>2
  <2> QED BY <2>1, <2>2
<1>11. /\ paid(FirstOf(first), FirstOf(start) - 1) \in Int
       /\ paid(FirstOf(start), EndOf(end)) \in Int
       /\ paid(FirstOf(first), EndOf(end))
            = paid(FirstOf(first), FirstOf(start) - 1) + paid(FirstOf(start), EndOf(end))
  <2>1. FirstOf(first) <= FirstOf(start)
    <3>1. first \in Int /\ start \in Int /\ first <= start
      BY <1>1, <1>3
    <3> QED BY <3>1, Calendar
  <2>2. FirstOf(start) <= EndOf(end) + 1
    <3>1. start \in Int /\ end + 1 \in Int /\ start <= end + 1
      BY <1>3
    <3>2. FirstOf(start) <= FirstOf(end + 1)
      BY <3>1, Calendar
    <3> QED BY <3>2, <1>4, <1>5, <1>9
  <2> QED BY <2>1, <2>2, <1>5, <1>8, <1>9, PaymentsJoin
<1> HIDE DEF owed, paid
<1>12. Statement(m, FirstOf(end + 1), None).start
         = members[m].opening - owed(first, end) + paid(FirstOf(first), EndOf(end))
    BY <1>7, <1>9
<1>13. members[m].opening - owed(first, end) + paid(FirstOf(first), EndOf(end))
         = before - owed(start, end) + paid(FirstOf(start), EndOf(end))
    BY <1>1, <1>10, <1>11
<1> QED BY <1>6, <1>12, <1>13

(* In every reachable state a member's statements join without a gap and   *)
(* without an overlap, whatever periods are asked for.                     *)
THEOREM StatementsAddUp == Spec => []StatementsJoin
<1> QED BY TypeCorrect, StatementsFollow, PTL

(* A fee that starts in the current month or later leaves what was owed    *)
(* for the months before as it is.                                         *)
LEMMA PastFees ==
    ASSUME TypeOK, today' = today, NEW k \in Months, NEW amount, k >= today,
           fees' = [fees EXCEPT ![k] = amount], NEW month \in Int, month < today
    PROVE  FeeAt(month)' = FeeAt(month)
<1> DEFINE started == {n \in 0..month : n \in Months /\ fees[n] # None}
<1>1. \A n \in 0..month : n \in Months => fees'[n] = fees[n]
  <2>1. k \in Int /\ today \in Int
    BY MonthAssumption DEF Months, TypeOK
  <2>2. \A n \in 0..month : n # k
    BY <2>1
  <2> QED BY <2>2 DEF TypeOK
<1>2. {n \in 0..month : n \in Months /\ fees'[n] # None} = started
    BY <1>1
<1>3. CASE started = {}
    BY <1>2, <1>3 DEF FeeAt
<1>4. CASE started # {}
  <2>1. 0..month \subseteq Int /\ IsFiniteSet(0..month) /\ started \in SUBSET (0..month)
    BY FS_Interval
  <2>2. FeeAt(month)' = fees'[Max(started)] /\ FeeAt(month) = fees[Max(started)]
    BY <1>2, <1>4 DEF FeeAt
  <2>3. started \subseteq Months
    OBVIOUS
  <2> HIDE DEF started
  <2>4. started \subseteq Int /\ IsFiniteSet(started)
    BY <2>1, FS_Subset
  <2>5. Max(started) \in started
    BY <2>4, <1>4, Greatest
  <2> QED BY <1>1, <2>1, <2>2, <2>3, <2>5
<1> QED BY <1>3, <1>4

(* So it changes no balance of a member whose first month is over.         *)
LEMMA PastBalances ==
    ASSUME TypeOK, FeesAreSums', [Next]_vars,
           NEW m \in Listed, members[m].since < FirstOf(today),
           NEW n \in Months, fees[n] = None, fees'[n] # None
    PROVE  Balance(m)' = Balance(m)
<1> DEFINE first == Month(members[m].since)
           P == {b \in FeePayments : Target(b) = m}
<1>1. PICK k \in Months, amount \in Amounts : CreateFee(k, amount)
  <2>1. fees' # fees
    OBVIOUS
  <2>2. ~ \E k \in Months : DeleteFee(k)
  <3>1. ASSUME NEW k \in Months, DeleteFee(k) PROVE FALSE
      <4>1. fees'[n] = fees[n] \/ fees'[n] = None
        BY <3>1 DEF DeleteFee, TypeOK
      <4> QED BY <4>1
    <3> QED BY <3>1
  <2>3. /\ \A q \in Members, since \in Since, opening \in Openings, freed \in BOOLEAN :
             ~UpdateFeeMember(q, since, opening, freed)
        /\ \A q \in Members : ~ChangeState(q)
    <3>1. ASSUME NEW q \in Members, NEW since \in Since, NEW opening \in Openings,
                 NEW freed \in BOOLEAN, UpdateFeeMember(q, since, opening, freed)
          PROVE  FALSE
      BY <2>1, <3>1 DEF UpdateFeeMember
    <3>2. ASSUME NEW q \in Members, ChangeState(q) PROVE FALSE
      BY <2>1, <3>2 DEF ChangeState
    <3> QED BY <3>1, <3>2
  <2>4. /\ \A i \in Ibans, who \in Partners : ~SetPartner(i, who)
        /\ \A b \in Bookings, who \in Partners : ~Delegate(b, who)
    BY <2>1 DEF SetPartner, Delegate
  <2>5. /\ \A b \in Bookings, i \in Ibans, day \in BookedOn, hit \in BOOLEAN :
             ~Import(b, i, day, hit)
        /\ \A b \in Bookings, direct \in {"none", "fee", "other"} : ~Assign(b, direct)
        /\ ~NextMonth
    BY <2>1 DEF Import, Assign, NextMonth
  <2>6. vars' # vars
    BY <2>1 DEF vars
  <2> QED BY <2>2, <2>3, <2>4, <2>5, <2>6 DEF Next
<1>2. /\ k >= today /\ fees' = [fees EXCEPT ![k] = amount]
      /\ today' = today /\ members' = members /\ partner' = partner /\ bookings' = bookings
    BY <1>1 DEF CreateFee
<1>3. first \in Nat /\ members[m].since \in Nat /\ today \in Nat
    BY ListedMember, MonthAssumption DEF TypeOK, Months
<1>4. first < today
    BY <1>3, Calendar
<1>5. ListEnd(m) = today - 1 /\ ListEnd(m)' = today - 1
  <2>1. Max({first, today - 1}) = today - 1
    <3> HIDE DEF first
    <3> QED BY <1>3, <1>4, MaxTwo
  <2> QED BY <1>2, <2>1 DEF ListEnd
<1>6. FeesOf(first, today - 1)' = FeesOf(first, today - 1)
  <2> DEFINE D == first..(today - 1)
             v == [i \in D |-> FeeAt(i)']
             w == [i \in D |-> FeeAt(i)]
  <2>1. \A i \in D : i \in Int /\ i < today
    BY <1>3
  <2>2. \A i \in D : FeeAt(i)' = FeeAt(i)
    BY <1>2, <2>1, PastFees
  <2>3. v = w
    BY <2>2
  <2>4. FeesOf(first, today - 1) = SumOf(w, D)
    BY <1>3, FeesSum DEF FeesAreSums
  <2>5. \A a, b \in Int : FeesOf(a, b)' = SumOf([i \in a..b |-> FeeAt(i)'], a..b)
    BY Zenon DEF FeesAreSums
  <2>6. FeesOf(first, today - 1)' = SumOf(v, D)
    BY <1>2, <1>3, <2>5
  <2> QED BY <2>3, <2>4, <2>6
<1>7. P' = P
    BY <1>2 DEF FeePayments, Target, WithOwnIban, Listed, IsFeeMember, OwnIbans
<1>8. /\ Between(P, FirstOf(first), EndOf(today - 1))'
           = Between(P, FirstOf(first), EndOf(today - 1))
    BY <1>2, <1>7 DEF Between
<1> QED BY <1>2, <1>5, <1>6, <1>8 DEF Balance

(* In every behaviour, a new fee leaves the balance of every member whose  *)
(* first month is over as it was.                                          *)
THEOREM PastIsSettled == Spec => NewFeeLeavesPast
<1>1. TypeOK /\ FeesAreSums' /\ [Next]_vars =>
        [\A m \in Listed :
            /\ members[m].since < FirstOf(today)
            /\ (\E n \in Months : fees[n] = None /\ fees'[n] # None)
            => Balance(m)' = Balance(m)]_vars
    BY PastBalances
<1> QED BY <1>1, FeesSum, TypeCorrect, PTL DEF Spec, NewFeeLeavesPast

=============================================================================
