-------------------------- MODULE P4xLedgerProofs --------------------------
(***************************************************************************)
(* Proofs about P4xLedger for every set of entries, accounts, categories,  *)
(* filters and requests: rows refer to rows that exist, the hits follow    *)
(* the rules, closed accounts stay empty, assignments add up, and making a *)
(* filter permanent recategorises nothing.                                 *)
(*                                                                         *)
(* What a request writes at its commit was read at its start. The          *)
(* invariant says what is still true of it then: its shape always          *)
(* (Shaped), what it read only while nobody else committed (Fresh), and    *)
(* what was checked as far as the requests checked beside it leave it      *)
(* alone (Checked).                                                        *)
(***************************************************************************)
EXTENDS P4xLedger, FiniteSetTheorems, TLAPS

Saves == {"create", "update"}
Flies(p) == req[p].pc # "idle"
Late(p)  == req[p].pc \in {"matched", "checked"}

(* What a request of each kind may write, whatever others did meanwhile.   *)
Shaped(r) ==
    /\ r.ask.op # "none"
    /\ r.ask.op \in Saves <=> r.ask.rule # None
    /\ r.ask.op \in Saves \cup {"drop", "convert"} => r.ask.filter \in Filters
    /\ r.ask.op \in {"import", "close"} <=> r.ask.account # None
    /\ r.ask.op \in {"assign", "release"} => r.ask.hash \in Hashes
    /\ r.ask.op # "import" => Rows(r) = {}
    /\ r.ask.op \notin {"assign", "release"} => r.delta.offD = {}
    /\ r.ask.op \notin {"assign", "convert"} => r.delta.onD = {}
    /\ r.ask.op \notin Rebuilds \cup {"release"} => r.delta.onH = {}
    /\ r.ask.op = "drop" => \A x \in r.delta.offH : x[2] = r.ask.filter
    /\ r.ask.op \in {"dropCategory", "close"} => r.delta.offH = {}
    /\ r.ask.op = "assign" => r.delta.onD # {} /\ \A d \in r.delta.onD : d.hash = r.ask.hash
    /\ \A h \in r.delta.aside \cup r.delta.revive \cup r.delta.rebind : tx[h].state # "none"

(* New assignments: of known transactions, one for each category, adding   *)
(* up to the amount by themselves.                                         *)
Splits(D) ==
    /\ \A d \in D : tx[d.hash].state # "none"
    /\ \A d, e \in D : d.hash = e.hash /\ d.category = e.category => d = e
    /\ \A h \in Directed(D) : Total(OfHash(D, h)) = Amount[h[1]]

(* What a conversion turns into assignments, and which.                    *)
HitBy(f)  == {x \in hits : x[2] = f}
HitsOf(h) == {x \in hits : x[1] = h}
Gained(f) == {h \in Booked \ Directed(directs) : <<h, f>> \in hits}
Made(f)   == {[hash |-> h, category |-> filters[f].category, amount |-> Amount[h[1]]] :
                 h \in Gained(f)}

(* While nobody else has committed, what a request read is still so.       *)
Fresh(r) ==
    /\ r.ask.op \in Rebuilds =>
         /\ r.delta.offH = hits /\ r.delta.seen = Directed(directs)
         /\ r.pc # "wrote" =>
              r.delta.onH = Found(TxWith(r), FiltersWith(r), Hashes \ r.delta.seen)
    /\ r.ask.op = "import" =>
         /\ accounts[r.ask.account].stage = "open"
         /\ \A h \in r.delta.revive : h \in r.delta.rebind \/ tx[h].account = r.ask.account
    /\ r.ask.op = "drop" => r.delta.offH = HitBy(r.ask.filter)
    /\ r.ask.op \in {"assign", "release"} =>
         /\ tx[r.ask.hash].state = "booked"
         /\ r.delta.offD = OfHash(directs, r.ask.hash)
         /\ r.delta.offH = HitsOf(r.ask.hash)
    /\ r.ask.op = "release" /\ r.pc # "wrote" =>
         r.delta.onH = Found(tx, filters, {r.ask.hash})
    /\ r.ask.op = "convert" =>
         /\ filters[r.ask.filter] # None
         /\ WithoutCategory = {}
         /\ r.delta.onD = Made(r.ask.filter)
         /\ r.delta.offH = {x \in hits : x[1] \in Gained(r.ask.filter)} \cup HitBy(r.ask.filter)
    /\ r.ask.op = "close" => \A h \in Booked : tx[h].account # r.ask.account

(* What the check of a request found holds until its commit: for the       *)
(* references without exception,                                           *)
Referring(r) ==
    /\ \A d \in r.delta.onD :
          /\ d.category \in categories
          /\ \A e \in directs \ r.delta.offD : <<e.hash, e.category>> # <<d.hash, d.category>>
    /\ r.ask.rule # None => r.ask.rule.category \in categories
    /\ r.ask.op = "dropCategory" => ~Used(r.ask.category) /\ r.ask.category \notin spent

(* and for the sums of the transactions that were not assigned twice.      *)
Adding(r) ==
    \A h \in Directed(r.delta.offD \cup r.delta.onD) \ raced :
        OfHash(DirectsWith(r), h) # {} => Total(OfHash(DirectsWith(r), h)) = Amount[h[1]]

(* Of two requests in flight one waits for the other, and both are checked *)
(* at once only if they keep out of each other's way.                      *)
OrderInv ==
    /\ \A p \in Requests : ~Flies(p) => req[p].after = {}
    /\ \A p \in Requests : \A q \in req[p].after : q # p /\ Flies(q)
    /\ \A p, q \in Requests :
         p # q /\ Flies(p) /\ Flies(q) => p \in req[q].after \/ q \in req[p].after
    /\ \A p \in Requests : Late(p) => \A q \in req[p].after : ~Contend(req[p], req[q])

PairInv ==
    \A p, q \in Requests :
       p # q /\ req[p].pc = "checked" /\ req[q].pc = "checked" =>
         /\ ~Waits(req[p], req[q])
         /\ Directed(req[p].delta.onD) \cap Directed(req[q].delta.onD) \subseteq raced

ShapeInv ==
    \A p \in Requests : Flies(p) =>
       /\ Shaped(req[p])
       /\ Splits(req[p].delta.onD)
       /\ req[p].delta.offD \subseteq directs

FreshInv == \A p \in Requests : Flies(p) /\ ~req[p].stale => Fresh(req[p])

CheckedInv ==
    \A p \in Requests : req[p].pc = "checked" => Referring(req[p]) /\ Adding(req[p])

(* A transaction that exists belongs to an account.                        *)
BoundInv == \A h \in Hashes : tx[h].state # "none" => tx[h].account \in Accounts

IInv ==
    /\ TypeOK /\ BoundInv /\ OrderInv /\ PairInv /\ ShapeInv /\ FreshInv /\ CheckedInv
    /\ DirectsAddUp /\ HitsFollowRules /\ ClosedHoldsNothing

-----------------------------------------------------------------------------
(* Sums over finite sets. What a fold gives is shown by looking for a      *)
(* smallest set for which it would not.                                    *)

One(s) == CHOOSE d \in s : TRUE

(* What the recursion of a sum over D says of the sums over its subsets.   *)
Sums(g, w, D) ==
    g = [s \in SUBSET D |-> IF s = {} THEN 0 ELSE g[s \ {One(s)}] + w[One(s)]]

SumOf(w, D) == (CHOOSE g : Sums(g, w, D))[D]

(* Among sets of subsets of a finite set there is a smallest one.          *)
LEMMA Smallest ==
    ASSUME NEW D, IsFiniteSet(D), NEW B \in SUBSET SUBSET D, B # {}
    PROVE  \E s \in B : \A t \in B : ~(t \subseteq s /\ t # s)
<1>1. B \subseteq FiniteSubsetsOf(D)
    BY FS_Subset DEF FiniteSubsetsOf
<1>2. PICK s \in B : \A t \in B : ~(<<t, s>> \in StrictSubsetOrdering(D))
    BY <1>1, FS_StrictSubsetOrderingWellFounded, WFMin
<1>3. ASSUME NEW t \in B, t \subseteq s, t # s PROVE FALSE
    BY <1>1, <1>2, <1>3 DEF StrictSubsetOrdering, FiniteSubsetsOf
<1> QED BY <1>3

(* The member a fold takes next is one.                                    *)
LEMMA OneIn == ASSUME NEW s, s # {} PROVE One(s) \in s
    BY DEF One

(* Two such recursions agree wherever both are defined.                    *)
LEMMA SumsAgree ==
    ASSUME NEW w, NEW D, NEW E, NEW g, NEW k, Sums(g, w, D), Sums(k, w, E),
           NEW s, s \subseteq D, s \subseteq E, IsFiniteSet(s)
    PROVE  g[s] = k[s]
<1> DEFINE B == {t \in SUBSET s : g[t] # k[t]}
<1>1. SUFFICES ASSUME B # {} PROVE FALSE
    OBVIOUS
<1>2. PICK t \in B : \A u \in B : ~(u \subseteq t /\ u # t)
  <2> B \in SUBSET SUBSET s
    OBVIOUS
  <2> HIDE DEF B
  <2> QED BY <1>1, Smallest
<1>3. CASE t = {}
  <2>1. g[{}] = 0 /\ k[{}] = 0
    BY DEF Sums
  <2> QED BY <1>3, <2>1
<1>4. CASE t # {}
  <2>1. One(t) \in t
    BY <1>4, OneIn
  <2>2. g[t \ {One(t)}] = k[t \ {One(t)}]
    BY <1>2, <2>1
  <2>3. g[t] = g[t \ {One(t)}] + w[One(t)]
    BY <1>4 DEF Sums
  <2>4. k[t] = k[t \ {One(t)}] + w[One(t)]
    BY <1>4 DEF Sums
  <2> QED BY <2>2, <2>3, <2>4
<1> QED BY <1>3, <1>4

(* There is one over every finite set: the fold is what it says it is.     *)
LEMMA SumsExist ==
    ASSUME NEW w, NEW D, IsFiniteSet(D)
    PROVE  Sums(CHOOSE g : Sums(g, w, D), w, D)
<1> DEFINE B == {t \in SUBSET D : ~ \E g : Sums(g, w, t)}
<1>1. SUFFICES ASSUME B # {} PROVE FALSE
    BY DEF B
<1>2. PICK s \in B : \A u \in B : ~(u \subseteq s /\ u # s)
  <2> B \in SUBSET SUBSET D
    OBVIOUS
  <2> HIDE DEF B
  <2> QED BY <1>1, Smallest
<1> DEFINE G(t) == (CHOOSE g : Sums(g, w, t))
           h == [t \in SUBSET s |-> IF t = {} THEN 0
                                    ELSE G(t \ {One(t)})[t \ {One(t)}] + w[One(t)]]
<1>3. ASSUME NEW t \in SUBSET s, t # s PROVE Sums(G(t), w, t)
    BY <1>2, <1>3
<1>4. ASSUME NEW t \in SUBSET s, t # s PROVE h[t] = G(t)[t]
  <2>1. CASE t = {}
    <3>1. Sums(G(t), w, t)
      BY <1>3, <1>4
    <3>2. G(t)[{}] = 0
      BY <3>1, <2>1 DEF Sums
    <3> QED BY <2>1, <3>2
  <2>2. CASE t # {}
    <3> DEFINE u == t \ {One(t)}
    <3>1. One(t) \in t
      BY <2>2, OneIn
    <3>2. u \in SUBSET s /\ u # s /\ u \subseteq t /\ IsFiniteSet(u)
      BY <3>1, <1>4, FS_Subset
    <3>3. Sums(G(t), w, t) /\ Sums(G(u), w, u)
      BY <1>3, <1>4, <3>2
    <3> HIDE DEF G
    <3>4. G(t)[t] = G(t)[u] + w[One(t)]
      BY <3>3, <2>2 DEF Sums
    <3>5. G(t)[u] = G(u)[u]
      BY <3>2, <3>3, SumsAgree
    <3>6. h[t] = G(u)[u] + w[One(t)]
      BY <2>2
    <3> QED BY <3>4, <3>5, <3>6
  <2> QED BY <2>1, <2>2
<1>5. ASSUME NEW t \in SUBSET s, t # {} PROVE h[t] = h[t \ {One(t)}] + w[One(t)]
  <2> DEFINE u == t \ {One(t)}
  <2>1. One(t) \in t
    BY <1>5, OneIn
  <2>2. u \in SUBSET s /\ u # s
    BY <2>1
  <2> HIDE DEF G
  <2>3. h[t] = G(u)[u] + w[One(t)]
    BY <1>5
  <2>4. h[u] = G(u)[u]
    BY <1>4, <2>2
  <2> QED BY <2>3, <2>4
<1>6. Sums(h, w, s)
  <2> HIDE DEF G
  <2>1. h[{}] = 0
    OBVIOUS
  <2>3. h = [t \in SUBSET s |-> h[t]]
    OBVIOUS
  <2> HIDE DEF h
  <2>2. \A t \in SUBSET s : h[t] = IF t = {} THEN 0 ELSE h[t \ {One(t)}] + w[One(t)]
    BY <1>5, <2>1
  <2> QED BY <2>2, <2>3 DEF Sums
<1> QED BY <1>2, <1>6

(* The equation of the recursion, without the function that defines it.    *)
LEMMA SumStep ==
    ASSUME NEW w, NEW D, IsFiniteSet(D)
    PROVE  /\ SumOf(w, {}) = 0
           /\ D # {} => SumOf(w, D) = SumOf(w, D \ {One(D)}) + w[One(D)]
<1> DEFINE G(t) == (CHOOSE g : Sums(g, w, t))
<1>1. \A t : SumOf(w, t) = G(t)[t]
    BY DEF SumOf
<1>2. \A t : IsFiniteSet(t) => Sums(G(t), w, t)
    BY SumsExist
<1> HIDE DEF G
<1>3. G({})[{}] = 0
    BY <1>2, FS_EmptySet DEF Sums
<1>4. ASSUME D # {} PROVE G(D)[D] = G(D \ {One(D)})[D \ {One(D)}] + w[One(D)]
  <2> DEFINE u == D \ {One(D)}
  <2>1. u \subseteq D /\ IsFiniteSet(u)
    BY FS_Subset
  <2>2. Sums(G(D), w, D) /\ Sums(G(u), w, u)
    BY <1>2, <2>1
  <2>3. G(D)[u] = G(u)[u]
    BY <2>1, <2>2, SumsAgree
  <2>4. G(D)[D] = G(D)[u] + w[One(D)]
    BY <2>2, <1>4 DEF Sums
  <2> QED BY <2>3, <2>4
<1> QED BY <1>1, <1>3, <1>4

(* A sum of integers is one.                                               *)
LEMMA SumInt ==
    ASSUME NEW w, NEW D, IsFiniteSet(D), \A d \in D : w[d] \in Int
    PROVE  SumOf(w, D) \in Int
<1> DEFINE B == {t \in SUBSET D : SumOf(w, t) \notin Int}
<1>1. SUFFICES ASSUME B # {} PROVE FALSE
    OBVIOUS
<1>2. PICK s \in B : \A u \in B : ~(u \subseteq s /\ u # s)
  <2> B \in SUBSET SUBSET D
    OBVIOUS
  <2> HIDE DEF B
  <2> QED BY <1>1, Smallest
<1>3. IsFiniteSet(s) /\ s # {} /\ One(s) \in s
  <2>1. IsFiniteSet(s)
    BY FS_Subset
  <2>2. SumOf(w, {}) = 0
    BY SumStep
  <2> QED BY <2>1, <2>2, OneIn
<1>4. SumOf(w, s \ {One(s)}) \in Int
    BY <1>2, <1>3
<1>5. SumOf(w, s) = SumOf(w, s \ {One(s)}) + w[One(s)]
    BY <1>3, SumStep
<1> QED BY <1>3, <1>4, <1>5

(* Any member may be taken out of a sum.                                   *)
LEMMA SumRemove ==
    ASSUME NEW w, NEW D, IsFiniteSet(D), \A d \in D : w[d] \in Int, NEW x \in D
    PROVE  SumOf(w, D) = SumOf(w, D \ {x}) + w[x]
<1> DEFINE B == {t \in SUBSET D : \E d \in t : SumOf(w, t) # SumOf(w, t \ {d}) + w[d]}
<1>1. SUFFICES ASSUME B # {} PROVE FALSE
    OBVIOUS
<1>2. PICK s \in B : \A u \in B : ~(u \subseteq s /\ u # s)
  <2> B \in SUBSET SUBSET D
    OBVIOUS
  <2> HIDE DEF B
  <2> QED BY <1>1, Smallest
<1>3. PICK d \in s : SumOf(w, s) # SumOf(w, s \ {d}) + w[d]
    OBVIOUS
<1> DEFINE o == One(s)
           r == (s \ {o}) \ {d}
<1>4. IsFiniteSet(s) /\ o \in s
    BY FS_Subset, OneIn
<1>5. SumOf(w, s) = SumOf(w, s \ {o}) + w[o]
    BY <1>4, SumStep
<1>6. o # d
    BY <1>3, <1>5
<1>7. SumOf(w, s \ {o}) = SumOf(w, r) + w[d]
  <2>1. s \ {o} \notin B
    BY <1>2, <1>4
  <2> QED BY <2>1, <1>6
<1>8. SumOf(w, s \ {d}) = SumOf(w, (s \ {d}) \ {o}) + w[o]
  <2>1. s \ {d} \notin B /\ o \in s \ {d}
    BY <1>2, <1>4, <1>6
  <2> QED BY <2>1
<1>9. r = (s \ {d}) \ {o}
    OBVIOUS
<1>10. SumOf(w, r) \in Int /\ w[o] \in Int /\ w[d] \in Int
  <2>1. IsFiniteSet(r) /\ \A e \in r : w[e] \in Int
    BY FS_Subset
  <2> QED BY <2>1, <1>4, SumInt
<1> HIDE DEF r, o
<1> QED BY <1>3, <1>5, <1>7, <1>8, <1>9, <1>10

(* The sum over two sets that share nothing.                               *)
LEMMA SumJoin ==
    ASSUME NEW w, NEW C, NEW D, IsFiniteSet(C), IsFiniteSet(D), C \cap D = {},
           \A d \in C \cup D : w[d] \in Int
    PROVE  SumOf(w, C \cup D) = SumOf(w, C) + SumOf(w, D)
<1> DEFINE B == {t \in SUBSET D : SumOf(w, C \cup t) # SumOf(w, C) + SumOf(w, t)}
<1>1. SUFFICES ASSUME B # {} PROVE FALSE
    OBVIOUS
<1>2. PICK s \in B : \A u \in B : ~(u \subseteq s /\ u # s)
  <2> B \in SUBSET SUBSET D
    OBVIOUS
  <2> HIDE DEF B
  <2> QED BY <1>1, Smallest
<1>3. SumOf(w, C) \in Int
    BY SumInt
<1>4. s # {}
  <2>1. SumOf(w, {}) = 0
    BY SumStep
  <2>2. C \cup {} = C
    OBVIOUS
  <2>3. SumOf(w, C \cup {}) = SumOf(w, C) + SumOf(w, {})
    BY <2>1, <2>2, <1>3
  <2> QED BY <2>3
<1>5. PICK x \in s : TRUE
    BY <1>4
<1> DEFINE r == s \ {x}
<1>6. SumOf(w, C \cup r) = SumOf(w, C) + SumOf(w, r)
    BY <1>2
<1>7. IsFiniteSet(s) /\ IsFiniteSet(r) /\ IsFiniteSet(C \cup s)
    BY FS_Subset, FS_Union
<1>8. SumOf(w, s) = SumOf(w, r) + w[x]
    BY <1>7, SumRemove
<1>9. SumOf(w, C \cup s) = SumOf(w, C \cup r) + w[x]
  <2>1. (C \cup s) \ {x} = C \cup r /\ x \in C \cup s
    OBVIOUS
  <2>2. \A d \in C \cup s : w[d] \in Int
    OBVIOUS
  <2> QED BY <2>1, <2>2, <1>7, SumRemove
<1>10. SumOf(w, r) \in Int /\ w[x] \in Int
    BY <1>7, SumInt
<1> HIDE DEF r
<1> QED BY <1>3, <1>6, <1>8, <1>9, <1>10

(* Equal members add up to equal sums.                                     *)
LEMMA SumSame ==
    ASSUME NEW v, NEW w, NEW D, IsFiniteSet(D), \A d \in D : v[d] = w[d]
    PROVE  SumOf(v, D) = SumOf(w, D)
<1> DEFINE B == {t \in SUBSET D : SumOf(v, t) # SumOf(w, t)}
<1>1. SUFFICES ASSUME B # {} PROVE FALSE
    OBVIOUS
<1>2. PICK s \in B : \A u \in B : ~(u \subseteq s /\ u # s)
  <2> B \in SUBSET SUBSET D
    OBVIOUS
  <2> HIDE DEF B
  <2> QED BY <1>1, Smallest
<1>3. IsFiniteSet(s)
    BY FS_Subset
<1>4. SumOf(v, {}) = 0 /\ SumOf(w, {}) = 0
    BY SumStep
<1>5. One(s) \in s
    BY <1>4, OneIn
<1>6. SumOf(v, s \ {One(s)}) = SumOf(w, s \ {One(s)})
    BY <1>2, <1>5
<1>7. /\ SumOf(v, s) = SumOf(v, s \ {One(s)}) + v[One(s)]
      /\ SumOf(w, s) = SumOf(w, s \ {One(s)}) + w[One(s)]
    BY <1>3, <1>5, SumStep
<1> QED BY <1>5, <1>6, <1>7

(* The total of the trigger is such a sum.                                 *)
LEMMA TotalSum ==
    ASSUME NEW D, IsFiniteSet(D)
    PROVE  Total(D) = SumOf([d \in D |-> d.amount], D)
<1> DEFINE w == [d \in D |-> d.amount]
           P(g) == g = [s \in SUBSET D |-> IF s = {} THEN 0
                        ELSE g[s \ {One(s)}] + One(s).amount]
<1>1. Total(D) = (CHOOSE g : P(g))[D]
    BY DEF Total, FoldSet, MapThenFoldSet, One
<1>2. \A g : P(g) <=> Sums(g, w, D)
  <2> SUFFICES ASSUME NEW g PROVE P(g) <=> Sums(g, w, D)
    OBVIOUS
  <2>1. \A s \in SUBSET D : s # {} => One(s) \in D
    BY OneIn
  <2>2. \A s \in SUBSET D : s # {} => w[One(s)] = One(s).amount
    BY <2>1
  <2> HIDE DEF w
  <2> QED BY <2>2 DEF Sums
<1> HIDE DEF w, P
<1>3. Sums(CHOOSE g : Sums(g, w, D), w, D)
    BY SumsExist
<1>4. P(CHOOSE g : P(g))
    BY <1>2, <1>3
<1>5. Sums(CHOOSE g : P(g), w, D)
    BY <1>2, <1>4
<1>6. (CHOOSE g : P(g))[D] = (CHOOSE g : Sums(g, w, D))[D]
    BY <1>3, <1>5, SumsAgree
<1>7. Total(D) = SumOf(w, D)
    BY <1>1, <1>6 DEF SumOf
<1> QED BY <1>7 DEF w

(* Rows of assignments have amounts that are integers, so their totals add *)
(* up.                                                                     *)
LEMMA TotalJoin ==
    ASSUME NEW C \in SUBSET Direct, NEW D \in SUBSET Direct,
           IsFiniteSet(C), IsFiniteSet(D), C \cap D = {}
    PROVE  /\ Total(C) \in Int /\ Total(D) \in Int
           /\ Total(C \cup D) = Total(C) + Total(D)
<1> DEFINE v == [d \in C |-> d.amount]
           u == [d \in D |-> d.amount]
           w == [d \in C \cup D |-> d.amount]
<1>1. \A d \in Direct : d.amount \in Int
    BY DEF Direct
<1>2. IsFiniteSet(C \cup D)
    BY FS_Union
<1>3. /\ Total(C) = SumOf(v, C) /\ Total(D) = SumOf(u, D)
      /\ Total(C \cup D) = SumOf(w, C \cup D)
    BY <1>2, TotalSum
<1>4. SumOf(v, C) = SumOf(w, C) /\ SumOf(u, D) = SumOf(w, D)
  <2>1. (\A d \in C : v[d] = w[d]) /\ (\A d \in D : u[d] = w[d])
    OBVIOUS
  <2> HIDE DEF u, v, w
  <2> QED BY <2>1, SumSame
<1>5. \A d \in C \cup D : w[d] \in Int
    BY <1>1
<1> HIDE DEF u, v, w
<1>6. SumOf(w, C) \in Int /\ SumOf(w, D) \in Int
    BY <1>5, SumInt
<1>7. SumOf(w, C \cup D) = SumOf(w, C) + SumOf(w, D)
    BY <1>5, SumJoin
<1> QED BY <1>3, <1>4, <1>6, <1>7

(* The total of one row is its amount, of none zero.                       *)
LEMMA TotalOne ==
    /\ Total({}) = 0
    /\ \A d \in Direct : Total({d}) = d.amount
<1>1. Total({}) = 0
    BY TotalSum, SumStep, FS_EmptySet
<1>2. ASSUME NEW d \in Direct PROVE Total({d}) = d.amount
  <2> DEFINE w == [e \in {d} |-> e.amount]
  <2>1. IsFiniteSet({d})
    BY FS_Singleton
  <2>2. Total({d}) = SumOf(w, {d})
    BY <2>1, TotalSum
  <2>3. w[d] = d.amount /\ d.amount \in Int
    BY DEF Direct
  <2> HIDE DEF w
  <2>4. SumOf(w, {d}) = SumOf(w, {d} \ {d}) + w[d]
    BY <2>1, <2>3, SumRemove
  <2>5. SumOf(w, {d} \ {d}) = 0
    BY <2>1, SumStep
  <2> QED BY <2>2, <2>3, <2>4, <2>5
<1> QED BY <1>1, <1>2

-----------------------------------------------------------------------------
(* Rows and requests                                                       *)

(* A hash belongs to an entry.                                             *)
LEMMA HashEntry ==
    /\ \A h \in Hashes : h[1] \in Entries
    /\ \A file \in Files : HashesOf(file) \subseteq Hashes
    BY FileAssumption DEF Hashes, HashesOf

(* A transaction is assigned to finitely many categories.                  *)
LEMMA FewDirects ==
    ASSUME NEW D \in SUBSET Direct, NEW h,
           \A d, e \in D : d.hash = e.hash /\ d.category = e.category => d = e
    PROVE  IsFiniteSet(OfHash(D, h)) /\ OfHash(D, h) \subseteq Direct
<1> DEFINE f == [d \in OfHash(D, h) |-> d.category]
<1>1. f \in Injection(OfHash(D, h), Categories)
  <2>1. \A d \in OfHash(D, h) : d \in D /\ d.hash = h /\ d.category \in Categories
    BY DEF OfHash, Direct
  <2>2. f \in [OfHash(D, h) -> Categories]
    BY <2>1
  <2>3. \A d, e \in OfHash(D, h) : f[d] = f[e] => d = e
    BY <2>1
  <2> HIDE DEF f
  <2> QED BY <2>2, <2>3 DEF Injection, IsInjective
<1> QED BY <1>1, FS_Injection, TableAssumption DEF OfHash

(* A request that does nothing, and the records of one that does.          *)
LEMMA BlankTypes == Idle.delta \in Delta /\ NoDelta \in Delta /\ NoAsk \in Ask /\ Idle.ask \in Ask
    BY DEF Idle, NoDelta, NoAsk, Delta, Ask

(* Nothing is asked and nothing booked at first.                           *)
LEMMA InitInv == Init => IInv
<1> SUFFICES ASSUME Init PROVE IInv
    OBVIOUS
<1> USE DEF Init
<1>1. TypeOK
  <2>1. tx \in [Hashes -> Transaction]
    BY DEF Transaction
  <2>2. accounts \in [Accounts -> Account]
    BY DayAssumption DEF Account
  <2>3. categories \subseteq Categories
    BY RuleAssumption
  <2>4. req \in [Requests -> [pc : {"idle", "wrote", "matched", "checked"}, ask : Ask,
                              delta : Delta, after : SUBSET Requests, stale : BOOLEAN]]
    BY BlankTypes DEF Idle
  <2>5. asked \in 0..MaxAsked
    BY BoundAssumption
  <2> QED BY <2>1, <2>2, <2>3, <2>4, <2>5 DEF TypeOK, ReferencesHold
<1>2. BoundInv
    BY DEF BoundInv
<1>3. \A p \in Requests : req[p] = Idle /\ ~Flies(p) /\ ~Late(p) /\ req[p].pc # "checked"
    BY DEF Flies, Late, Idle
<1>4. OrderInv /\ PairInv /\ ShapeInv /\ FreshInv /\ CheckedInv
    BY <1>3 DEF OrderInv, PairInv, ShapeInv, FreshInv, CheckedInv, Idle
<1>5. DirectsAddUp
    BY DEF DirectsAddUp, Directed
<1>6. HitsFollowRules
    BY DEF HitsFollowRules, Found
<1>7. ClosedHoldsNothing
    BY DEF ClosedHoldsNothing, Booked
<1> QED BY <1>1, <1>2, <1>4, <1>5, <1>6, <1>7 DEF IInv

-----------------------------------------------------------------------------
(* Small saves                                                             *)

(* They add categories and open accounts, and leave the rest alone.        *)
LEMMA Saved ==
    ASSUME IInv, TypeOK', UNCHANGED <<tx, directs, spent, hits, filters, history, req>>,
           categories \subseteq categories',
           \A a \in Accounts :
              /\ accounts[a].stage = "open" => accounts'[a].stage = "open"
              /\ accounts'[a].stage = "closed" => accounts[a].stage = "closed"
    PROVE  IInv'
<1> USE DEF IInv, history
<1>1. BoundInv'
    BY DEF BoundInv
<1>2. OrderInv' /\ PairInv'
    BY DEF OrderInv, PairInv, Flies, Late
<1>3. ShapeInv'
    BY DEF ShapeInv, Shaped, Splits, Flies
<1>4. FreshInv'
  <2> SUFFICES ASSUME NEW p \in Requests, Flies(p), ~req[p].stale PROVE Fresh(req[p])'
    BY DEF FreshInv, Flies
  <2>1. Fresh(req[p]) /\ Shaped(req[p]) /\ req[p].ask \in Ask
    BY DEF FreshInv, ShapeInv, TypeOK, ReferencesHold
  <2>2. req[p].ask.op = "import" => req[p].ask.account \in Accounts
    BY <2>1 DEF Shaped, Ask
  <2>3. /\ TxWith(req[p])' = TxWith(req[p]) /\ FiltersWith(req[p])' = FiltersWith(req[p])
        /\ Booked' = Booked /\ WithoutCategory' = WithoutCategory
    BY DEF TxWith, FiltersWith, Booked, WithoutCategory
  <2>4. \A f : /\ HitBy(f)' = HitBy(f) /\ Gained(f)' = Gained(f) /\ Made(f)' = Made(f)
               /\ {x \in hits : x[1] \in Gained(f)}' = {x \in hits : x[1] \in Gained(f)}
    BY <2>3 DEF HitBy, Gained, Made
  <2>5. \A h : HitsOf(h)' = HitsOf(h)
    BY DEF HitsOf
  <2>6. /\ req'[p] = req[p] /\ directs' = directs /\ hits' = hits
        /\ filters' = filters /\ tx' = tx
    OBVIOUS
  <2> QED BY <2>1, <2>2, <2>3, <2>4, <2>5, <2>6 DEF Fresh
<1>5. CheckedInv'
    BY DEF CheckedInv, Referring, Adding, Used, DirectsWith
<1>6. DirectsAddUp' /\ HitsFollowRules'
    BY DEF DirectsAddUp, HitsFollowRules
<1>7. ClosedHoldsNothing'
    BY DEF ClosedHoldsNothing, Booked, BoundInv
<1> QED BY <1>1, <1>2, <1>3, <1>4, <1>5, <1>6, <1>7

(* A saved account, category or partner loses nothing that refers to it.   *)
LEMMA SaveInv ==
    ASSUME IInv,
           \/ \E a \in Accounts, d \in Days : CreateAccount(a, d) \/ UpdateAccount(a, d)
           \/ \E c \in Categories : CreateCategory(c)
           \/ \E h \in Hashes, given \in BOOLEAN : SetPartner(h, given)
    PROVE  IInv'
<1>1. ASSUME NEW a \in Accounts, NEW d \in Days, CreateAccount(a, d) \/ UpdateAccount(a, d)
      PROVE  IInv'
  <2> USE <1>1 DEF CreateAccount, UpdateAccount, IInv, TypeOK, ReferencesHold, Account, history
  <2>1. accounts' \in [Accounts -> Account]
    OBVIOUS
  <2>2. \A b \in Accounts :
           /\ accounts[b].stage = "open" => accounts'[b].stage = "open"
           /\ accounts'[b].stage = "closed" => accounts[b].stage = "closed"
    OBVIOUS
  <2>3. TypeOK'
    BY <2>1, BoundAssumption
  <2> QED BY <2>2, <2>3, Saved DEF history
<1>2. ASSUME NEW c \in Categories, CreateCategory(c) PROVE IInv'
  <2> USE <1>2 DEF CreateCategory, IInv, history
  <2>1. TypeOK'
    BY DEF TypeOK, ReferencesHold
  <2> QED BY <2>1, Saved
<1>3. ASSUME NEW h \in Hashes, NEW given \in BOOLEAN, SetPartner(h, given) PROVE IInv'
  <2> USE <1>3 DEF SetPartner, IInv, history
  <2>1. known' \subseteq {Iban[e] : e \in Entries}
    BY HashEntry DEF TypeOK, ReferencesHold
  <2>2. TypeOK'
    BY <2>1 DEF TypeOK, ReferencesHold
  <2> QED BY <2>2, Saved
<1> QED BY <1>1, <1>2, <1>3

-----------------------------------------------------------------------------
(* Requests begin                                                          *)

(* What is said of a request depends on the ledger alone, and on raced     *)
(* transactions being left out.                                            *)
LEMMA StillSo ==
    ASSUME UNCHANGED ledger, raced \subseteq raced'
    PROVE  /\ \A r : /\ Shaped(r)' <=> Shaped(r)
                     /\ Fresh(r)' <=> Fresh(r)
                     /\ Referring(r)' <=> Referring(r)
                     /\ Adding(r) => Adding(r)'
           /\ \A D : Splits(D)' <=> Splits(D)
<1> USE DEF ledger
<1>1. \A r : Shaped(r)' <=> Shaped(r)
    BY DEF Shaped, Rows
<1>2. \A r : Fresh(r)' <=> Fresh(r)
  <2> SUFFICES ASSUME NEW r PROVE Fresh(r)' <=> Fresh(r)
    OBVIOUS
  <2>1. /\ TxWith(r)' = TxWith(r) /\ FiltersWith(r)' = FiltersWith(r)
        /\ Booked' = Booked /\ WithoutCategory' = WithoutCategory
    BY DEF TxWith, FiltersWith, Booked, WithoutCategory
  <2>2. \A f : /\ HitBy(f)' = HitBy(f) /\ Gained(f)' = Gained(f) /\ Made(f)' = Made(f)
               /\ {x \in hits : x[1] \in Gained(f)}' = {x \in hits : x[1] \in Gained(f)}
    BY <2>1 DEF HitBy, Gained, Made
  <2>3. \A h : HitsOf(h)' = HitsOf(h)
    BY DEF HitsOf
  <2> QED BY <2>1, <2>2, <2>3 DEF Fresh
<1>3. \A r : Referring(r)' <=> Referring(r)
    BY DEF Referring, Used
<1>4. \A r : Adding(r) => Adding(r)'
    BY DEF Adding, DirectsWith
<1>5. \A D : Splits(D)' <=> Splits(D)
    BY DEF Splits
<1> QED BY <1>1, <1>2, <1>3, <1>4, <1>5

Opened(ask, delta) ==
    [pc |-> "wrote", ask |-> ask, delta |-> delta, after |-> Flying, stale |-> FALSE]

(* A request that writes what its kind may and has read what there is      *)
(* enters.                                                                 *)
LEMMA Entered ==
    ASSUME IInv, NEW p \in Requests, NEW ask \in Ask, NEW delta \in Delta,
           Enter(p, ask, delta),
           Shaped(Opened(ask, delta)), Fresh(Opened(ask, delta)),
           Splits(delta.onD), delta.offD \subseteq directs
    PROVE  IInv'
<1> DEFINE r == Opened(ask, delta)
<1> USE DEF IInv
<1>1. /\ req[p].pc = "idle" /\ req'[p] = r
      /\ \A q \in Requests \ {p} : req'[q] = req[q]
      /\ UNCHANGED <<ledger, history>> /\ asked' \in 0..MaxAsked
  <2>1. req' = [req EXCEPT ![p] = r] /\ asked' = asked + 1 /\ asked < MaxAsked
    BY DEF Enter, Opened
  <2> HIDE DEF r
  <2> QED BY <2>1, BoundAssumption DEF Enter, TypeOK, ReferencesHold
<1>2. /\ r.pc = "wrote" /\ r.ask = ask /\ r.delta = delta /\ r.after = Flying /\ ~r.stale
      /\ r \in [pc : {"idle", "wrote", "matched", "checked"}, ask : Ask,
                delta : Delta, after : SUBSET Requests, stale : BOOLEAN]
    BY DEF Opened, Flying
<1>3. Shaped(r) /\ Fresh(r) /\ Splits(r.delta.onD) /\ r.delta.offD \subseteq directs
    BY <1>2
<1> HIDE DEF r
<1>4. /\ Flies(p)' /\ ~Late(p)' /\ ~Flies(p) /\ p \notin Flying
      /\ \A q \in Requests \ {p} : (Flies(q)' <=> Flies(q)) /\ (Late(q)' <=> Late(q))
    BY <1>1, <1>2 DEF Flies, Late, Flying
<1>5. TypeOK'
  <2>1. req' \in [Requests -> [pc : {"idle", "wrote", "matched", "checked"}, ask : Ask,
                               delta : Delta, after : SUBSET Requests, stale : BOOLEAN]]
    BY <1>1, <1>2 DEF Enter, TypeOK, ReferencesHold, Opened
  <2> QED BY <2>1, <1>1 DEF TypeOK, ReferencesHold, ledger, history
<1>6. BoundInv' /\ DirectsAddUp' /\ HitsFollowRules' /\ ClosedHoldsNothing'
    BY <1>1 DEF BoundInv, DirectsAddUp, HitsFollowRules, ClosedHoldsNothing, ledger, history,
                Booked
<1>7. OrderInv'
  <2>1. \A q \in Requests : ~Flies(q)' => req'[q].after = {}
    BY <1>1, <1>4 DEF OrderInv
  <2>2. \A q \in Requests : \A s \in req'[q].after : s # q /\ Flies(s)'
    BY <1>1, <1>2, <1>4 DEF OrderInv, Flying, TypeOK, ReferencesHold, Flies
  <2>3. \A q, s \in Requests :
           q # s /\ Flies(q)' /\ Flies(s)' => q \in req'[s].after \/ s \in req'[q].after
    BY <1>1, <1>2, <1>4 DEF OrderInv, Flying, Flies
  <2>4. \A q \in Requests : Late(q)' => \A s \in req'[q].after : ~Contend(req'[q], req'[s])
    BY <1>1, <1>4 DEF OrderInv, TypeOK, ReferencesHold
  <2> QED BY <2>1, <2>2, <2>3, <2>4 DEF OrderInv
<1>8. PairInv'
    BY <1>1, <1>2 DEF PairInv, history
<1>9. ShapeInv' /\ FreshInv' /\ CheckedInv'
  <2>1. \A q \in Requests \ {p} : req'[q] = req[q]
    BY <1>1
  <2>2. ShapeInv'
    BY <1>1, <1>3, <1>4, StillSo DEF ShapeInv, ledger, history
  <2>3. FreshInv'
    BY <1>1, <1>3, <1>4, StillSo DEF FreshInv, history
  <2>4. CheckedInv'
    BY <1>1, <1>2, StillSo DEF CheckedInv, history
  <2> QED BY <2>2, <2>3, <2>4
<1> QED BY <1>5, <1>6, <1>7, <1>8, <1>9

(* Each request in turn: what it asks for, what it writes at its start,    *)
(* and why that is what its kind may write.                                *)
LEMMA ImportInv ==
    ASSUME IInv, NEW p \in Requests, NEW a \in Accounts, NEW file \in Files,
           StartImport(p, a, file)
    PROVE  IInv'
<1> DEFINE ask   == [NoAsk EXCEPT !.op = "import", !.account = a]
           delta == Rebuilt(Imported(a, file))
           r     == Opened(ask, delta)
           early == {h \in HashesOf(file) : Day[h[1]] < accounts[a].since}
           late  == HashesOf(file) \ early
<1>1. ask \in Ask /\ ask.op = "import" /\ ask.account = a /\ ask.rule = None
    BY DEF NoAsk, Ask
<1>2. /\ delta.insert = {h \in late : tx[h].state = "none"}
      /\ delta.revive = {h \in late : tx[h].state = "aside"}
      /\ delta.aside = {h \in early : tx[h].state # "none"}
      /\ delta.rebind = {h \in late : tx[h].state # "none" /\ tx[h].account # a}
      /\ delta.offD = {} /\ delta.onD = {} /\ delta.onH = {}
      /\ delta.offH = hits /\ delta.seen = Directed(directs)
    BY DEF Rebuilt, Imported, NoDelta
<1>3. delta \in Delta
  <2>1. early \subseteq Hashes /\ late \subseteq Hashes
    BY HashEntry
  <2>2. hits \subseteq Hit /\ Directed(directs) \subseteq Hashes
    BY DEF IInv, TypeOK, ReferencesHold, Hit, Directed, Direct
  <2> QED BY <2>1, <2>2, <1>2 DEF Rebuilt, Imported, NoDelta, Delta
<1>4. Enter(p, ask, delta) /\ accounts[a].stage = "open"
    BY DEF StartImport
<1>5. r.ask = ask /\ r.delta = delta /\ r.pc = "wrote"
    BY DEF Opened
<1> HIDE DEF ask, delta, r, early, late
<1>6. Shaped(r)
    BY <1>1, <1>2, <1>5, RuleAssumption DEF Shaped, Rebuilds, Saves
<1>7. Fresh(r)
    BY <1>1, <1>2, <1>4, <1>5 DEF Fresh, Rebuilds
<1>8. Splits(delta.onD)
    BY <1>2 DEF Splits, Directed
<1>9. delta.offD \subseteq directs
    BY <1>2
<1> QED BY <1>1, <1>3, <1>4, <1>6, <1>7, <1>8, <1>9, Entered DEF r

(* A rebuild opens by setting all hits aside.                              *)
LEMMA RebuildInv ==
    ASSUME IInv, NEW p \in Requests, NEW ask \in Ask, Enter(p, ask, Rebuilt(NoDelta)),
           \/ ask = [NoAsk EXCEPT !.op = "rebuild"]
           \/ ask.op \in Saves /\ ask.rule # None /\ ask.account = None /\ ask.filter \in Filters
    PROVE  IInv'
<1> DEFINE delta == Rebuilt(NoDelta)
           r     == Opened(ask, delta)
<1>1. /\ delta.insert = {} /\ delta.revive = {} /\ delta.aside = {} /\ delta.rebind = {}
      /\ delta.offD = {} /\ delta.onD = {} /\ delta.onH = {}
      /\ delta.offH = hits /\ delta.seen = Directed(directs)
    BY DEF Rebuilt, NoDelta
<1>2. delta \in Delta
  <2>1. hits \subseteq Hit /\ Directed(directs) \subseteq Hashes
    BY DEF IInv, TypeOK, ReferencesHold, Hit, Directed, Direct
  <2> QED BY <2>1 DEF Rebuilt, NoDelta, Delta
<1>3. r.ask = ask /\ r.delta = delta /\ r.pc = "wrote"
    BY DEF Opened
<1>4. \/ ask.op = "rebuild" /\ ask.rule = None /\ ask.account = None
      \/ ask.op \in Saves /\ ask.rule # None /\ ask.account = None /\ ask.filter \in Filters
    BY DEF NoAsk
<1> HIDE DEF delta, r
<1>5. Shaped(r)
    BY <1>1, <1>3, <1>4 DEF Shaped, Rebuilds, Saves, Rows
<1>6. Fresh(r)
    BY <1>1, <1>3, <1>4 DEF Fresh, Rebuilds, Saves
<1>7. Splits(delta.onD) /\ delta.offD \subseteq directs
    BY <1>1 DEF Splits, Directed
<1> QED BY <1>2, <1>5, <1>6, <1>7, Entered DEF r, delta

(* A saved filter rule is a rebuild that brings its rule along.            *)
LEMMA SaveFilterInv ==
    ASSUME IInv, NEW p \in Requests, NEW f \in Filters, NEW rule \in Rules,
           StartSave(p, f, rule)
    PROVE  IInv'
<1> DEFINE ask == [NoAsk EXCEPT !.op = IF filters[f] = None THEN "create" ELSE "update",
                                !.filter = f, !.rule = rule]
<1>1. ask \in Ask /\ ask.op \in Saves /\ ask.rule = rule /\ ask.account = None /\ ask.filter = f
    BY DEF NoAsk, Ask, Saves
<1>2. rule # None
    BY RuleAssumption
<1>3. Enter(p, ask, Rebuilt(NoDelta))
    BY DEF StartSave
<1> HIDE DEF ask
<1> QED BY <1>1, <1>2, <1>3, RebuildInv

(* A dropped filter sets its hits aside; no other row names it.            *)
LEMMA DropInv ==
    ASSUME IInv, NEW p \in Requests, NEW f \in Filters, StartDrop(p, f)
    PROVE  IInv'
<1> DEFINE ask   == [NoAsk EXCEPT !.op = "drop", !.filter = f]
           delta == [NoDelta EXCEPT !.offH = {x \in hits : x[2] = f}]
           r     == Opened(ask, delta)
<1>1. /\ ask \in Ask /\ ask.op = "drop" /\ ask.filter = f
      /\ ask.rule = None /\ ask.account = None
    BY DEF NoAsk, Ask
<1>2. /\ delta.insert = {} /\ delta.revive = {} /\ delta.aside = {} /\ delta.rebind = {}
      /\ delta.offD = {} /\ delta.onD = {} /\ delta.onH = {} /\ delta.offH = HitBy(f)
    BY DEF NoDelta, HitBy
<1>3. delta \in Delta
  <2>1. hits \subseteq Hit
    BY DEF IInv, TypeOK, ReferencesHold, Hit
  <2> QED BY <2>1 DEF NoDelta, Delta
<1>4. Enter(p, ask, delta)
    BY DEF StartDrop
<1>5. r.ask = ask /\ r.delta = delta /\ r.pc = "wrote"
    BY DEF Opened
<1> HIDE DEF delta, r, ask
<1>6. Shaped(r)
    BY <1>1, <1>2, <1>5 DEF Shaped, Rebuilds, Saves, Rows, HitBy
<1>7. Fresh(r)
    BY <1>1, <1>2, <1>5 DEF Fresh, Rebuilds
<1>8. Splits(delta.onD) /\ delta.offD \subseteq directs
    BY <1>2 DEF Splits, Directed
<1> QED BY <1>1, <1>3, <1>4, <1>6, <1>7, <1>8, Entered DEF r

(* A released booking sets aside what it was assigned to.                  *)
LEMMA ReleaseInv ==
    ASSUME IInv, NEW p \in Requests, NEW h \in Hashes, StartRelease(p, h)
    PROVE  IInv'
<1> DEFINE ask   == [NoAsk EXCEPT !.op = "release", !.hash = h]
           delta == [NoDelta EXCEPT !.offD = OfHash(directs, h),
                                    !.offH = {x \in hits : x[1] = h}]
           r     == Opened(ask, delta)
<1>1. /\ ask \in Ask /\ ask.op = "release" /\ ask.hash = h
      /\ ask.rule = None /\ ask.account = None
    BY DEF NoAsk, Ask
<1>2. /\ delta.insert = {} /\ delta.revive = {} /\ delta.aside = {} /\ delta.rebind = {}
      /\ delta.offD = OfHash(directs, h) /\ delta.onD = {} /\ delta.onH = {}
      /\ delta.offH = HitsOf(h)
    BY DEF NoDelta, HitsOf
<1>3. delta \in Delta
  <2>1. hits \subseteq Hit /\ OfHash(directs, h) \subseteq Direct
    BY DEF IInv, TypeOK, ReferencesHold, Hit, OfHash
  <2> QED BY <2>1 DEF NoDelta, Delta
<1>4. Enter(p, ask, delta) /\ tx[h].state = "booked"
    BY DEF StartRelease, Booked
<1>5. r.ask = ask /\ r.delta = delta /\ r.pc = "wrote"
    BY DEF Opened
<1> HIDE DEF delta, r, ask
<1>6. Shaped(r)
    BY <1>1, <1>2, <1>5 DEF Shaped, Rebuilds, Saves, Rows
<1>7. Fresh(r)
    BY <1>1, <1>2, <1>4, <1>5 DEF Fresh, Rebuilds
<1>8. Splits(delta.onD) /\ delta.offD \subseteq directs
    BY <1>2 DEF Splits, Directed, OfHash
<1> QED BY <1>1, <1>3, <1>4, <1>6, <1>7, <1>8, Entered DEF r

(* The removal of a category opens with no assignment to write.            *)
LEMMA DropCategoryInv ==
    ASSUME IInv, NEW p \in Requests, NEW c \in Categories, StartDropCategory(p, c)
    PROVE  IInv'
<1> DEFINE ask == [NoAsk EXCEPT !.op = "dropCategory", !.category = c]
           r   == Opened(ask, NoDelta)
<1>1. /\ ask \in Ask /\ ask.op = "dropCategory" /\ ask.rule = None /\ ask.account = None
      /\ Enter(p, ask, NoDelta)
    BY DEF NoAsk, Ask, StartDropCategory
<1>2. r.ask = ask /\ r.delta = NoDelta
    BY DEF Opened
<1> HIDE DEF r, ask
<1>3. Shaped(r)
    BY <1>1, <1>2 DEF Shaped, Rebuilds, Saves, Rows, NoDelta
<1>4. Fresh(r)
    BY <1>1, <1>2 DEF Fresh, Rebuilds
<1>5. Splits(NoDelta.onD) /\ NoDelta.offD \subseteq directs
    BY DEF Splits, Directed, NoDelta
<1> QED BY <1>1, <1>3, <1>4, <1>5, BlankTypes, Entered DEF r

(* An account that may be closed holds no booking and gets none.           *)
LEMMA CloseInv ==
    ASSUME IInv, NEW p \in Requests, NEW a \in Accounts, StartClose(p, a)
    PROVE  IInv'
<1> DEFINE ask == [NoAsk EXCEPT !.op = "close", !.account = a]
           r   == Opened(ask, NoDelta)
<1>1. /\ ask \in Ask /\ ask.op = "close" /\ ask.rule = None /\ ask.account = a /\ a # None
      /\ Enter(p, ask, NoDelta) /\ \A h \in Booked : tx[h].account # a
    BY RuleAssumption DEF NoAsk, Ask, StartClose
<1>2. r.ask = ask /\ r.delta = NoDelta
    BY DEF Opened
<1> HIDE DEF r, ask
<1>3. Shaped(r)
    BY <1>1, <1>2 DEF Shaped, Rebuilds, Saves, Rows, NoDelta
<1>4. Fresh(r)
    BY <1>1, <1>2 DEF Fresh, Rebuilds
<1>5. Splits(NoDelta.onD) /\ NoDelta.offD \subseteq directs
    BY DEF Splits, Directed, NoDelta
<1> QED BY <1>1, <1>3, <1>4, <1>5, BlankTypes, Entered DEF r

(* The slots of an assignment are rows of one transaction, and add up.     *)
LEMMA AssignInv ==
    ASSUME IInv, NEW p \in Requests, NEW h \in Hashes, NEW slots \in Slots,
           StartAssign(p, h, slots)
    PROVE  IInv'
<1> DEFINE rows  == {[hash |-> h, category |-> c, amount |-> slots[c]] : c \in DOMAIN slots}
           ask   == [NoAsk EXCEPT !.op = "assign", !.hash = h]
           delta == [NoDelta EXCEPT !.offD = OfHash(directs, h), !.onD = rows,
                                    !.offH = {x \in hits : x[1] = h}]
           r     == Opened(ask, delta)
<1>1. /\ ask \in Ask /\ ask.op = "assign" /\ ask.hash = h
      /\ ask.rule = None /\ ask.account = None
    BY DEF NoAsk, Ask
<1>2. /\ delta.insert = {} /\ delta.revive = {} /\ delta.aside = {} /\ delta.rebind = {}
      /\ delta.offD = OfHash(directs, h) /\ delta.onD = rows /\ delta.onH = {}
      /\ delta.offH = HitsOf(h)
    BY DEF NoDelta, HitsOf
<1>3. rows \subseteq Direct
  <2>1. DOMAIN slots \subseteq Categories /\ \A c \in DOMAIN slots : slots[c] \in Int
    BY RuleAssumption DEF Slots
  <2> QED BY <2>1 DEF Direct
<1>4. delta \in Delta
  <2>1. hits \subseteq Hit /\ OfHash(directs, h) \subseteq Direct
    BY DEF IInv, TypeOK, ReferencesHold, Hit, OfHash
  <2> QED BY <2>1, <1>3 DEF NoDelta, Delta
<1>5. /\ Enter(p, ask, delta) /\ tx[h].state = "booked"
      /\ rows # {} /\ Total(rows) = Amount[h[1]]
    BY DEF StartAssign, Booked
<1>6. r.ask = ask /\ r.delta = delta /\ r.pc = "wrote"
    BY DEF Opened
<1>7. \A d \in rows : d.hash = h
    OBVIOUS
<1>8. \A d, e \in rows : d.category = e.category => d = e
    OBVIOUS
<1> HIDE DEF delta, r, ask, rows
<1>9. Shaped(r)
    BY <1>1, <1>2, <1>5, <1>6, <1>7 DEF Shaped, Rebuilds, Saves, Rows
<1>10. Fresh(r)
    BY <1>1, <1>2, <1>5, <1>6 DEF Fresh, Rebuilds
<1>11. Splits(rows)
  <2>1. OfHash(rows, h) = rows /\ \A k \in Directed(rows) : k = h
    BY <1>7 DEF OfHash, Directed
  <2> QED BY <2>1, <1>5, <1>7, <1>8 DEF Splits
<1>12. delta.offD \subseteq directs
    BY <1>2 DEF OfHash
<1> QED BY <1>1, <1>2, <1>4, <1>5, <1>9, <1>10, <1>11, <1>12, Entered DEF r

(* A conversion assigns each transaction its whole amount.                 *)
LEMMA ConvertInv ==
    ASSUME IInv, NEW p \in Requests, NEW f \in Filters, StartConvert(p, f)
    PROVE  IInv'
<1> DEFINE ask   == [NoAsk EXCEPT !.op = "convert", !.filter = f]
           delta == [NoDelta EXCEPT
                       !.onD  = {[hash |-> h, category |-> filters[f].category,
                                  amount |-> Amount[h[1]]] : h \in Gained(f)},
                       !.offH = {x \in hits : x[1] \in Gained(f) \/ x[2] = f}]
           r     == Opened(ask, delta)
<1>1. /\ ask \in Ask /\ ask.op = "convert" /\ ask.filter = f
      /\ ask.rule = None /\ ask.account = None
    BY DEF NoAsk, Ask
<1>2. /\ delta.insert = {} /\ delta.revive = {} /\ delta.aside = {} /\ delta.rebind = {}
      /\ delta.offD = {} /\ delta.onD = Made(f) /\ delta.onH = {}
      /\ delta.offH = {x \in hits : x[1] \in Gained(f)} \cup HitBy(f)
    BY DEF NoDelta, HitBy, Made
<1>3. Enter(p, ask, delta) /\ filters[f] # None /\ WithoutCategory = {}
    BY DEF StartConvert, Gained
<1>4. /\ Made(f) \subseteq Direct
      /\ \A d \in Made(f) : d.amount = Amount[d.hash[1]] /\ tx[d.hash].state # "none"
      /\ \A d, e \in Made(f) : d.hash = e.hash => d = e
  <2>1. filters[f].category \in Categories
    BY <1>3, RuleAssumption DEF IInv, TypeOK, ReferencesHold, Rule
  <2>2. \A h \in Gained(f) : h \in Hashes /\ tx[h].state = "booked" /\ Amount[h[1]] \in Int
    BY HashEntry, AmountAssumption DEF Gained, Booked
  <2> QED BY <2>1, <2>2 DEF Made, Direct
<1>5. delta \in Delta
  <2>1. hits \subseteq Hit
    BY DEF IInv, TypeOK, ReferencesHold, Hit
  <2> QED BY <2>1, <1>4 DEF NoDelta, Delta, Made
<1>6. r.ask = ask /\ r.delta = delta /\ r.pc = "wrote"
    BY DEF Opened
<1> HIDE DEF delta, r, ask
<1>7. Shaped(r)
    BY <1>1, <1>2, <1>6 DEF Shaped, Rebuilds, Saves, Rows
<1>8. Fresh(r)
    BY <1>1, <1>2, <1>3, <1>6 DEF Fresh, Rebuilds
<1>9. Splits(Made(f))
  <2>1. ASSUME NEW h \in Directed(Made(f))
        PROVE  Total(OfHash(Made(f), h)) = Amount[h[1]]
    <3>1. PICK d \in Made(f) : d.hash = h
      BY DEF Directed
    <3>2. OfHash(Made(f), h) = {d}
      BY <3>1, <1>4 DEF OfHash
    <3>3. d \in Direct /\ d.amount = Amount[h[1]]
      BY <3>1, <1>4
    <3> QED BY <3>2, <3>3, TotalOne
  <2> QED BY <2>1, <1>4 DEF Splits
<1>10. delta.offD \subseteq directs
    BY <1>2
<1> QED BY <1>1, <1>2, <1>3, <1>5, <1>7, <1>8, <1>9, <1>10, Entered DEF r

-----------------------------------------------------------------------------
(* Requests go on                                                          *)

(* The new hits are those that the rules give now.                         *)
LEMMA MatchInv ==
    ASSUME IInv, NEW p \in Requests, Match(p)
    PROVE  IInv'
<1> DEFINE on == NewHits(req[p])
           r  == [req[p] EXCEPT !.pc = "matched", !.delta.onH = on]
<1> USE DEF IInv
<1>1. /\ req'[p] = r /\ \A q \in Requests \ {p} : req'[q] = req[q]
      /\ req' = [req EXCEPT ![p] = r]
      /\ req[p].pc = "wrote" /\ UNCHANGED <<ledger, history, asked>>
      /\ \A q \in req[p].after : ~Contend(req[p], req[q])
    BY DEF Match, TypeOK, ReferencesHold
<1>2. on \subseteq Hit
  <2>1. \A T, F, H : H \subseteq Hashes => Found(T, F, H) \subseteq Hit
    BY DEF Found, Hit
  <2>2. req[p].ask.op = "release" => {req[p].ask.hash} \subseteq Hashes
    BY <1>1 DEF ShapeInv, Shaped, Flies
  <2> QED BY <2>1, <2>2 DEF NewHits
<1>3. /\ r.pc = "matched" /\ r.ask = req[p].ask /\ r.after = req[p].after
      /\ r.stale = req[p].stale
      /\ r.delta = [req[p].delta EXCEPT !.onH = on]
      /\ r \in [pc : {"idle", "wrote", "matched", "checked"}, ask : Ask,
                delta : Delta, after : SUBSET Requests, stale : BOOLEAN]
  <2> HIDE DEF on
  <2>1. req[p] \in [pc : {"idle", "wrote", "matched", "checked"}, ask : Ask,
                    delta : Delta, after : SUBSET Requests, stale : BOOLEAN]
    BY DEF TypeOK, ReferencesHold
  <2>2. [req[p].delta EXCEPT !.onH = on] \in Delta
    BY <1>2, <2>1 DEF Delta
  <2>3. r = [req[p] EXCEPT !.pc = "matched", !.delta = [req[p].delta EXCEPT !.onH = on]]
    BY <2>1
  <2> QED BY <2>1, <2>2, <2>3
<1>4. /\ r.delta.onH = on
      /\ r.delta.insert = req[p].delta.insert /\ r.delta.revive = req[p].delta.revive
      /\ r.delta.aside = req[p].delta.aside /\ r.delta.rebind = req[p].delta.rebind
      /\ r.delta.offD = req[p].delta.offD /\ r.delta.onD = req[p].delta.onD
      /\ r.delta.offH = req[p].delta.offH /\ r.delta.seen = req[p].delta.seen
    BY <1>3 DEF TypeOK, ReferencesHold, Delta
<1> HIDE DEF r
<1>5. /\ Flies(p) /\ Flies(p)' /\ Late(p)' /\ ~Late(p)
      /\ \A q \in Requests \ {p} : (Flies(q)' <=> Flies(q)) /\ (Late(q)' <=> Late(q))
    BY <1>1, <1>3 DEF Flies, Late
<1>6. TypeOK'
    BY <1>1, <1>3 DEF TypeOK, ReferencesHold, ledger, history
<1>7. BoundInv' /\ DirectsAddUp' /\ HitsFollowRules' /\ ClosedHoldsNothing'
    BY <1>1 DEF BoundInv, DirectsAddUp, HitsFollowRules, ClosedHoldsNothing, ledger, history,
                Booked
<1>8. \A s : (Contend(r, s) <=> Contend(req[p], s)) /\ (Contend(s, r) <=> Contend(s, req[p]))
    BY <1>3, <1>4 DEF Contend, Rows
<1>9. OrderInv'
  <2>1. \A q \in Requests : req'[q].after = req[q].after
    BY <1>1, <1>3
  <2>2. \A q \in Requests : ~Flies(q)' => req'[q].after = {}
    BY <1>1, <1>5 DEF OrderInv
  <2>3. \A q \in Requests : \A s \in req'[q].after : s # q /\ Flies(s)'
    BY <2>1, <1>5 DEF OrderInv, TypeOK, ReferencesHold
  <2>4. \A q, s \in Requests :
           q # s /\ Flies(q)' /\ Flies(s)' => q \in req'[s].after \/ s \in req'[q].after
    BY <2>1, <1>5 DEF OrderInv
  <2>5. \A q \in Requests : Late(q)' => \A s \in req'[q].after : ~Contend(req'[q], req'[s])
    <3> SUFFICES ASSUME NEW q \in Requests, Late(q)', NEW s \in req[q].after
                 PROVE  ~Contend(req'[q], req'[s])
      BY <2>1
    <3>1. s \in Requests /\ s # q
      BY DEF OrderInv, TypeOK, ReferencesHold
    <3>2. ~Contend(req[q], req[s])
      BY <1>1, <1>5 DEF OrderInv
    <3> QED BY <3>1, <3>2, <1>1, <1>8
  <2> QED BY <2>2, <2>3, <2>4, <2>5 DEF OrderInv
<1>10. PairInv'
    BY <1>1, <1>3 DEF PairInv, history
<1>11. Shaped(r) /\ Splits(r.delta.onD) /\ r.delta.offD \subseteq directs
    BY <1>3, <1>4, <1>5 DEF ShapeInv, Shaped, Rows, NewHits
<1>12. ~r.stale => Fresh(r)
  <2> SUFFICES ASSUME ~r.stale PROVE Fresh(r)
    OBVIOUS
  <2>1. Fresh(req[p])
    BY <1>3, <1>5 DEF FreshInv
  <2>2. TxWith(r) = TxWith(req[p]) /\ FiltersWith(r) = FiltersWith(req[p])
    BY <1>3, <1>4 DEF TxWith, FiltersWith
  <2>3. /\ r.ask.op \in Rebuilds =>
             r.delta.onH = Found(TxWith(r), FiltersWith(r), Hashes \ r.delta.seen)
        /\ r.ask.op = "release" => r.delta.onH = Found(tx, filters, {r.ask.hash})
    BY <2>2, <1>3, <1>4 DEF NewHits, Rebuilds
  <2> QED BY <2>1, <2>3, <1>3, <1>4 DEF Fresh
<1>13. ShapeInv' /\ FreshInv' /\ CheckedInv'
  <2>1. ShapeInv'
    BY <1>1, <1>5, <1>11, StillSo DEF ShapeInv, ledger, history
  <2>2. FreshInv'
    BY <1>1, <1>5, <1>12, StillSo DEF FreshInv, history
  <2>3. CheckedInv'
    BY <1>1, <1>3, StillSo DEF CheckedInv, history
  <2> QED BY <2>1, <2>2, <2>3
<1> QED BY <1>6, <1>7, <1>9, <1>10, <1>13

(* Both wait for each other's rows, or neither does.                       *)
LEMMA WaitsBothWays ==
    /\ \A r, s : Waits(r, s) <=> Waits(s, r)
    /\ \A r, s : Contend(r, s) <=> Contend(s, r)
<1>1. \A r, s : Waits(r, s) <=> Waits(s, r)
    BY DEF Waits
<1>2. \A r, s : Contend(r, s) <=> Contend(s, r)
    BY DEF Contend
<1> QED BY <1>1, <1>2

(* The check: the new rows fit what is committed, the sums are right, and  *)
(* nobody checked at this time is in the way.                              *)
LEMMA CheckInv ==
    ASSUME IInv, NEW p \in Requests, Check(p)
    PROVE  IInv'
<1> DEFINE r == [req[p] EXCEPT !.pc = "checked"]
<1> USE DEF IInv
<1>1. /\ req' = [req EXCEPT ![p] = r]
      /\ req'[p] = r /\ \A q \in Requests \ {p} : req'[q] = req[q]
      /\ req[p].pc = "matched" /\ UNCHANGED <<ledger, blurred, crossed, asked>>
      /\ Fits(req[p]) /\ AddUp(req[p])
    BY DEF Check, TypeOK, ReferencesHold
<1>2. \A q \in Requests \ {p} : req[q].pc = "checked" =>
         /\ ~Waits(req[p], req[q])
         /\ Directed(req[p].delta.onD) \cap Directed(req[q].delta.onD) \subseteq raced'
    BY DEF Check
<1>3. raced \subseteq raced' /\ raced' \subseteq Hashes
  <2>1. Directed(req[p].delta.onD) \subseteq Hashes
    BY DEF TypeOK, ReferencesHold, Delta, Direct, Directed
  <2>2. raced \subseteq Hashes
    BY DEF TypeOK, ReferencesHold
  <2> QED BY <2>1, <2>2 DEF Check
<1>4. /\ r.pc = "checked" /\ r.ask = req[p].ask /\ r.after = req[p].after
      /\ r.stale = req[p].stale /\ r.delta = req[p].delta
      /\ r \in [pc : {"idle", "wrote", "matched", "checked"}, ask : Ask,
                delta : Delta, after : SUBSET Requests, stale : BOOLEAN]
    BY DEF TypeOK, ReferencesHold
<1> HIDE DEF r
<1>5. /\ \A q \in Requests : (Flies(q)' <=> Flies(q)) /\ (Late(q)' <=> Late(q))
      /\ \A q \in Requests : /\ req'[q].ask = req[q].ask /\ req'[q].delta = req[q].delta
                             /\ req'[q].after = req[q].after
    BY <1>1, <1>4 DEF Flies, Late
<1>6. TypeOK'
    BY <1>1, <1>3, <1>4 DEF TypeOK, ReferencesHold, ledger
<1>7. BoundInv' /\ DirectsAddUp' /\ HitsFollowRules' /\ ClosedHoldsNothing'
    BY <1>1, <1>3 DEF BoundInv, DirectsAddUp, HitsFollowRules, ClosedHoldsNothing, ledger, Booked
<1>8. OrderInv'
  <2>1. \A q \in Requests : ~Flies(q)' => req'[q].after = {}
    BY <1>1, <1>5 DEF OrderInv, Flies
  <2>2. \A q, s \in Requests : Contend(req'[q], req'[s]) <=> Contend(req[q], req[s])
    BY <1>5 DEF Contend, Rows
  <2>3. \A q \in Requests : req[q].after \subseteq Requests
    BY DEF TypeOK, ReferencesHold
  <2>4. \A q \in Requests : Late(q)' => \A s \in req'[q].after : ~Contend(req'[q], req'[s])
    BY <1>5, <2>2, <2>3 DEF OrderInv
  <2>5. \A q \in Requests : \A s \in req'[q].after : s # q /\ Flies(s)'
    BY <1>5, <2>3 DEF OrderInv
  <2>6. \A q, s \in Requests :
           q # s /\ Flies(q)' /\ Flies(s)' => q \in req'[s].after \/ s \in req'[q].after
    BY <1>5 DEF OrderInv
  <2> QED BY <2>1, <2>4, <2>5, <2>6 DEF OrderInv
<1>9. PairInv'
  <2> SUFFICES ASSUME NEW q \in Requests, NEW s \in Requests, q # s,
                      req'[q].pc = "checked", req'[s].pc = "checked"
               PROVE  /\ ~Waits(req'[q], req'[s])
                      /\ Directed(req'[q].delta.onD) \cap Directed(req'[s].delta.onD)
                           \subseteq raced'
    BY DEF PairInv
  <2>1. \A t, u : Waits(r, t) <=> Waits(req[p], t)
    BY <1>4 DEF Waits, Keys, Refers
  <2>2. CASE q = p
    BY <2>1, <2>2, <1>1, <1>2, <1>4
  <2>3. CASE s = p
    BY <2>1, <2>3, <1>1, <1>2, <1>4, WaitsBothWays
  <2>4. CASE q # p /\ s # p
    BY <2>4, <1>1, <1>3 DEF PairInv
  <2> QED BY <2>2, <2>3, <2>4
<1>10. Flies(p) /\ req[p].pc # "wrote"
    BY <1>1 DEF Flies
<1>11. Shaped(r) /\ Splits(r.delta.onD) /\ r.delta.offD \subseteq directs
    BY <1>4, <1>10 DEF ShapeInv, Shaped, Rows
<1>12. ~r.stale => Fresh(r)
  <2> SUFFICES ASSUME ~r.stale PROVE Fresh(r)
    OBVIOUS
  <2>1. TxWith(r) = TxWith(req[p]) /\ FiltersWith(r) = FiltersWith(req[p])
    BY <1>4 DEF TxWith, FiltersWith
  <2>2. Fresh(req[p])
    BY <1>4, <1>10 DEF FreshInv
  <2> QED BY <2>1, <2>2, <1>4, <1>10 DEF Fresh
<1>13. Referring(r)
    BY <1>1, <1>4 DEF Fits, Referring
<1>14. Adding(r)
    BY <1>1, <1>4 DEF AddUp, Adding, DirectsWith
<1>15. ShapeInv' /\ FreshInv' /\ CheckedInv'
  <2>1. ShapeInv'
    BY <1>1, <1>3, <1>5, <1>11, StillSo DEF ShapeInv, ledger
  <2>2. FreshInv'
    BY <1>1, <1>3, <1>5, <1>12, StillSo DEF FreshInv
  <2>3. CheckedInv'
    BY <1>1, <1>3, <1>13, <1>14, StillSo DEF CheckedInv
  <2> QED BY <2>1, <2>2, <2>3
<1> QED BY <1>6, <1>7, <1>8, <1>9, <1>15

(* The end of a request is nobody else's but for what they waited for.     *)
Ends(p, c) ==
    /\ req'[p] = Idle
    /\ req' \in [Requests -> [pc : {"idle", "wrote", "matched", "checked"}, ask : Ask,
                              delta : Delta, after : SUBSET Requests, stale : BOOLEAN]]
    /\ \A q \in Requests \ {p} :
         /\ req'[q].pc = req[q].pc /\ req'[q].ask = req[q].ask
         /\ req'[q].after = req[q].after \ {p}
         /\ req'[q].stale <=> req[q].stale \/ (c /\ req[q].pc # "idle")
         /\ req'[q].delta.offD = IF c THEN req[q].delta.offD \ req[p].delta.offD
                                 ELSE req[q].delta.offD
         /\ req'[q].delta.insert = req[q].delta.insert
         /\ req'[q].delta.revive = req[q].delta.revive
         /\ req'[q].delta.aside = req[q].delta.aside
         /\ req'[q].delta.rebind = req[q].delta.rebind
         /\ req'[q].delta.onD = req[q].delta.onD
         /\ req'[q].delta.offH = req[q].delta.offH
         /\ req'[q].delta.onH = req[q].delta.onH
         /\ req'[q].delta.seen = req[q].delta.seen

(* A request that ends leaves the others as Ends says.                     *)
LEMMA EndedReq ==
    ASSUME TypeOK, NEW p \in Requests, NEW c \in BOOLEAN, req' = Ended(p, c)
    PROVE  Ends(p, c)
<1> DEFINE Req == [pc : {"idle", "wrote", "matched", "checked"}, ask : Ask,
                   delta : Delta, after : SUBSET Requests, stale : BOOLEAN]
           Off(q) == IF c THEN req[q].delta.offD \ req[p].delta.offD ELSE req[q].delta.offD
           Old(q) == req[q].stale \/ (c /\ req[q].pc # "idle")
<1>1. req'[p] = Idle /\ Idle \in Req
    BY BlankTypes DEF Ended, Idle
<1>2. ASSUME NEW q \in Requests \ {p}
      PROVE  /\ req'[q] = [req[q] EXCEPT !.after = req[q].after \ {p}, !.stale = Old(q),
                                         !.delta = [req[q].delta EXCEPT !.offD = Off(q)]]
             /\ [req[q].delta EXCEPT !.offD = Off(q)] \in Delta
             /\ req'[q] \in Req
  <2>1. req[q] \in Req
    BY DEF TypeOK, ReferencesHold
  <2>2. Off(q) \subseteq Direct /\ Old(q) \in BOOLEAN
    BY <2>1 DEF Delta
  <2>3. req'[q] = [req[q] EXCEPT !.after = req[q].after \ {p}, !.stale = Old(q),
                                 !.delta.offD = Off(q)]
    BY <2>1 DEF Ended
  <2> HIDE DEF Off, Old
  <2>4. [req[q].delta EXCEPT !.offD = Off(q)] \in Delta
    BY <2>1, <2>2 DEF Delta
  <2>5. req'[q] = [req[q] EXCEPT !.after = req[q].after \ {p}, !.stale = Old(q),
                                 !.delta = [req[q].delta EXCEPT !.offD = Off(q)]]
    BY <2>1, <2>3
  <2> QED BY <2>1, <2>2, <2>4, <2>5
<1>3. req' = [q \in Requests |-> req'[q]]
    BY DEF Ended
<1>4. req' \in [Requests -> Req]
    BY <1>1, <1>2, <1>3
<1>5. ASSUME NEW q \in Requests \ {p}
      PROVE  /\ req'[q].pc = req[q].pc /\ req'[q].ask = req[q].ask
             /\ req'[q].after = req[q].after \ {p} /\ req'[q].stale = Old(q)
             /\ req'[q].delta = [req[q].delta EXCEPT !.offD = Off(q)]
  <2> HIDE DEF Off, Old
  <2> QED BY <1>2, ZenonT(40) DEF TypeOK, ReferencesHold
<1>6. \A q \in Requests \ {p} :
         /\ req'[q].pc = req[q].pc /\ req'[q].ask = req[q].ask
         /\ req'[q].after = req[q].after \ {p} /\ req'[q].stale = Old(q)
         /\ req'[q].delta.offD = Off(q)
         /\ req'[q].delta.insert = req[q].delta.insert
         /\ req'[q].delta.revive = req[q].delta.revive
         /\ req'[q].delta.aside = req[q].delta.aside
         /\ req'[q].delta.rebind = req[q].delta.rebind
         /\ req'[q].delta.onD = req[q].delta.onD
         /\ req'[q].delta.offH = req[q].delta.offH
         /\ req'[q].delta.onH = req[q].delta.onH
         /\ req'[q].delta.seen = req[q].delta.seen
  <2> SUFFICES ASSUME NEW q \in Requests \ {p}
               PROVE  /\ req'[q].delta.offD = Off(q)
                      /\ req'[q].delta.insert = req[q].delta.insert
                      /\ req'[q].delta.revive = req[q].delta.revive
                      /\ req'[q].delta.aside = req[q].delta.aside
                      /\ req'[q].delta.rebind = req[q].delta.rebind
                      /\ req'[q].delta.onD = req[q].delta.onD
                      /\ req'[q].delta.offH = req[q].delta.offH
                      /\ req'[q].delta.onH = req[q].delta.onH
                      /\ req'[q].delta.seen = req[q].delta.seen
    BY <1>5
  <2> DEFINE d == req[q].delta
  <2> HIDE DEF Off, Old
  <2>1. req'[q].delta = [d EXCEPT !.offD = Off(q)] /\ d \in Delta
    BY <1>5 DEF TypeOK, ReferencesHold
  <2> HIDE DEF d
  <2>2. /\ req'[q].delta.offD = Off(q)
        /\ req'[q].delta.insert = d.insert /\ req'[q].delta.revive = d.revive
        /\ req'[q].delta.aside = d.aside /\ req'[q].delta.rebind = d.rebind
        /\ req'[q].delta.onD = d.onD /\ req'[q].delta.offH = d.offH
        /\ req'[q].delta.onH = d.onH /\ req'[q].delta.seen = d.seen
    BY <2>1 DEF Delta
  <2> QED BY <2>2 DEF d
<1> QED BY <1>1, <1>4, <1>6 DEF Ends

(* When one ends, nobody waits for more than before, and nobody gets into  *)
(* another's way.                                                          *)
LEMMA EndedOrder ==
    ASSUME IInv, NEW p \in Requests, Flies(p), NEW c \in BOOLEAN, req' = Ended(p, c),
           raced \subseteq raced'
    PROVE  /\ \A q \in Requests \ {p} : (Flies(q)' <=> Flies(q)) /\ (Late(q)' <=> Late(q))
           /\ ~Flies(p)' /\ ~Late(p)' /\ OrderInv' /\ PairInv'
<1> USE DEF IInv
<1>0. Ends(p, c)
    BY EndedReq
<1>1. /\ ~Flies(p)' /\ ~Late(p)' /\ req'[p] = Idle
      /\ \A q \in Requests \ {p} : (Flies(q)' <=> Flies(q)) /\ (Late(q)' <=> Late(q))
  <2>1. req'[p] = Idle /\ \A q \in Requests \ {p} : req'[q].pc = req[q].pc
    BY <1>0 DEF Ends
  <2> QED BY <2>1 DEF Flies, Late, Idle
<1>2. \A q \in Requests \ {p} : req'[q].after = req[q].after \ {p}
    BY <1>0 DEF Ends
<1>3. \A q, s \in Requests \ {p} : Contend(req'[q], req'[s]) => Contend(req[q], req[s])
  <2> SUFFICES ASSUME NEW q \in Requests \ {p}, NEW s \in Requests \ {p},
                      Contend(req'[q], req'[s])
               PROVE  Contend(req[q], req[s])
    OBVIOUS
  <2>1. /\ Rows(req'[q]) = Rows(req[q]) /\ Rows(req'[s]) = Rows(req[s])
        /\ req'[q].ask = req[q].ask /\ req'[s].ask = req[s].ask
        /\ req'[q].delta.offH = req[q].delta.offH /\ req'[s].delta.offH = req[s].delta.offH
        /\ req'[q].delta.offD \subseteq req[q].delta.offD
        /\ req'[s].delta.offD \subseteq req[s].delta.offD
    <3>1. \A t \in {q, s} :
             /\ req'[t].ask = req[t].ask /\ req'[t].delta.offH = req[t].delta.offH
             /\ req'[t].delta.offD = IF c THEN req[t].delta.offD \ req[p].delta.offD
                                     ELSE req[t].delta.offD
             /\ req'[t].delta.insert = req[t].delta.insert
             /\ req'[t].delta.revive = req[t].delta.revive
             /\ req'[t].delta.aside = req[t].delta.aside
             /\ req'[t].delta.rebind = req[t].delta.rebind
      BY <1>0 DEF Ends
    <3> QED BY <3>1 DEF Rows
  <2> QED BY <2>1 DEF Contend
<1>4. \A q, s \in Requests \ {p} : Waits(req'[q], req'[s]) <=> Waits(req[q], req[s])
  <2> SUFFICES ASSUME NEW q \in Requests \ {p}, NEW s \in Requests \ {p}
               PROVE  Waits(req'[q], req'[s]) <=> Waits(req[q], req[s])
    OBVIOUS
  <2>1. /\ req'[q].ask = req[q].ask /\ req'[s].ask = req[s].ask
        /\ req'[q].delta.onH = req[q].delta.onH /\ req'[s].delta.onH = req[s].delta.onH
        /\ req'[q].delta.onD = req[q].delta.onD /\ req'[s].delta.onD = req[s].delta.onD
    BY <1>0 DEF Ends
  <2> QED BY <2>1 DEF Waits, Keys, Refers
<1>5. \A q \in Requests : req[q].after \subseteq Requests
    BY DEF TypeOK, ReferencesHold
<1>6. OrderInv'
  <2>1. \A q \in Requests : ~Flies(q)' => req'[q].after = {}
    BY <1>1, <1>2 DEF OrderInv, Idle
  <2>2. \A q \in Requests : \A s \in req'[q].after : s # q /\ Flies(s)'
    <3>1. req'[p].after = {}
      BY <1>1 DEF Idle
    <3> QED BY <3>1, <1>1, <1>2, <1>5 DEF OrderInv
  <2>3. \A q, s \in Requests :
           q # s /\ Flies(q)' /\ Flies(s)' => q \in req'[s].after \/ s \in req'[q].after
    BY <1>1, <1>2 DEF OrderInv
  <2>4. \A q \in Requests : Late(q)' => \A s \in req'[q].after : ~Contend(req'[q], req'[s])
    <3> SUFFICES ASSUME NEW q \in Requests, Late(q)', NEW s \in req'[q].after
                 PROVE  ~Contend(req'[q], req'[s])
      OBVIOUS
    <3>1. q # p /\ s \in req[q].after /\ s # p /\ s \in Requests /\ Late(q)
      BY <1>1, <1>2, <1>5
    <3> QED BY <3>1, <1>3 DEF OrderInv
  <2> QED BY <2>1, <2>2, <2>3, <2>4 DEF OrderInv
<1>7. PairInv'
  <2> SUFFICES ASSUME NEW q \in Requests, NEW s \in Requests, q # s,
                      req'[q].pc = "checked", req'[s].pc = "checked"
               PROVE  /\ ~Waits(req'[q], req'[s])
                      /\ Directed(req'[q].delta.onD) \cap Directed(req'[s].delta.onD)
                           \subseteq raced'
    BY DEF PairInv
  <2>1. q # p /\ s # p
    BY <1>1 DEF Idle
  <2>2. /\ req[q].pc = "checked" /\ req[s].pc = "checked"
        /\ req'[q].delta.onD = req[q].delta.onD /\ req'[s].delta.onD = req[s].delta.onD
    BY <2>1, <1>0 DEF Ends
  <2> QED BY <2>1, <2>2, <1>4 DEF PairInv
<1> QED BY <1>1, <1>6, <1>7

(* A rollback leaves no trace.                                             *)
LEMMA FailInv ==
    ASSUME IInv, NEW p \in Requests, Fail(p)
    PROVE  IInv'
<1> USE DEF IInv
<1>1. Flies(p) /\ req' = Ended(p, FALSE) /\ UNCHANGED <<ledger, history, asked>>
    BY DEF Fail, Flies
<1>0. Ends(p, FALSE)
    BY <1>1, EndedReq
<1>2. OrderInv' /\ PairInv' /\ ~Flies(p)'
      /\ \A q \in Requests \ {p} : Flies(q)' <=> Flies(q)
    BY <1>1, EndedOrder DEF history
<1>3. TypeOK'
    BY <1>0, <1>1 DEF Ends, TypeOK, ReferencesHold, ledger, history
<1>4. BoundInv' /\ DirectsAddUp' /\ HitsFollowRules' /\ ClosedHoldsNothing'
    BY <1>1 DEF BoundInv, DirectsAddUp, HitsFollowRules, ClosedHoldsNothing, ledger, history,
                Booked
<1>5. ASSUME NEW q \in Requests \ {p}
      PROVE  /\ Shaped(req'[q]) <=> Shaped(req[q])
             /\ Fresh(req'[q]) <=> Fresh(req[q])
             /\ Referring(req'[q]) <=> Referring(req[q])
             /\ Adding(req'[q]) <=> Adding(req[q])
             /\ req'[q].pc = req[q].pc /\ (req'[q].stale <=> req[q].stale)
             /\ req'[q].delta.onD = req[q].delta.onD
             /\ req'[q].delta.offD = req[q].delta.offD
  <2> DEFINE r == req[q]
             s == req'[q]
  <2>1. /\ s.pc = r.pc /\ s.ask = r.ask /\ (s.stale <=> r.stale)
        /\ s.delta.offD = r.delta.offD
        /\ s.delta.insert = r.delta.insert /\ s.delta.revive = r.delta.revive
        /\ s.delta.aside = r.delta.aside /\ s.delta.rebind = r.delta.rebind
        /\ s.delta.onD = r.delta.onD /\ s.delta.offH = r.delta.offH
        /\ s.delta.onH = r.delta.onH /\ s.delta.seen = r.delta.seen
    BY <1>0 DEF Ends
  <2> HIDE DEF r, s
  <2>2. TxWith(s) = TxWith(r) /\ FiltersWith(s) = FiltersWith(r) /\ DirectsWith(s) = DirectsWith(r)
    BY <2>1 DEF TxWith, FiltersWith, DirectsWith
  <2>3. Shaped(s) <=> Shaped(r)
    BY <2>1 DEF Shaped, Rows
  <2>4. Fresh(s) <=> Fresh(r)
    BY <2>1, <2>2 DEF Fresh
  <2>5. Referring(s) <=> Referring(r)
    BY <2>1 DEF Referring
  <2>6. Adding(s) <=> Adding(r)
    BY <2>1, <2>2 DEF Adding
  <2> QED BY <2>1, <2>3, <2>4, <2>5, <2>6 DEF r, s
<1>6. ShapeInv'
    BY <1>1, <1>2, <1>5, StillSo DEF ShapeInv, ledger, history
<1>7. FreshInv'
    BY <1>1, <1>2, <1>5, StillSo DEF FreshInv, history
<1>8. CheckedInv'
  <2>1. req'[p].pc # "checked"
    BY <1>0 DEF Ends, Idle
  <2> QED BY <2>1, <1>1, <1>5, StillSo DEF CheckedInv, history
<1> QED BY <1>2, <1>3, <1>4, <1>6, <1>7, <1>8

-----------------------------------------------------------------------------
(* Requests commit                                                         *)

(* The rows of one transaction under two requests that are checked         *)
(* together: R are there, one takes P away and adds M, the other takes Q   *)
(* and would add N. Not both add, and each sum is right without the other. *)
Apart(R, P, Q, M, N, a) ==
    /\ R \in SUBSET Direct /\ P \in SUBSET R /\ Q \in SUBSET R
    /\ M \in SUBSET Direct /\ N \in SUBSET Direct
    /\ IsFiniteSet(R) /\ IsFiniteSet(M) /\ IsFiniteSet(N)
    /\ P \cap Q = {} /\ M \cap (R \ P) = {} /\ N \cap (R \ Q) = {}
    /\ M = {} \/ N = {}
    /\ P \cup M # {} /\ Q \cup N # {}
    /\ a \in Int /\ a # 0
    /\ R # {} => Total(R) = a
    /\ M # {} => Total(M) = a
    /\ N # {} => Total(N) = a
    /\ (R \ P) \cup M # {} => Total((R \ P) \cup M) = a
    /\ (R \ Q) \cup N # {} => Total((R \ Q) \cup N) = a

(* Then the sum of both together is right.                                 *)
LEMMA SumsApart ==
    ASSUME NEW R, NEW P, NEW Q, NEW M, NEW N, NEW a, Apart(R, P, Q, M, N, a)
    PROVE  LET S == (((R \ P) \cup M) \ Q) \cup N IN S # {} => Total(S) = a
<1> USE DEF Apart
<1> DEFINE K == (R \ P) \ Q
           S == (((R \ P) \cup M) \ Q) \cup N
<1>1. /\ IsFiniteSet(P) /\ IsFiniteSet(Q) /\ IsFiniteSet(K)
      /\ IsFiniteSet(R \ P) /\ IsFiniteSet(R \ Q)
  <2>1. K \subseteq R /\ R \ P \subseteq R /\ R \ Q \subseteq R
    OBVIOUS
  <2> HIDE DEF K
  <2> QED BY <2>1, FS_Subset
<1>2. K \in SUBSET Direct /\ P \in SUBSET Direct /\ Q \in SUBSET Direct
    OBVIOUS
<1>3. /\ Total(P) \in Int /\ Total(Q) \in Int /\ Total(K) \in Int
      /\ Total(R \ P) = Total(Q) + Total(K)
  <2>1. Q \cap K = {} /\ R \ P = Q \cup K /\ P \cap K = {}
    OBVIOUS
  <2> HIDE DEF K
  <2> QED BY <1>1, <1>2, <2>1, TotalJoin
<1>4. Total(R \ Q) = Total(P) + Total(K)
  <2>1. P \cap K = {} /\ R \ Q = P \cup K
    OBVIOUS
  <2> HIDE DEF K
  <2> QED BY <1>1, <1>2, <2>1, TotalJoin
<1>5. Total(R) = Total(P) + (Total(Q) + Total(K))
  <2>1. P \cap (R \ P) = {} /\ R = P \cup (R \ P) /\ R \ P \in SUBSET Direct
    OBVIOUS
  <2>2. Total(P \cup (R \ P)) = Total(P) + Total(R \ P)
    BY <1>1, <1>2, <2>1, TotalJoin
  <2> QED BY <2>1, <2>2, <1>3
<1>6. Total({}) = 0
    BY TotalOne
<1>7. CASE M = {} /\ N = {}
  <2>1. S = K /\ P # {} /\ Q # {} /\ R \ P # {} /\ R \ Q # {} /\ R # {}
    BY <1>7
  <2>2. Total(R \ P) = a /\ Total(R \ Q) = a /\ Total(R) = a
    <3>1. (R \ P) \cup M = R \ P /\ (R \ Q) \cup N = R \ Q
      BY <1>7
    <3> QED BY <2>1, <3>1
  <2> HIDE DEF K, S
  <2> QED BY <2>1, <2>2, <1>3, <1>4, <1>5 DEF S
<1>8. CASE M # {} /\ N = {}
  <2>1. S = K \cup M /\ K \cap M = {} /\ Q # {} /\ R # {}
    BY <1>8
  <2>2. /\ Total(K \cup M) = Total(K) + Total(M) /\ Total(M) \in Int
        /\ Total((R \ P) \cup M) = Total(R \ P) + Total(M)
    <3>1. (R \ P) \cap M = {} /\ R \ P \in SUBSET Direct
      OBVIOUS
    <3> HIDE DEF K
    <3> QED BY <1>1, <1>2, <2>1, <3>1, TotalJoin
  <2>3. Total(M) = a /\ Total((R \ P) \cup M) = a /\ Total(R) = a
    BY <1>8, <2>1
  <2>4. R \ Q = {} => Total(K) = 0
    BY <1>6
  <2>5. R \ Q # {} => Total(R \ Q) = a
    <3>1. (R \ Q) \cup N = R \ Q
      BY <1>8
    <3> QED BY <3>1
  <2> HIDE DEF K, S
  <2>6. Total(Q) + Total(K) = 0 /\ Total(P) = a
    BY <2>2, <2>3, <1>3, <1>5
  <2>7. Total(K) = 0
    BY <2>4, <2>5, <2>6, <1>3, <1>4
  <2> QED BY <2>1, <2>2, <2>3, <2>7, <1>3 DEF S
<1>9. CASE M = {} /\ N # {}
  <2>1. S = K \cup N /\ K \cap N = {} /\ P # {} /\ R # {}
    BY <1>9
  <2>2. /\ Total(K \cup N) = Total(K) + Total(N) /\ Total(N) \in Int
        /\ Total((R \ Q) \cup N) = Total(R \ Q) + Total(N)
    <3>1. (R \ Q) \cap N = {} /\ R \ Q \in SUBSET Direct
      OBVIOUS
    <3> HIDE DEF K
    <3> QED BY <1>1, <1>2, <2>1, <3>1, TotalJoin
  <2>3. Total(N) = a /\ Total((R \ Q) \cup N) = a /\ Total(R) = a
    BY <1>9, <2>1
  <2>4. R \ P = {} => Total(K) = 0
    BY <1>6
  <2>5. R \ P # {} => Total(R \ P) = a
    <3>1. (R \ P) \cup M = R \ P
      BY <1>9
    <3> QED BY <3>1
  <2> HIDE DEF K, S
  <2>6. Total(P) + Total(K) = 0 /\ Total(Q) = a
    BY <2>2, <2>3, <1>3, <1>4, <1>5
  <2>7. Total(K) = 0
    BY <2>4, <2>5, <2>6, <1>3
  <2>8. Total(K \cup N) = a
    <3> HIDE DEF Apart
    <3> QED BY <2>2, <2>3, <2>7
  <2> QED BY <2>1, <2>8 DEF S
<1>10. M = {} \/ N = {}
    OBVIOUS
<1> HIDE DEF Apart
<1> QED BY <1>7, <1>8, <1>9, <1>10

(* What is known of a request when it commits, and what it changes.        *)
Committing(p) ==
    /\ req[p].pc = "checked" /\ Flies(p) /\ Shaped(req[p]) /\ Splits(req[p].delta.onD)
    /\ req[p].delta.offD \subseteq directs
    /\ Referring(req[p]) /\ Adding(req[p])
    /\ ~req[p].stale => Fresh(req[p])
    /\ req[p].ask \in Ask /\ req[p].delta \in Delta /\ req[p].stale \in BOOLEAN
    /\ tx' = TxWith(req[p]) /\ directs' = DirectsWith(req[p])
    /\ spent' = spent \cup {d.category : d \in directs \cap req[p].delta.offD}
    /\ filters' = FiltersWith(req[p])
    /\ hits' = {x \in (hits \ req[p].delta.offH) \cup req[p].delta.onH : filters'[x[2]] # None}
    /\ categories' = IF req[p].ask.op = "dropCategory" THEN categories \ {req[p].ask.category}
                     ELSE categories
    /\ accounts' = IF req[p].ask.op = "close"
                   THEN [accounts EXCEPT ![req[p].ask.account].stage = "closed"] ELSE accounts
    /\ blurred' = Blur(req[p])
    /\ crossed' = IF req[p].stale THEN crossed \cup Touched(req[p]) ELSE crossed
    /\ raced' = raced /\ UNCHANGED <<known, asked>>
    /\ req' = Ended(p, TRUE) /\ Ends(p, TRUE)

(* What a commit does, in the terms of the lemmas below.                   *)
LEMMA Commits ==
    ASSUME IInv, NEW p \in Requests, Commit(p)
    PROVE  Committing(p)
<1> USE DEF IInv
<1>1. req[p].pc = "checked" /\ Flies(p)
    BY DEF Commit, Flies
<1>2. /\ Shaped(req[p]) /\ Splits(req[p].delta.onD) /\ req[p].delta.offD \subseteq directs
      /\ Referring(req[p]) /\ Adding(req[p]) /\ (~req[p].stale => Fresh(req[p]))
    BY <1>1 DEF ShapeInv, CheckedInv, FreshInv
<1>3. req[p].ask \in Ask /\ req[p].delta \in Delta /\ req[p].stale \in BOOLEAN
    BY DEF TypeOK, ReferencesHold
<1>4. req' = Ended(p, TRUE)
    BY DEF Commit
<1>5. Ends(p, TRUE)
    BY <1>4, EndedReq
<1> QED BY <1>1, <1>2, <1>3, <1>4, <1>5 DEF Commit, Committing

(* No transaction is forgotten, every row belongs to an account, and only  *)
(* imports change any.                                                     *)
LEMMA CommitTx ==
    ASSUME IInv, NEW p \in Requests, Committing(p)
    PROVE  /\ tx' \in [Hashes -> Transaction] /\ BoundInv'
           /\ \A h \in Hashes : tx[h].state # "none" => tx'[h].state # "none"
           /\ Touched(req[p]) \subseteq Accounts
           /\ Rows(req[p]) = {} => tx' = tx
<1> DEFINE r == req[p]
<1>1. /\ tx \in [Hashes -> Transaction] /\ BoundInv /\ r.ask \in Ask
      /\ r.ask.op # "import" => Rows(r) = {}
      /\ r.ask.op \in {"import", "close"} <=> r.ask.account # None
      /\ tx' = TxWith(r) /\ r.delta \in Delta
      /\ \A h \in r.delta.aside \cup r.delta.revive \cup r.delta.rebind : tx[h].state # "none"
    BY DEF IInv, TypeOK, ReferencesHold, Committing, Shaped
<1> HIDE DEF r
<1>2. Rows(r) # {} => r.ask.account \in Accounts
    BY <1>1 DEF Ask
<1>3. ASSUME NEW h \in Hashes
      PROVE  /\ tx'[h] \in Transaction
             /\ tx'[h].state # "none" => tx'[h].account \in Accounts
             /\ tx[h].state # "none" => tx'[h].state # "none"
             /\ h \in Rows(r) => tx'[h].account \in Accounts
             /\ h \notin Rows(r) => tx'[h] = tx[h]
  <2>1. /\ tx'[h] = [state |-> tx'[h].state, account |-> tx'[h].account]
        /\ tx'[h].state = IF h \in r.delta.aside THEN "aside"
                          ELSE IF h \in r.delta.insert \cup r.delta.revive THEN "booked"
                          ELSE tx[h].state
        /\ tx'[h].account = IF h \in r.delta.insert \cup r.delta.rebind THEN r.ask.account
                            ELSE tx[h].account
    BY <1>1 DEF TxWith
  <2>2. /\ tx[h].state \in {"none", "booked", "aside"} /\ tx[h].account \in Accounts \cup {None}
        /\ tx[h] = [state |-> tx[h].state, account |-> tx[h].account]
        /\ tx[h].state # "none" => tx[h].account \in Accounts
    BY <1>1 DEF Transaction, BoundInv
  <2>3. /\ h \in r.delta.insert \cup r.delta.rebind => r.ask.account \in Accounts
        /\ h \in r.delta.aside \cup r.delta.revive \cup r.delta.rebind => tx[h].state # "none"
    BY <1>1, <1>2 DEF Rows
  <2>4. /\ tx'[h].state \in {"none", "booked", "aside"}
        /\ tx'[h].account \in Accounts \cup {None}
    BY <2>1, <2>2, <2>3
  <2>5. tx'[h] \in Transaction
    BY <2>1, <2>4 DEF Transaction
  <2>6. h \notin Rows(r) => tx'[h].state = tx[h].state /\ tx'[h].account = tx[h].account
    BY <2>1 DEF Rows
  <2>7. h \notin Rows(r) => tx'[h] = tx[h]
    BY <2>1, <2>2, <2>6
  <2>8. /\ tx'[h].state # "none" => tx'[h].account \in Accounts
        /\ tx[h].state # "none" => tx'[h].state # "none"
        /\ h \in Rows(r) => tx'[h].account \in Accounts
    BY <2>1, <2>2, <2>3 DEF Rows
  <2> QED BY <2>5, <2>7, <2>8
<1>4. tx' = [h \in Hashes |-> tx'[h]]
    BY <1>1 DEF TxWith
<1>5. tx' \in [Hashes -> Transaction]
    BY <1>3, <1>4
<1>6. Touched(r) \subseteq Accounts
  <2>1. r.ask.account \in Accounts \cup {None} /\ Rows(r) \subseteq Hashes
    BY <1>1 DEF Ask, Rows, Delta
  <2>2. \A h \in Rows(r) : TxWith(r)[h].account \in Accounts
    BY <2>1, <1>1, <1>3
  <2> QED BY <2>1, <2>2 DEF Touched
<1>7. Rows(r) = {} => tx' = tx
    BY <1>1, <1>3, <1>4
<1> QED BY <1>3, <1>5, <1>6, <1>7 DEF BoundInv, r

(* The foreign keys and the unique keys hold.                              *)
LEMMA CommitTypes ==
    ASSUME IInv, NEW p \in Requests, Committing(p)
    PROVE  TypeOK'
<1> DEFINE r == req[p]
           c == r.ask.category
<1>1. /\ tx' \in [Hashes -> Transaction] /\ Touched(r) \subseteq Accounts
      /\ \A h \in Hashes : tx[h].state # "none" => tx'[h].state # "none"
    BY CommitTx
<1>2. /\ r.ask \in Ask /\ r.delta.onD \subseteq Direct /\ r.delta.offD \subseteq directs
      /\ r.delta.onH \subseteq Hit
      /\ \A d \in r.delta.onD :
           /\ tx[d.hash].state # "none" /\ d.category \in categories
           /\ \A e \in r.delta.onD : d.hash = e.hash /\ d.category = e.category => d = e
           /\ \A e \in directs \ r.delta.offD : <<e.hash, e.category>> # <<d.hash, d.category>>
      /\ r.ask.rule # None => r.ask.rule.category \in categories
      /\ r.ask.op = "dropCategory" =>
           /\ ~Used(c) /\ c \notin spent /\ r.ask.rule = None
           /\ r.delta.onD = {} /\ r.delta.offD = {}
      /\ r.ask.rule # None \/ r.ask.op = "drop" => r.ask.filter \in Filters
      /\ r.ask.rule # None => r.ask.op \in Saves
    BY DEF Committing, Referring, Splits, Shaped, Delta, Saves
<1>3. /\ directs' = (directs \ r.delta.offD) \cup r.delta.onD
      /\ spent' = spent \cup {d.category : d \in directs \cap r.delta.offD}
      /\ filters' = FiltersWith(r)
      /\ hits' = {x \in (hits \ r.delta.offH) \cup r.delta.onH : filters'[x[2]] # None}
      /\ categories' = IF r.ask.op = "dropCategory" THEN categories \ {c} ELSE categories
      /\ accounts' = IF r.ask.op = "close"
                     THEN [accounts EXCEPT ![r.ask.account].stage = "closed"] ELSE accounts
      /\ blurred' = Blur(r)
      /\ crossed' = IF r.stale THEN crossed \cup Touched(r) ELSE crossed
      /\ raced' = raced /\ UNCHANGED <<known, asked>> /\ Ends(p, TRUE)
    BY DEF Committing, DirectsWith
<1>4. TypeOK
    BY DEF IInv
<1> HIDE DEF r, c
<1>5. directs' \subseteq Direct
    BY <1>2, <1>3, <1>4 DEF TypeOK, ReferencesHold
<1>6. \A d \in directs' : tx'[d.hash].state # "none" /\ d.category \in categories'
  <2> SUFFICES ASSUME NEW d \in directs'
               PROVE  tx'[d.hash].state # "none" /\ d.category \in categories'
    OBVIOUS
  <2>1. d.hash \in Hashes
    BY <1>5 DEF Direct
  <2>2. tx[d.hash].state # "none" /\ d.category \in categories
    BY <1>2, <1>3, <1>4 DEF TypeOK, ReferencesHold
  <2>3. r.ask.op = "dropCategory" => d.category # c
    BY <1>2, <1>3 DEF Used
  <2> QED BY <2>1, <2>2, <2>3, <1>1, <1>3
<1>7. \A d, e \in directs' : d.hash = e.hash /\ d.category = e.category => d = e
  <2> SUFFICES ASSUME NEW d \in directs', NEW e \in directs',
                      d.hash = e.hash, d.category = e.category
               PROVE  d = e
    OBVIOUS
  <2>1. \A a, b \in directs : a.hash = b.hash /\ a.category = b.category => a = b
    BY <1>4 DEF TypeOK, ReferencesHold
  <2> QED BY <2>1, <1>2, <1>3
<1>8. spent' \subseteq categories'
  <2>1. spent \subseteq categories /\ \A d \in directs : d.category \in categories
    BY <1>4 DEF TypeOK, ReferencesHold
  <2> QED BY <2>1, <1>2, <1>3
<1>9. filters' \in [Filters -> Rules \cup {None}]
  <2>1. filters \in [Filters -> Rules \cup {None}] /\ r.ask.rule \in Rules \cup {None}
    BY <1>2, <1>4 DEF TypeOK, ReferencesHold, Ask
  <2> QED BY <2>1, <1>3 DEF FiltersWith
<1>10. \A f \in Filters : filters'[f] # None => filters'[f].category \in categories'
  <2> SUFFICES ASSUME NEW f \in Filters, filters'[f] # None
               PROVE  filters'[f].category \in categories'
    OBVIOUS
  <2>1. filters \in [Filters -> Rules \cup {None}]
    BY <1>4 DEF TypeOK, ReferencesHold
  <2>2. \/ r.ask.rule # None /\ filters'[f] = r.ask.rule
        \/ filters[f] # None /\ filters'[f] = filters[f]
    BY <2>1, <1>2, <1>3 DEF FiltersWith
  <2>3. filters[f] # None => filters[f].category \in categories
    BY <1>4 DEF TypeOK, ReferencesHold
  <2>4. r.ask.op = "dropCategory" => (filters[f] # None => filters[f].category # c)
    BY <1>2 DEF Used
  <2>5. r.ask.rule # None => r.ask.op # "dropCategory"
    BY <1>2
  <2> QED BY <2>2, <2>3, <2>4, <2>5, <1>2, <1>3
<1>11. hits' \subseteq Hashes \X {f \in Filters : filters'[f] # None}
  <2>1. hits \subseteq Hashes \X Filters
    BY <1>4 DEF TypeOK, ReferencesHold
  <2> QED BY <2>1, <1>2, <1>3 DEF Hit
<1>12. categories' \subseteq Categories
    BY <1>3, <1>4 DEF TypeOK, ReferencesHold
<1>13. accounts' \in [Accounts -> Account]
  <2>1. accounts \in [Accounts -> Account]
    BY <1>4 DEF TypeOK, ReferencesHold
  <2>2. \A a \in Accounts : [accounts[a] EXCEPT !.stage = "closed"] \in Account
    BY <2>1 DEF Account
  <2>3. [accounts EXCEPT ![r.ask.account].stage = "closed"] \in [Accounts -> Account]
    BY <2>1, <2>2
  <2> QED BY <2>1, <2>3, <1>3
<1>14. blurred' \in BOOLEAN /\ crossed' \subseteq Accounts
    BY <1>1, <1>3, <1>4 DEF TypeOK, ReferencesHold, Blur
<1> QED BY <1>1, <1>3, <1>4, <1>5, <1>6, <1>7, <1>8, <1>9, <1>10, <1>11, <1>12, <1>13, <1>14
        DEF TypeOK, ReferencesHold, Ends

(* Who else is on the way keeps its shape, and has read what is old now.   *)
LEMMA CommitShape ==
    ASSUME IInv, NEW p \in Requests, Committing(p)
    PROVE  /\ OrderInv' /\ PairInv' /\ ShapeInv' /\ FreshInv'
           /\ req'[p].pc = "idle"
<1>1. /\ OrderInv' /\ PairInv' /\ ~Flies(p)'
      /\ \A q \in Requests \ {p} : Flies(q)' <=> Flies(q)
  <2>1. Flies(p) /\ TRUE \in BOOLEAN /\ req' = Ended(p, TRUE) /\ raced \subseteq raced'
    BY DEF Committing
  <2> QED BY <2>1, EndedOrder
<1>2. /\ \A h \in Hashes : tx[h].state # "none" => tx'[h].state # "none"
      /\ directs' = (directs \ req[p].delta.offD) \cup req[p].delta.onD
    BY CommitTx DEF Committing, DirectsWith
<1>3. ShapeInv'
  <2> SUFFICES ASSUME NEW q \in Requests, Flies(q)'
               PROVE  /\ Shaped(req[q])' /\ Splits(req[q].delta.onD)'
                      /\ req'[q].delta.offD \subseteq directs'
    BY DEF ShapeInv
  <2> DEFINE r == req[q]
             s == req'[q]
  <2>1. q # p /\ Flies(q)
    BY <1>1
  <2>2. /\ s.ask = r.ask /\ s.delta.offD = r.delta.offD \ req[p].delta.offD
        /\ s.delta.insert = r.delta.insert /\ s.delta.revive = r.delta.revive
        /\ s.delta.aside = r.delta.aside /\ s.delta.rebind = r.delta.rebind
        /\ s.delta.onD = r.delta.onD /\ s.delta.offH = r.delta.offH /\ s.delta.onH = r.delta.onH
    BY <2>1 DEF Committing, Ends
  <2>3. Shaped(r) /\ Splits(r.delta.onD) /\ r.delta.offD \subseteq directs /\ r.delta \in Delta
    BY <2>1 DEF IInv, ShapeInv, TypeOK, ReferencesHold
  <2>4. /\ \A d \in r.delta.onD : d.hash \in Hashes
        /\ \A h \in r.delta.aside \cup r.delta.revive \cup r.delta.rebind : h \in Hashes
    BY <2>3 DEF Delta, Direct
  <2> HIDE DEF r, s
  <2>5. ASSUME NEW u, u.ask = s.ask, u.delta = s.delta
        PROVE  Shaped(u)' /\ Splits(u.delta.onD)'
    <3>1. /\ \A h \in u.delta.aside \cup u.delta.revive \cup u.delta.rebind : tx'[h].state # "none"
          /\ Rows(u) = Rows(r)
      BY <2>2, <2>3, <2>4, <2>5, <1>2 DEF Shaped, Rows
    <3>2. Shaped(u)'
      BY <2>2, <2>3, <2>5, <3>1 DEF Shaped, Rows
    <3>3. Splits(u.delta.onD)'
      BY <2>2, <2>3, <2>4, <2>5, <1>2 DEF Splits
    <3> QED BY <3>2, <3>3
  <2>6. s.delta.offD \subseteq directs'
    BY <2>2, <2>3, <1>2
  <2> QED BY <2>5, <2>6 DEF s
<1>4. FreshInv'
  <2> SUFFICES ASSUME NEW q \in Requests, Flies(q)' PROVE req'[q].stale
    BY DEF FreshInv
  <2>1. q # p /\ Flies(q)
    BY <1>1
  <2> QED BY <2>1 DEF Committing, Ends, Flies
<1> QED BY <1>1, <1>3, <1>4 DEF Flies

(* The sums of the transactions whose assignments change are those that    *)
(* the check has seen; the others do not change.                           *)
LEMMA CommitSums ==
    ASSUME IInv, NEW p \in Requests, Committing(p)
    PROVE  DirectsAddUp'
<1> DEFINE r == req[p]
<1>1. /\ directs' = DirectsWith(r) /\ raced' = raced /\ Adding(r) /\ DirectsAddUp
    BY DEF Committing, IInv
<1> HIDE DEF r
<1>2. SUFFICES ASSUME NEW h \in Directed(directs') \ raced
               PROVE  Total(OfHash(directs', h)) = Amount[h[1]]
    BY <1>1 DEF DirectsAddUp
<1>3. OfHash(directs', h) # {}
    BY DEF OfHash, Directed
<1>4. CASE h \in Directed(r.delta.offD \cup r.delta.onD)
    BY <1>1, <1>3, <1>4 DEF Adding
<1>5. CASE h \notin Directed(r.delta.offD \cup r.delta.onD)
  <2>1. OfHash(directs', h) = OfHash(directs, h)
    BY <1>1, <1>5 DEF OfHash, DirectsWith, Directed
  <2>2. h \in Directed(directs)
    BY <1>3, <2>1 DEF OfHash, Directed
  <2> QED BY <1>1, <2>1, <2>2 DEF DirectsAddUp
<1> QED BY <1>4, <1>5

(* What another request was checked for is not undone: they did not wait   *)
(* for each other.                                                         *)
LEMMA CommitRefers ==
    ASSUME IInv, NEW p \in Requests, Committing(p),
           NEW q \in Requests \ {p}, req[q].pc = "checked"
    PROVE  Referring(req[q])'
<1> DEFINE r == req[p]
           s == req[q]
           c == r.ask.category
           e == s.ask.category
<1>1. Referring(s) /\ Referring(r) /\ ~Waits(r, s)
    BY DEF Committing, IInv, CheckedInv, PairInv
<1>2. /\ directs' = (directs \ r.delta.offD) \cup r.delta.onD
      /\ spent' = spent \cup {d.category : d \in directs \cap r.delta.offD}
      /\ filters' = FiltersWith(r) /\ filters \in [Filters -> Rules \cup {None}]
      /\ categories' = IF r.ask.op = "dropCategory" THEN categories \ {c} ELSE categories
    BY DEF Committing, DirectsWith, IInv, TypeOK, ReferencesHold
<1>3. /\ req'[q].ask = s.ask /\ req'[q].delta.onD = s.delta.onD
      /\ req'[q].delta.offD = s.delta.offD \ r.delta.offD
    BY DEF Committing, Ends
<1> HIDE DEF r, s, c, e
<1>4. ASSUME NEW d \in s.delta.onD
      PROVE  /\ d.category \in categories'
             /\ \A g \in directs' \ (s.delta.offD \ r.delta.offD) :
                   <<g.hash, g.category>> # <<d.hash, d.category>>
  <2>1. d.category \in categories'
    <3>1. d.category \in categories
      BY <1>1 DEF Referring
    <3>2. r.ask.op = "dropCategory" => d.category # c
      BY <1>1 DEF Waits, Refers, c
    <3> QED BY <3>1, <3>2, <1>2
  <2>2. ASSUME NEW g \in directs' \ (s.delta.offD \ r.delta.offD),
               <<g.hash, g.category>> = <<d.hash, d.category>>
        PROVE  FALSE
    <3>1. CASE g \in r.delta.onD
      <4>1. <<g.hash, g.category>> \in Keys(r) /\ <<d.hash, d.category>> \in Keys(s)
        BY <3>1 DEF Keys
      <4>2. Keys(r) \cap Keys(s) = {}
        BY <1>1 DEF Waits
      <4> QED BY <2>2, <4>1, <4>2
    <3>2. CASE g \in directs \ r.delta.offD
      <4>1. g \in directs \ s.delta.offD
        BY <3>2
      <4> QED BY <4>1, <2>2, <1>1 DEF Referring
    <3> QED BY <3>1, <3>2, <1>2
  <2> QED BY <2>1, <2>2
<1>5. s.ask.rule # None => s.ask.rule.category \in categories'
  <2>1. s.ask.rule # None /\ r.ask.op = "dropCategory" => s.ask.rule.category # c
    BY <1>1 DEF Waits, Refers, c
  <2> QED BY <2>1, <1>1, <1>2 DEF Referring
<1>6. s.ask.op = "dropCategory" =>
         /\ \A f \in Filters : filters'[f] # None => filters'[f].category # e
         /\ \A d \in directs' : d.category # e
         /\ e \notin spent'
  <2> SUFFICES ASSUME s.ask.op = "dropCategory"
               PROVE  /\ \A f \in Filters : filters'[f] # None => filters'[f].category # e
                      /\ \A d \in directs' : d.category # e
                      /\ e \notin spent'
    OBVIOUS
  <2>1. ~Used(e) /\ e \notin spent /\ ~Refers(r, e)
    BY <1>1 DEF Referring, Waits, e
  <2>2. \A f \in Filters : filters'[f] # None => filters'[f].category # e
    <3> SUFFICES ASSUME NEW f \in Filters, filters'[f] # None PROVE filters'[f].category # e
      OBVIOUS
    <3>1. \/ r.ask.rule # None /\ filters'[f] = r.ask.rule
          \/ filters[f] # None /\ filters'[f] = filters[f]
      BY <1>2 DEF FiltersWith
    <3> QED BY <3>1, <2>1 DEF Used, Refers
  <2>3. \A d \in directs' : d.category # e
    BY <1>2, <2>1 DEF Used, Refers
  <2>4. e \notin spent'
    BY <1>2, <2>1 DEF Used
  <2> QED BY <2>2, <2>3, <2>4
<1>7. /\ \A d \in req'[q].delta.onD :
           /\ d.category \in categories'
           /\ \A g \in directs' \ req'[q].delta.offD :
                 <<g.hash, g.category>> # <<d.hash, d.category>>
      /\ req'[q].ask.rule # None => req'[q].ask.rule.category \in categories'
    BY <1>3, <1>4, <1>5
<1>8. req'[q].ask.op = "dropCategory" => ~Used(req[q].ask.category)'
                                         /\ req'[q].ask.category \notin spent'
    BY <1>3, <1>6 DEF Used, e
<1> QED BY <1>7, <1>8 DEF Referring

(* Nor are its sums wrong afterwards.                                      *)
LEMMA CommitAdds ==
    ASSUME IInv, NEW p \in Requests, Committing(p),
           NEW q \in Requests \ {p}, req[q].pc = "checked"
    PROVE  Adding(req[q])'
<1> DEFINE r == req[p]
           s == req[q]
<1>1. /\ Adding(r) /\ Adding(s) /\ Referring(r) /\ Referring(s)
      /\ Splits(r.delta.onD) /\ Splits(s.delta.onD)
      /\ r.delta.offD \subseteq directs /\ s.delta.offD \subseteq directs
      /\ Directed(r.delta.onD) \cap Directed(s.delta.onD) \subseteq raced
    BY DEF Committing, IInv, CheckedInv, PairInv, ShapeInv, Flies
<1>2. /\ directs' = (directs \ r.delta.offD) \cup r.delta.onD /\ raced' = raced
      /\ directs \subseteq Direct /\ r.delta.onD \subseteq Direct /\ s.delta.onD \subseteq Direct
      /\ \A d, e \in directs : d.hash = e.hash /\ d.category = e.category => d = e
      /\ DirectsAddUp
    BY DEF Committing, DirectsWith, IInv, TypeOK, ReferencesHold, Delta
<1>3. r.delta.offD \cap s.delta.offD = {}
  <2>1. Flies(p) /\ Late(p) /\ Flies(q) /\ Late(q)
    BY DEF Committing, Flies, Late
  <2>2. p \in req[q].after \/ q \in req[p].after
    BY <2>1 DEF IInv, OrderInv
  <2>3. ~Contend(r, s)
    BY <2>1, <2>2, WaitsBothWays DEF IInv, OrderInv
  <2> QED BY <2>3 DEF Contend
<1>4. /\ req'[q].ask = s.ask /\ req'[q].delta.onD = s.delta.onD
      /\ req'[q].delta.offD = s.delta.offD
  <2>1. /\ req'[q].ask = s.ask /\ req'[q].delta.onD = s.delta.onD
        /\ req'[q].delta.offD = s.delta.offD \ r.delta.offD
    BY DEF Committing, Ends
  <2> QED BY <2>1, <1>3
<1> HIDE DEF r, s
<1>5. SUFFICES ASSUME NEW h \in Directed(s.delta.offD \cup s.delta.onD) \ raced,
                      OfHash((directs' \ s.delta.offD) \cup s.delta.onD, h) # {}
               PROVE  Total(OfHash((directs' \ s.delta.offD) \cup s.delta.onD, h)) = Amount[h[1]]
    BY <1>2, <1>4 DEF Adding, DirectsWith
<1> DEFINE R == OfHash(directs, h)
           P == OfHash(r.delta.offD, h)
           Q == OfHash(s.delta.offD, h)
           M == OfHash(r.delta.onD, h)
           N == OfHash(s.delta.onD, h)
           a == Amount[h[1]]
<1>6. /\ R \in SUBSET Direct /\ P \in SUBSET R /\ Q \in SUBSET R
      /\ M \in SUBSET Direct /\ N \in SUBSET Direct
    BY <1>1, <1>2 DEF OfHash
<1>7. IsFiniteSet(R) /\ IsFiniteSet(M) /\ IsFiniteSet(N)
    BY <1>1, <1>2, FewDirects DEF Splits
<1>8. P \cap Q = {}
    BY <1>3 DEF OfHash
<1>9. M \cap (R \ P) = {} /\ N \cap (R \ Q) = {}
    BY <1>1 DEF OfHash, Referring
<1>10. M = {} \/ N = {}
    BY <1>1 DEF OfHash, Directed
<1>11. Q \cup N # {}
    BY DEF OfHash, Directed
<1>12. a \in Int /\ a # 0
  <2>1. h \in Hashes
    BY <1>1, <1>2 DEF Directed, Direct
  <2> QED BY <2>1, HashEntry, AmountAssumption
<1>13. R # {} => Total(R) = a
  <2>1. R # {} => h \in Directed(directs)
    BY DEF OfHash, Directed
  <2> QED BY <2>1, <1>2 DEF DirectsAddUp
<1>14. (M # {} => Total(M) = a) /\ (N # {} => Total(N) = a)
  <2>1. (M # {} => h \in Directed(r.delta.onD)) /\ (N # {} => h \in Directed(s.delta.onD))
    BY DEF OfHash, Directed
  <2> QED BY <2>1, <1>1 DEF Splits
<1>15. /\ OfHash(DirectsWith(r), h) = (R \ P) \cup M
       /\ OfHash(DirectsWith(s), h) = (R \ Q) \cup N
       /\ OfHash((directs' \ s.delta.offD) \cup s.delta.onD, h)
            = (((R \ P) \cup M) \ Q) \cup N
    BY <1>2 DEF OfHash, DirectsWith
<1>16. (R \ Q) \cup N # {} => Total((R \ Q) \cup N) = a
    BY <1>1, <1>15 DEF Adding
<1>17. CASE P \cup M = {}
  <2>1. (((R \ P) \cup M) \ Q) \cup N = (R \ Q) \cup N
    BY <1>17
  <2> QED BY <2>1, <1>5, <1>15, <1>16
<1>18. CASE P \cup M # {}
  <2>1. h \in Directed(r.delta.offD \cup r.delta.onD)
    BY <1>18 DEF OfHash, Directed
  <2>2. (R \ P) \cup M # {} => Total((R \ P) \cup M) = a
    BY <2>1, <1>1, <1>15 DEF Adding
  <2> HIDE DEF R, P, Q, M, N, a
  <2>3. Apart(R, P, Q, M, N, a)
    BY <2>2, <1>6, <1>7, <1>8, <1>9, <1>10, <1>11, <1>12, <1>13, <1>14, <1>16, <1>18 DEF Apart
  <2>4. LET S == (((R \ P) \cup M) \ Q) \cup N IN S # {} => Total(S) = a
    BY <2>3, SumsApart
  <2> QED BY <2>4, <1>5, <1>15 DEF a
<1> QED BY <1>17, <1>18

(* The hits stay what the rules give, or are marked as uncertain.          *)
LEMMA CommitHits ==
    ASSUME IInv, NEW p \in Requests, Committing(p)
    PROVE  HitsFollowRules'
<1> DEFINE r == req[p]
<1>1. /\ Shaped(r) /\ r.ask \in Ask /\ r.stale \in BOOLEAN /\ (~r.stale => Fresh(r))
      /\ r.pc = "checked" /\ directs' = (directs \ r.delta.offD) \cup r.delta.onD
      /\ filters' = FiltersWith(r) /\ tx' = TxWith(r) /\ (Rows(r) = {} => tx' = tx)
      /\ hits' = {x \in (hits \ r.delta.offH) \cup r.delta.onH : filters'[x[2]] # None}
      /\ blurred' = Blur(r) /\ HitsFollowRules
      /\ hits \subseteq Hashes \X {f \in Filters : filters[f] # None}
      /\ filters \in [Filters -> Rules \cup {None}]
    BY CommitTx DEF Committing, DirectsWith, IInv, TypeOK, ReferencesHold
<1> HIDE DEF r
<1>2. SUFFICES ASSUME ~blurred'
               PROVE  hits' = Found(tx', filters', Hashes \ Directed(directs'))
    BY DEF HitsFollowRules
<1>3. CASE r.ask.op \in Rebuilds
  <2>1. Fresh(r)
    BY <1>1, <1>2, <1>3 DEF Blur
  <2>2. /\ r.delta.offH = hits
        /\ r.delta.onH = Found(TxWith(r), FiltersWith(r), Hashes \ Directed(directs))
    BY <2>1, <1>1, <1>3 DEF Fresh
  <2>3. directs' = directs
    BY <1>1, <1>3 DEF Shaped, Rebuilds
  <2>4. \A x \in r.delta.onH : filters'[x[2]] # None
    BY <2>2, <1>1 DEF Found
  <2>5. hits' = r.delta.onH
    BY <2>2, <2>4, <1>1
  <2> QED BY <2>2, <2>3, <2>5, <1>1
<1>4. ASSUME r.ask.op \notin Rebuilds
      PROVE  /\ tx' = tx /\ r.ask.op # "import" /\ r.ask.rule = None
             /\ hits = Found(tx, filters, Hashes \ Directed(directs))
             /\ r.ask.op \in {"assign", "release", "convert"} => Fresh(r)
             /\ r.ask.op # "drop" => filters' = filters
  <2>1. r.ask.op # "import" /\ r.ask.rule = None
    BY <1>1, <1>4 DEF Shaped, Rebuilds, Saves
  <2>2. ~blurred /\ (r.ask.op \in {"assign", "release", "convert"} => ~r.stale)
    BY <1>1, <1>2, <1>4 DEF Blur
  <2>3. Rows(r) = {}
    BY <1>1, <2>1 DEF Shaped
  <2>4. r.ask.op # "drop" => filters' = filters
    BY <1>1, <2>1 DEF FiltersWith
  <2> QED BY <1>1, <2>1, <2>2, <2>3, <2>4 DEF HitsFollowRules
<1>5. CASE r.ask.op = "drop"
  <2>1. r.ask.op \notin Rebuilds
    BY <1>5 DEF Rebuilds
  <2>2. /\ directs' = directs /\ r.delta.onH = {} /\ r.ask.filter \in Filters
        /\ \A x \in r.delta.offH : x[2] = r.ask.filter
    BY <1>1, <1>5 DEF Shaped, Rebuilds
  <2>3. filters' = [filters EXCEPT ![r.ask.filter] = None]
    BY <1>1, <1>4, <1>5, <2>1 DEF FiltersWith
  <2>4. hits' = {x \in hits : x[2] # r.ask.filter}
    BY <1>1, <2>2, <2>3
  <2>5. Found(tx, filters', Hashes \ Directed(directs))
          = {x \in Found(tx, filters, Hashes \ Directed(directs)) : x[2] # r.ask.filter}
    BY <1>1, <2>2, <2>3 DEF Found, Matches
  <2> QED BY <1>4, <2>1, <2>2, <2>4, <2>5
<1>6. CASE r.ask.op \in {"dropCategory", "close"}
  <2>1. r.ask.op \notin Rebuilds
    BY <1>6 DEF Rebuilds
  <2>2. directs' = directs /\ r.delta.onH = {} /\ r.delta.offH = {}
    BY <1>1, <1>6 DEF Shaped, Rebuilds
  <2>3. filters' = filters /\ tx' = tx /\ hits = Found(tx, filters, Hashes \ Directed(directs))
    BY <1>4, <1>6, <2>1
  <2>4. hits' = hits
    BY <1>1, <2>2, <2>3
  <2> QED BY <2>2, <2>3, <2>4
<1>7. CASE r.ask.op = "assign"
  <2> DEFINE h == r.ask.hash
  <2>1. r.ask.op \notin Rebuilds
    BY <1>7 DEF Rebuilds
  <2>2. /\ r.delta.onH = {} /\ r.delta.onD # {} /\ \A d \in r.delta.onD : d.hash = h
    BY <1>1, <1>7 DEF Shaped, Rebuilds
  <2>3. filters' = filters /\ tx' = tx /\ Fresh(r)
        /\ hits = Found(tx, filters, Hashes \ Directed(directs))
    BY <1>4, <1>7, <2>1
  <2>4. r.delta.offD = OfHash(directs, h) /\ r.delta.offH = HitsOf(h)
    BY <1>7, <2>3 DEF Fresh
  <2> HIDE DEF h
  <2>5. Directed(directs') = Directed(directs) \cup {h}
    BY <1>1, <2>2, <2>4 DEF Directed, OfHash
  <2>6. hits' = {x \in hits : x[1] # h}
    BY <1>1, <2>2, <2>3, <2>4 DEF HitsOf
  <2>7. Found(tx, filters, Hashes \ (Directed(directs) \cup {h}))
          = {x \in Found(tx, filters, Hashes \ Directed(directs)) : x[1] # h}
    BY DEF Found
  <2> QED BY <2>3, <2>5, <2>6, <2>7
<1>8. CASE r.ask.op = "release"
  <2> DEFINE h == r.ask.hash
  <2>1. r.ask.op \notin Rebuilds
    BY <1>8 DEF Rebuilds
  <2>2. r.delta.onD = {} /\ h \in Hashes
    BY <1>1, <1>8 DEF Shaped
  <2>3. filters' = filters /\ tx' = tx /\ Fresh(r)
        /\ hits = Found(tx, filters, Hashes \ Directed(directs))
    BY <1>4, <1>8, <2>1
  <2>4. /\ r.delta.offD = OfHash(directs, h) /\ r.delta.offH = HitsOf(h)
        /\ r.delta.onH = Found(tx, filters, {h})
    BY <1>1, <1>8, <2>3 DEF Fresh
  <2> HIDE DEF h
  <2>5. Directed(directs') = Directed(directs) \ {h}
    BY <1>1, <2>2, <2>4 DEF Directed, OfHash
  <2>6. \A x \in Found(tx, filters, {h}) : filters[x[2]] # None
    BY DEF Found
  <2>7. hits' = {x \in hits : x[1] # h} \cup Found(tx, filters, {h})
    BY <1>1, <2>3, <2>4, <2>6 DEF HitsOf
  <2>8. Found(tx, filters, Hashes \ (Directed(directs) \ {h}))
          = {x \in Found(tx, filters, Hashes \ Directed(directs)) : x[1] # h}
              \cup Found(tx, filters, {h})
    BY <2>2 DEF Found
  <2> QED BY <2>3, <2>5, <2>7, <2>8
<1>9. CASE r.ask.op = "convert"
  <2> DEFINE f == r.ask.filter
  <2>1. r.ask.op \notin Rebuilds
    BY <1>9 DEF Rebuilds
  <2>2. r.delta.offD = {} /\ r.delta.onH = {} /\ f \in Filters
    BY <1>1, <1>9 DEF Shaped, Rebuilds
  <2>3. filters' = filters /\ tx' = tx /\ Fresh(r)
        /\ hits = Found(tx, filters, Hashes \ Directed(directs))
    BY <1>4, <1>9, <2>1
  <2>4. r.delta.onD = Made(f) /\ r.delta.offH = {x \in hits : x[1] \in Gained(f)} \cup HitBy(f)
    BY <1>9, <2>3 DEF Fresh
  <2> HIDE DEF f
  <2>5. Directed(directs') = Directed(directs) \cup Gained(f)
    <3> DEFINE Row(g) == [hash |-> g, category |-> filters[f].category, amount |-> Amount[g[1]]]
    <3>1. Made(f) = {Row(g) : g \in Gained(f)}
      BY DEF Made
    <3>2. \A g : Row(g).hash = g
      OBVIOUS
    <3> HIDE DEF Row
    <3>3. Directed(Made(f)) = Gained(f)
      BY <3>1, <3>2 DEF Directed
    <3>4. directs' = directs \cup Made(f)
      BY <1>1, <2>2, <2>4
    <3> QED BY <3>3, <3>4 DEF Directed
  <2>6. \A x \in hits : x[2] = f => x[1] \in Gained(f)
    <3>1. \A x \in hits : x = <<x[1], x[2]>> /\ x[1] \in Hashes \ Directed(directs)
                          /\ tx[x[1]].state = "booked"
      BY <2>3 DEF Found, Matches
    <3> QED BY <3>1 DEF Gained, Booked
  <2>7. hits' = {x \in hits : x[1] \notin Gained(f)}
    BY <1>1, <2>2, <2>3, <2>4, <2>6 DEF HitBy
  <2>8. Found(tx, filters, Hashes \ (Directed(directs) \cup Gained(f)))
          = {x \in Found(tx, filters, Hashes \ Directed(directs)) : x[1] \notin Gained(f)}
    BY DEF Found
  <2> QED BY <2>3, <2>5, <2>7, <2>8
<1> QED BY <1>1, <1>3, <1>5, <1>6, <1>7, <1>8, <1>9 DEF Ask, Rebuilds, Shaped

(* No transaction comes to a closed account unnoticed.                     *)
LEMMA CommitClosed ==
    ASSUME IInv, NEW p \in Requests, Committing(p)
    PROVE  ClosedHoldsNothing'
<1> DEFINE r == req[p]
           a == r.ask.account
<1>1. /\ Shaped(r) /\ r.ask \in Ask /\ (~r.stale => Fresh(r)) /\ ClosedHoldsNothing
      /\ tx' = TxWith(r) /\ (Rows(r) = {} => tx' = tx)
      /\ accounts' = IF r.ask.op = "close" THEN [accounts EXCEPT ![a].stage = "closed"]
                     ELSE accounts
      /\ crossed' = IF r.stale THEN crossed \cup Touched(r) ELSE crossed
      /\ accounts \in [Accounts -> Account]
    BY CommitTx DEF Committing, IInv, TypeOK, ReferencesHold
<1> HIDE DEF r, a
<1>2. SUFFICES ASSUME NEW h \in Hashes, tx'[h].state = "booked",
                      accounts'[tx'[h].account].stage = "closed"
               PROVE  tx'[h].account \in crossed'
    BY DEF ClosedHoldsNothing, Booked
<1>3. tx[h].state = "booked" /\ accounts[tx[h].account].stage = "closed"
        => tx[h].account \in crossed'
    BY <1>1 DEF ClosedHoldsNothing, Booked
<1>4. CASE r.ask.op = "close"
  <2>1. tx' = tx /\ a # None
    BY <1>1, <1>4 DEF Shaped, a
  <2>2. CASE tx[h].account # a
    <3>1. accounts'[tx[h].account] = accounts[tx[h].account]
      BY <2>2, <1>1, <1>4
    <3> QED BY <3>1, <2>1, <1>2, <1>3
  <2>3. CASE tx[h].account = a
    <3>1. r.stale
      BY <2>1, <2>3, <1>1, <1>2, <1>4 DEF Fresh, Booked, a
    <3>2. a \in Touched(r)
      BY <2>1 DEF Touched, a
    <3> QED BY <3>1, <3>2, <2>1, <2>3, <1>1
  <2> QED BY <2>2, <2>3
<1>5. CASE r.ask.op = "import"
  <2>1. accounts' = accounts
    BY <1>1, <1>5
  <2>2. /\ tx'[h].state = IF h \in r.delta.aside THEN "aside"
                          ELSE IF h \in r.delta.insert \cup r.delta.revive THEN "booked"
                          ELSE tx[h].state
        /\ tx'[h].account = IF h \in r.delta.insert \cup r.delta.rebind THEN a
                            ELSE tx[h].account
    BY <1>1 DEF TxWith, a
  <2>3. CASE h \notin Rows(r)
    <3>1. tx'[h].state = tx[h].state /\ tx'[h].account = tx[h].account
      BY <2>2, <2>3 DEF Rows
    <3> QED BY <3>1, <2>1, <1>2, <1>3
  <2>4. CASE r.stale /\ h \in Rows(r)
    <3>1. tx'[h].account \in Touched(r)
      BY <2>4, <1>1 DEF Touched
    <3> QED BY <3>1, <2>4, <1>1
  <2>5. CASE ~r.stale
    <3>1. /\ accounts[a].stage = "open"
          /\ \A g \in r.delta.revive : g \in r.delta.rebind \/ tx[g].account = a
      BY <2>5, <1>1, <1>5 DEF Fresh, a
    <3>2. tx'[h].account # a
      BY <3>1, <2>1, <1>2
    <3>3. tx'[h].state = tx[h].state /\ tx'[h].account = tx[h].account
      BY <3>1, <3>2, <2>2, <1>2
    <3> QED BY <3>3, <2>1, <1>2, <1>3
  <2> QED BY <2>3, <2>4, <2>5
<1>6. CASE r.ask.op \notin {"close", "import"}
  <2>1. tx' = tx /\ accounts' = accounts
    BY <1>1, <1>6 DEF Shaped
  <2> QED BY <2>1, <1>2, <1>3
<1> QED BY <1>4, <1>5, <1>6

(* A commit keeps the inductive invariant: the parts put together.         *)
LEMMA CommitInv ==
    ASSUME IInv, NEW p \in Requests, Commit(p)
    PROVE  IInv'
<1>1. Committing(p)
    BY Commits
<1>2. TypeOK' /\ BoundInv' /\ OrderInv' /\ PairInv' /\ ShapeInv' /\ FreshInv'
    BY <1>1, CommitTypes, CommitTx, CommitShape
<1>3. DirectsAddUp' /\ HitsFollowRules' /\ ClosedHoldsNothing'
    BY <1>1, CommitSums, CommitHits, CommitClosed
<1>4. CheckedInv'
  <2> SUFFICES ASSUME NEW q \in Requests, req'[q].pc = "checked"
               PROVE  Referring(req[q])' /\ Adding(req[q])'
    BY DEF CheckedInv
  <2>1. q # p
    BY <1>1, CommitShape
  <2>2. req[q].pc = "checked"
    BY <1>1, <2>1 DEF Committing, Ends
  <2> QED BY <1>1, <2>1, <2>2, CommitRefers, CommitAdds
<1> QED BY <1>2, <1>3, <1>4 DEF IInv

-----------------------------------------------------------------------------
(* The theorems                                                            *)

(* A step that changes nothing keeps the inductive invariant.              *)
LEMMA StutterInv == ASSUME IInv, UNCHANGED vars PROVE IInv'
<1> USE DEF vars, ledger, history
<1>1. \A p \in Requests : req'[p] = req[p] /\ (Flies(p)' <=> Flies(p)) /\ (Late(p)' <=> Late(p))
    BY DEF Flies, Late
<1>2. TypeOK' /\ BoundInv' /\ DirectsAddUp' /\ HitsFollowRules' /\ ClosedHoldsNothing'
    BY DEF IInv, TypeOK, ReferencesHold, BoundInv, DirectsAddUp, HitsFollowRules,
           ClosedHoldsNothing, Booked, Used
<1>3. OrderInv' /\ PairInv'
    BY DEF IInv, OrderInv, PairInv, Flies, Late
<1>4. ShapeInv' /\ FreshInv' /\ CheckedInv'
    BY <1>1, StillSo DEF IInv, ShapeInv, FreshInv, CheckedInv
<1> QED BY <1>2, <1>3, <1>4 DEF IInv

(* Every step keeps the invariant.                                         *)
LEMMA NextInv == IInv /\ [Next]_vars => IInv'
<1> SUFFICES ASSUME IInv, [Next]_vars PROVE IInv'
    OBVIOUS
<1>1. ASSUME NEW p \in Requests, NEW a \in Accounts, NEW file \in Files, StartImport(p, a, file)
      PROVE  IInv'
    BY <1>1, ImportInv
<1>2. ASSUME NEW p \in Requests, NEW f \in Filters, NEW rule \in Rules, StartSave(p, f, rule)
      PROVE  IInv'
    BY <1>2, SaveFilterInv
<1>3. ASSUME NEW p \in Requests, NEW h \in Hashes, NEW slots \in Slots, StartAssign(p, h, slots)
      PROVE  IInv'
    BY <1>3, AssignInv
<1>4. ASSUME NEW p \in Requests, NEW h \in Hashes, StartRelease(p, h) PROVE IInv'
    BY <1>4, ReleaseInv
<1>5. ASSUME NEW p \in Requests, NEW f \in Filters, StartDrop(p, f) \/ StartConvert(p, f)
      PROVE  IInv'
    BY <1>5, DropInv, ConvertInv
<1>6. ASSUME NEW p \in Requests, NEW c \in Categories, StartDropCategory(p, c) PROVE IInv'
    BY <1>6, DropCategoryInv
<1>7. ASSUME NEW p \in Requests, NEW a \in Accounts, StartClose(p, a) PROVE IInv'
    BY <1>7, CloseInv
<1>8. ASSUME NEW p \in Requests, StartRebuild(p) PROVE IInv'
  <2> DEFINE ask == [NoAsk EXCEPT !.op = "rebuild"]
  <2>1. ask \in Ask /\ Enter(p, ask, Rebuilt(NoDelta))
    BY <1>8, BlankTypes DEF StartRebuild, Ask
  <2> QED BY <2>1, RebuildInv
<1>9. ASSUME NEW p \in Requests, Match(p) \/ Check(p) \/ Commit(p) \/ Fail(p) PROVE IInv'
    BY <1>9, MatchInv, CheckInv, CommitInv, FailInv
<1> QED BY <1>1, <1>2, <1>3, <1>4, <1>5, <1>6, <1>7, <1>8, <1>9, SaveInv, StutterInv DEF Next

(* The inductive invariant holds in every reachable state.                 *)
LEMMA Invariance == Spec => []IInv
    BY InitInv, NextInv, PTL DEF Spec

(* Rows and requests stay well formed.                                     *)
THEOREM TypeCorrect == Spec => []TypeOK
    BY Invariance, PTL DEF IInv

(* Every reference of a row exists, whatever overlapped: the database      *)
(* keeps its foreign and unique keys by what the flush checks and by what  *)
(* it makes others wait for (the statements of p4x_import_service,         *)
(* p4x_category_service and p4x_account_service).                          *)
THEOREM ReferencesStand == Spec => []ReferencesHold
<1>1. IInv => ReferencesHold
    BY DEF IInv, TypeOK
<1> QED BY <1>1, Invariance, PTL

(* The direct assignments of a transaction add up to its amount, except    *)
(* where two requests assigned it at once, although the trigger            *)
(* p4x_assert_category_direct_sum sees only what is committed: a request   *)
(* that sets rows aside makes those wait that would set them aside too.    *)
THEOREM AssignmentsAddUp == Spec => []DirectsAddUp
    BY Invariance, PTL DEF IInv

(* After every commit the hits are those the filters give now, for each    *)
(* of the operations that refresh only the hits they touch, unless         *)
(* requests overlapped since the last rebuild that nobody overlapped.      *)
THEOREM HitsAreCurrent == Spec => []HitsFollowRules
    BY Invariance, PTL DEF IInv

(* delete_account counts the transactions before it closes an account, and *)
(* an import looks at the account before it books: that is enough unless   *)
(* they overlap.                                                           *)
THEOREM ClosedStaysEmpty == Spec => []ClosedHoldsNothing
    BY Invariance, PTL DEF IInv

(* What a transaction counts as changes with commits only.                 *)
LEMMA QuietSteps ==
    ASSUME Next, \A p \in Requests : ~Commit(p)
    PROVE  UNCHANGED <<directs, hits, filters>>
<1>1. \A p, ask, delta : Enter(p, ask, delta) => UNCHANGED <<directs, hits, filters>>
    BY DEF Enter, ledger
<1>2. \A p, a, file : StartImport(p, a, file) => UNCHANGED <<directs, hits, filters>>
    BY <1>1 DEF StartImport
<1>3. \A p, f, rule : StartSave(p, f, rule) => UNCHANGED <<directs, hits, filters>>
    BY <1>1 DEF StartSave
<1>4. \A p, h, slots : StartAssign(p, h, slots) => UNCHANGED <<directs, hits, filters>>
    BY <1>1 DEF StartAssign
<1>5. \A p, h : StartRelease(p, h) => UNCHANGED <<directs, hits, filters>>
    BY <1>1 DEF StartRelease
<1>6. \A p, f : StartDrop(p, f) \/ StartConvert(p, f) => UNCHANGED <<directs, hits, filters>>
    BY <1>1 DEF StartDrop, StartConvert
<1>7. \A p, c : StartDropCategory(p, c) => UNCHANGED <<directs, hits, filters>>
    BY <1>1 DEF StartDropCategory
<1>8. \A p, a : StartClose(p, a) => UNCHANGED <<directs, hits, filters>>
    BY <1>1 DEF StartClose
<1>9. \A p : StartRebuild(p) => UNCHANGED <<directs, hits, filters>>
    BY <1>1 DEF StartRebuild
<1>10. \A p : Match(p) \/ Check(p) \/ Fail(p) => UNCHANGED <<directs, hits, filters>>
    BY DEF Match, Check, Fail, ledger
<1>11. /\ \A a, d : CreateAccount(a, d) \/ UpdateAccount(a, d) =>
                       UNCHANGED <<directs, hits, filters>>
       /\ \A c : CreateCategory(c) => UNCHANGED <<directs, hits, filters>>
       /\ \A h, given : SetPartner(h, given) => UNCHANGED <<directs, hits, filters>>
    BY DEF CreateAccount, UpdateAccount, CreateCategory, SetPartner
<1> QED BY <1>2, <1>3, <1>4, <1>5, <1>6, <1>7, <1>8, <1>9, <1>10, <1>11 DEF Next

(* A conversion that nobody overlapped gives each transaction it assigns   *)
(* the category it had: the only one.                                      *)
LEMMA Converted ==
    ASSUME IInv, NEW p \in Requests, Commit(p), req[p].ask.op = "convert", ~req[p].stale,
           NEW h \in Booked
    PROVE  Effective(h)' = Effective(h)
<1> DEFINE r == req[p]
           f == r.ask.filter
           Row(g) == [hash |-> g, category |-> filters[f].category, amount |-> Amount[g[1]]]
<1>1. Committing(p)
    BY Commits
<1>2. /\ Shaped(r) /\ Fresh(r) /\ directs' = (directs \ r.delta.offD) \cup r.delta.onD
      /\ filters' = FiltersWith(r) /\ r.ask.op = "convert"
      /\ hits' = {x \in (hits \ r.delta.offH) \cup r.delta.onH : filters'[x[2]] # None}
      /\ hits \subseteq Hashes \X {g \in Filters : filters[g] # None}
    BY <1>1 DEF Committing, DirectsWith, IInv, TypeOK, ReferencesHold
<1> HIDE DEF r
<1>3. /\ r.delta.offD = {} /\ r.delta.onH = {} /\ f \in Filters /\ r.ask.rule = None
      /\ r.delta.onD = Made(f) /\ WithoutCategory = {}
      /\ r.delta.offH = {x \in hits : x[1] \in Gained(f)} \cup HitBy(f)
    BY <1>2 DEF Shaped, Fresh, Rebuilds, Saves
<1>4. filters' = filters
    BY <1>2, <1>3 DEF FiltersWith
<1> HIDE DEF f
<1>5. /\ Made(f) = {Row(g) : g \in Gained(f)}
      /\ \A g : Row(g).hash = g /\ Row(g).category = filters[f].category
    BY DEF Made
<1>6. directs' = directs \cup Made(f)
    BY <1>2, <1>3
<1>7. hits' = {x \in hits : x[1] \notin Gained(f) /\ x[2] # f}
    BY <1>2, <1>3, <1>4 DEF HitBy
<1> HIDE DEF Row
<1>8. CASE h \in Directed(directs)
  <2>1. \A g \in Gained(f) : g # h
    BY <1>8 DEF Gained
  <2>2. OfHash(directs', h) = OfHash(directs, h)
    BY <2>1, <1>5, <1>6 DEF OfHash
  <2>3. h \in Directed(directs')
    BY <1>6, <1>8 DEF Directed
  <2> QED BY <2>2, <2>3, <1>8 DEF Effective
<1>9. CASE h \in Gained(f)
  <2>1. /\ h \in Booked /\ h \notin Directed(directs) /\ <<h, f>> \in HitsOf(h)
    BY <1>9 DEF Gained, HitsOf
  <2>2. OfHash(directs', h) = {Row(h)} /\ h \in Directed(directs')
    <3>1. OfHash(directs, h) = {}
      BY <2>1 DEF OfHash, Directed
    <3>2. OfHash(Made(f), h) = {Row(h)}
      BY <1>5, <1>9 DEF OfHash
    <3>3. OfHash(directs', h) = OfHash(directs, h) \cup OfHash(Made(f), h)
      BY <1>6 DEF OfHash
    <3>4. OfHash(directs', h) = {Row(h)}
      BY <3>1, <3>2, <3>3
    <3> QED BY <3>4 DEF OfHash, Directed
  <2>3. HitsOf(h) = {<<h, f>>}
    <3>1. Cardinality(HitsOf(h)) = 1
      BY <1>3, <2>1 DEF WithoutCategory, HitsOf
    <3>2. HitsOf(h) \subseteq {h} \X Filters
      BY <1>2 DEF HitsOf
    <3>3. IsFiniteSet(HitsOf(h))
      BY <3>2, FS_Singleton, FS_Product, FS_Subset, TableAssumption
    <3> QED BY <2>1, <3>1, <3>3, FS_Singleton
  <2>4. Effective(h) = {filters[f].category}
    BY <2>1, <2>3 DEF Effective, HitsOf
  <2>5. Effective(h)' = {filters[f].category}
    BY <2>2, <1>5 DEF Effective
  <2> QED BY <2>4, <2>5
<1>10. CASE h \notin Directed(directs) /\ h \notin Gained(f)
  <2>1. h \notin Directed(directs')
    BY <1>5, <1>6, <1>10 DEF Directed
  <2>2. <<h, f>> \notin hits
    BY <1>10 DEF Gained
  <2>3. \A x \in hits : x[1] = h => x[2] # f
    BY <1>2, <2>2
  <2>4. HitsOf(h)' = HitsOf(h)
    BY <2>3, <1>7, <1>10 DEF HitsOf
  <2> QED BY <2>1, <2>4, <1>4, <1>10 DEF Effective, HitsOf
<1> QED BY <1>8, <1>9, <1>10

(* filter_to_direct refuses while a transaction has no category or several *)
(* of them; that is enough for it to change none.                          *)
THEOREM ConversionIsNeutral == Spec => ConversionKeepsCategories
<1> DEFINE Kept == \A p \in Requests :
                      req[p].pc = "checked" /\ req[p].ask.op = "convert" /\ ~req[p].stale
                      /\ req'[p].pc = "idle"
                      => \A h \in Booked : Effective(h)' = Effective(h)
<1>1. ASSUME IInv, [Next]_vars PROVE [Kept]_vars
  <2> SUFFICES ASSUME Next, NEW p \in Requests, req[p].pc = "checked",
                      req[p].ask.op = "convert", ~req[p].stale, req'[p].pc = "idle",
                      NEW h \in Booked
               PROVE  Effective(h)' = Effective(h)
    BY <1>1
  <2>1. CASE \A q \in Requests : ~Commit(q)
    <3>1. UNCHANGED <<directs, hits, filters>>
      BY <2>1, QuietSteps
    <3> QED BY <3>1 DEF Effective
  <2>2. CASE Commit(p)
    BY <2>2, <1>1, Converted
  <2>3. ASSUME NEW q \in Requests \ {p}, Commit(q) PROVE FALSE
    <3>1. Ends(q, TRUE)
      BY <1>1, <2>3, Commits DEF Committing
    <3> QED BY <3>1 DEF Ends
  <2> QED BY <2>1, <2>2, <2>3
<1> QED BY <1>1, Invariance, PTL DEF Spec, ConversionKeepsCategories

=============================================================================
