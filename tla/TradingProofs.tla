---------------------------- MODULE TradingProofs ----------------------------
(***************************************************************************)
(* Proofs about what surrounds an order: the account's books, the order    *)
(* gate, the connection to the venue and the money on its way in, each for *)
(* every value of its constants.                                           *)
(***************************************************************************)
EXTENDS Trading, Sequences, FiniteSetTheorems, WellFoundedInduction, TLAPS

----------------------------------------------------------------------------
(* ---- Least elements, and sums over a finite set of tokens ---- *)

(* A set of naturals that is not empty has a least element.                 *)
LEMMA LeastNatural ==
  ASSUME NEW B, B \subseteq Nat, B # {} PROVE \E n \in B : \A k \in B : n <= k
<1>1. PICK n \in B : \A k \in B : <<k, n>> \notin OpToRel(<, Nat)
  BY NatLessThanWellFounded, WFMin
<1>2. \A k \in B : ~(k < n)
  BY <1>1 DEF OpToRel
<1> QED
  BY <1>2

(* Among some subsets of a finite set one contains no other of them.        *)
LEMMA LeastSet ==
  ASSUME NEW S, IsFiniteSet(S), NEW B, B \subseteq SUBSET S, B # {}
  PROVE  \E s \in B : \A r \in B : ~(r \subseteq s /\ r # s)
<1>1. B \subseteq FiniteSubsetsOf(S)
  BY FS_Subset DEF FiniteSubsetsOf
<1>2. PICK s \in B : \A r \in B : <<r, s>> \notin StrictSubsetOrdering(S)
  BY <1>1, FS_StrictSubsetOrderingWellFounded, WFMin
<1> QED
  BY <1>2 DEF StrictSubsetOrdering

(* The library's fold, with its recursion in the open. *)
Pick(s) == CHOOSE x \in s : TRUE
Layer(f, D, g) == [s \in D |-> IF s = {} THEN 0 ELSE f[Pick(s)] + g[s \ {Pick(s)}]]
Fold(f) == CHOOSE g : g = Layer(f, SUBSET DOMAIN f, g)

(* The recursion a sum is made of has a solution on a finite domain.        *)
LEMMA FoldExists == ASSUME NEW f, IsFiniteSet(DOMAIN f) PROVE Fold(f) = Layer(f, SUBSET DOMAIN f, Fold(f))
<1> DEFINE Small(n) == {s \in SUBSET DOMAIN f : Cardinality(s) <= n}
           Bad == {n \in Nat : \A g : g # Layer(f, Small(n), g)}
<1>1. \A s \in SUBSET DOMAIN f : IsFiniteSet(s) /\ Cardinality(s) \in Nat
  BY FS_Subset, FS_CardinalityType
<1>2. Bad = {}
  <2> SUFFICES ASSUME Bad # {} PROVE FALSE
    OBVIOUS
  <2>1. PICK n \in Bad : \A k \in Bad : n <= k
    BY LeastNatural
  <2>2. CASE n = 0
    <3>1. \A s \in Small(0) : s = {}
      BY <1>1, FS_EmptySet
    <3>2. Layer(f, Small(0), <<>>) = Layer(f, Small(0), Layer(f, Small(0), <<>>))
      BY <3>1 DEF Layer
    <3> QED
      BY <2>1, <2>2, <3>2
  <2>3. CASE n # 0
    <3>1. n - 1 \in Nat /\ n - 1 \notin Bad
      <4>1. n \in Nat /\ (n - 1 \in Bad => n <= n - 1)
        BY <2>1
      <4> HIDE DEF Bad
      <4> QED
        BY <4>1, <2>3
    <3>2. PICK g : g = Layer(f, Small(n - 1), g)
      BY <3>1
    <3> DEFINE h == Layer(f, Small(n), g)
    <3>3. \A s \in Small(n) : s # {} => s \ {Pick(s)} \in Small(n - 1)
      <4> SUFFICES ASSUME NEW s \in Small(n), s # {} PROVE s \ {Pick(s)} \in Small(n - 1)
        OBVIOUS
      <4>1. Pick(s) \in s
        BY DEF Pick
      <4>2. Cardinality(s \ {Pick(s)}) = Cardinality(s) - 1
        BY <4>1, <1>1, FS_RemoveElement
      <4> QED
        BY <4>2, <1>1, <2>1
    <3>4. \A s \in Small(n - 1) : s \in Small(n) /\ g[s] = h[s]
      <4>1. \A s \in Small(n - 1) : g[s] = Layer(f, Small(n - 1), g)[s]
        BY <3>2
      <4>2. \A s \in Small(n - 1) : s \in Small(n)
        BY <1>1, <2>1
      <4> QED
        BY <4>1, <4>2 DEF Layer
    <3>5. h = Layer(f, Small(n), h)
      <4>1. \A s \in Small(n) : s # {} => g[s \ {Pick(s)}] = h[s \ {Pick(s)}]
        BY <3>3, <3>4
      <4> HIDE DEF Small
      <4> QED
        BY <4>1 DEF Layer
    <3> QED
      BY <2>1, <3>5
  <2> QED
    BY <2>2, <2>3
<1>3. Small(Cardinality(DOMAIN f)) = SUBSET DOMAIN f /\ Cardinality(DOMAIN f) \in Nat
  BY <1>1, FS_Subset
<1>4. \E g : g = Layer(f, SUBSET DOMAIN f, g)
  BY <1>2, <1>3
<1> QED
  BY <1>4 DEF Fold

LEMMA SumIsFold == ASSUME NEW f PROVE Sum(f) = Fold(f)[DOMAIN f]
  BY DEF Sum, FoldFunction, FoldFunctionOnSet, MapThenFoldSet, Fold, Layer, Pick

(* One step of a sum: an element is picked, the rest is summed.             *)
LEMMA FoldSteps ==
  ASSUME NEW f, IsFiniteSet(DOMAIN f), NEW s \in SUBSET DOMAIN f
  PROVE  /\ s = {} => Fold(f)[s] = 0
         /\ s # {} => /\ Pick(s) \in s
                      /\ s \ {Pick(s)} \in SUBSET DOMAIN f
                      /\ Fold(f)[s] = f[Pick(s)] + Fold(f)[s \ {Pick(s)}]
<1>1. Fold(f)[s] = Layer(f, SUBSET DOMAIN f, Fold(f))[s]
  BY FoldExists
<1>2. s # {} => Pick(s) \in s
  BY DEF Pick
<1> QED
  BY <1>1, <1>2 DEF Layer

(* The sums on the way are integers.                                        *)
LEMMA FoldType ==
  ASSUME NEW S, IsFiniteSet(S), NEW f \in [S -> Int] PROVE \A s \in SUBSET S : Fold(f)[s] \in Int
<1> DEFINE Bad == {s \in SUBSET S : Fold(f)[s] \notin Int}
<1> SUFFICES ASSUME Bad # {} PROVE FALSE
  OBVIOUS
<1>1. PICK s \in Bad : \A r \in Bad : ~(r \subseteq s /\ r # s)
  <2>1. Bad \subseteq SUBSET S
    OBVIOUS
  <2> HIDE DEF Bad
  <2> QED
    BY <2>1, LeastSet
<1>2. s # {} /\ Pick(s) \in s /\ s \ {Pick(s)} \in SUBSET S
      /\ Fold(f)[s] = f[Pick(s)] + Fold(f)[s \ {Pick(s)}]
  BY <1>1, FoldSteps
<1>3. Fold(f)[s \ {Pick(s)}] \in Int
  BY <1>1, <1>2
<1> QED
  BY <1>1, <1>2, <1>3

(* A sum of integers is one.                                                *)
LEMMA SumOfIntegers ==
  ASSUME NEW S, IsFiniteSet(S), NEW f \in [S -> Int] PROVE Sum(f) \in Int
  BY FoldType, SumIsFold

(* A sum of zeros is zero: the basis of a new book.                         *)
LEMMA SumOfZeros ==
  ASSUME NEW S, IsFiniteSet(S) PROVE Sum([x \in S |-> 0]) = 0
<1> DEFINE f == [x \in S |-> 0]
           Bad == {s \in SUBSET S : Fold(f)[s] # 0}
<1>1. Bad = {}
  <2> SUFFICES ASSUME Bad # {} PROVE FALSE
    OBVIOUS
  <2>1. PICK s \in Bad : \A r \in Bad : ~(r \subseteq s /\ r # s)
    <3>1. Bad \subseteq SUBSET S
      OBVIOUS
    <3> HIDE DEF Bad
    <3> QED
      BY <3>1, LeastSet
  <2>2. s # {} /\ Pick(s) \in s /\ s \ {Pick(s)} \in SUBSET S
        /\ Fold(f)[s] = f[Pick(s)] + Fold(f)[s \ {Pick(s)}]
    BY <2>1, FoldSteps
  <2>3. Fold(f)[s \ {Pick(s)}] = 0
    BY <2>1, <2>2
  <2> QED
    BY <2>1, <2>2, <2>3
<1> QED
  BY <1>1, SumIsFold

(* Changing one summand changes the sum by as much.                         *)
LEMMA SumUpdate ==
  ASSUME NEW S, IsFiniteSet(S), NEW f \in [S -> Int], NEW t \in S, NEW v \in Int
  PROVE  Sum([f EXCEPT ![t] = v]) = Sum(f) - f[t] + v
<1> DEFINE g == [f EXCEPT ![t] = v]
           Moved(s) == IF t \in s THEN v - f[t] ELSE 0
           Bad == {s \in SUBSET S : Fold(g)[s] # Fold(f)[s] + Moved(s)}
<1>0. g \in [S -> Int]
  OBVIOUS
<1>1. Bad = {}
  <2> SUFFICES ASSUME Bad # {} PROVE FALSE
    OBVIOUS
  <2>1. PICK s \in Bad : \A r \in Bad : ~(r \subseteq s /\ r # s)
    <3>1. Bad \subseteq SUBSET S
      OBVIOUS
    <3> HIDE DEF Bad
    <3> QED
      BY <3>1, LeastSet
  <2>2. s # {}
    <3>1. \A h \in [S -> Int] : Fold(h)[{}] = 0
      BY FoldSteps
    <3> HIDE DEF g
    <3>2. Fold(f)[{}] = 0 /\ Fold(g)[{}] = 0
      BY <3>1, <1>0
    <3>3. Moved({}) = 0
      OBVIOUS
    <3>4. Fold(g)[s] # Fold(f)[s] + Moved(s)
      BY <2>1
    <3> HIDE DEF Moved
    <3> QED
      BY <3>2, <3>3, <3>4
  <2> DEFINE p == Pick(s)
             r == s \ {p}
  <2>3. p \in s /\ r \in SUBSET S /\ Fold(f)[s] = f[p] + Fold(f)[r] /\ Fold(g)[s] = g[p] + Fold(g)[r]
    BY <2>1, <2>2, <1>0, FoldSteps
  <2>4. Fold(g)[r] = Fold(f)[r] + Moved(r)
    BY <2>1, <2>3
  <2>5. Fold(f)[r] \in Int /\ Fold(g)[r] \in Int /\ f[p] \in Int /\ f[t] \in Int
    BY <2>1, <2>3, <1>0, FoldType
  <2>6. g[p] = IF p = t THEN v ELSE f[p]
    BY <2>1, <2>3
  <2>7. Moved(s) = IF p = t THEN v - f[t] ELSE Moved(r)
    BY <2>3
  <2>8. p = t => Moved(r) = 0
    OBVIOUS
  <2> HIDE DEF Moved, g, p, r
  <2>9. Fold(g)[s] = Fold(f)[s] + Moved(s)
    <3>1. CASE p = t
      BY <3>1, <2>3, <2>4, <2>5, <2>6, <2>7, <2>8
    <3>2. CASE p # t
      <4>1. Moved(r) \in Int
        BY <2>5 DEF Moved
      <4> QED
        BY <3>2, <4>1, <2>3, <2>4, <2>5, <2>6, <2>7
    <3> QED
      BY <3>1, <3>2
  <2> QED
    BY <2>1, <2>9
<1>2. Fold(g)[S] = Fold(f)[S] + (v - f[t])
  BY <1>1
<1>3. Sum(g) = Fold(g)[S] /\ Sum(f) = Fold(f)[S] /\ Fold(f)[S] \in Int /\ f[t] \in Int
  BY <1>0, SumIsFold, FoldType
<1> QED
  BY <1>2, <1>3

----------------------------------------------------------------------------
(* ---- The books ---- *)

Balanced(m) == m.cash + Basis(m) = m.start + m.flow + m.realized + m.loose
Tidy(m) == \A t \in Tokens : m.qty[t] = 0 => m.cost[t] = 0 /\ m.mark[t] = 0
Admitted == ~Known \/ ledger.lost # {}
Mirrored == file \cup {mirror}

BooksInv ==
  /\ TypeOK
  /\ \A m \in Mirrored : Balanced(m) /\ Tidy(m) /\ m.applied \subseteq ledger.recorded \cup ledger.lost
  /\ ~Admitted => \A m \in Mirrored : m.loose = 0

(* What the positions cost and what they are worth are numbers.             *)
LEMMA BasisType == ASSUME NEW m \in Mirrors PROVE Basis(m) \in Int /\ Exposure(m) \in Int
<1>1. m.cost \in [Tokens -> Int] /\ IsFiniteSet(Tokens)
  BY AccountAssumption DEF Mirrors
<1>2. [t \in Tokens |-> m.qty[t] * m.mark[t]] \in [Tokens -> Int]
  <2>1. \A t \in Tokens : m.qty[t] \in Int /\ m.mark[t] \in Int
    BY AccountAssumption DEF Mirrors
  <2> QED
    BY <2>1
<1> QED
  BY <1>1, <1>2, SumOfIntegers DEF Basis, Exposure

(* A book opens balanced (core/state.py).                                   *)
LEMMA NewBookIsSound ==
  ASSUME NEW funds \in Funds
  PROVE  /\ NewBook(funds) \in Mirrors /\ Balanced(NewBook(funds)) /\ Tidy(NewBook(funds))
         /\ NewBook(funds).loose = 0 /\ NewBook(funds).applied = {}
<1> USE AccountAssumption
<1>1. NewBook(funds) \in Mirrors
  BY DEF NewBook, Mirrors, OrderStatus
<1>2. Basis(NewBook(funds)) = 0
  BY SumOfZeros DEF Basis, NewBook
<1>3. funds \in Int
  OBVIOUS
<1>4. Balanced(NewBook(funds))
  BY <1>2, <1>3 DEF Balanced, NewBook
<1> QED
  BY <1>1, <1>4 DEF Tidy, NewBook

(* The books begin right.                                                   *)
LEMMA BooksInit == Init => BooksInv
<1> SUFFICES ASSUME Init PROVE BooksInv
  OBVIOUS
<1>1. PICK funds \in Funds : mirror = NewBook(funds)
  BY DEF Init
<1>2. TypeOK
  BY <1>1, NewBookIsSound, AccountAssumption DEF Init, TypeOK
<1> QED
  BY <1>1, <1>2, NewBookIsSound DEF Init, BooksInv, Mirrored

(* A ledger row is written or lost, and says so if it must                  *)
(* (broker.py:65-90).                                                     *)
LEMMA LedgerGrows ==
  ASSUME TypeOK, ops < MaxOps, NEW partial \in BOOLEAN, RecordPnl(partial)
  PROVE  /\ ledger' \in [uncertain : Nat, recorded : SUBSET Ids, lost : SUBSET Ids]
         /\ ledger.recorded \cup ledger.lost \cup {ops + 1} = ledger'.recorded \cup ledger'.lost
         /\ Admitted \/ partial => Admitted'
<1>1. ops + 1 \in Ids
  BY AccountAssumption DEF TypeOK, Ids
<1>2. CASE ledger' = [ledger EXCEPT !.uncertain = IF partial THEN @ + 1 ELSE @,
                                     !.recorded = @ \cup {ops + 1}]
  <2> DEFINE more == IF partial THEN ledger.uncertain + 1 ELSE ledger.uncertain
  <2>1. ledger.uncertain \in Nat /\ more \in Nat /\ (ledger.uncertain # 0 \/ partial => more # 0)
    BY DEF TypeOK
  <2>2. ledger' = [ledger EXCEPT !.uncertain = more, !.recorded = @ \cup {ops + 1}]
    BY <1>2
  <2> HIDE DEF more
  <2>3. /\ ledger'.recorded = ledger.recorded \cup {ops + 1} /\ ledger'.lost = ledger.lost
        /\ ledger'.uncertain = more
        /\ ledger' \in [uncertain : Nat, recorded : SUBSET Ids, lost : SUBSET Ids]
    BY <1>1, <2>1, <2>2 DEF TypeOK
  <2> QED
    BY <2>1, <2>3 DEF Admitted, Known
<1>3. CASE ledger' = [ledger EXCEPT !.lost = @ \cup {ops + 1}]
  BY <1>1, <1>3 DEF TypeOK, Admitted, Known
<1> QED
  BY <1>2, <1>3 DEF RecordPnl

(* A balanced mirror and its ledger row keep the books right                *)
(* (broker.py:195-381).                                                     *)
LEMMA EffectKeepsBooks ==
  ASSUME BooksInv, NEW m \in Mirrors, Balanced(m), Tidy(m), m.applied = mirror.applied,
         NEW partial \in BOOLEAN, m.loose # mirror.loose => partial, Effect(m, partial)
  PROVE  BooksInv'
<1>1. /\ ops < MaxOps /\ ops' = ops + 1 /\ UNCHANGED file /\ RecordPnl(partial)
      /\ mirror' = [m EXCEPT !.applied = @ \cup {ops + 1}]
  BY DEF Effect
<1>2. TypeOK
  BY DEF BooksInv
<1>3. /\ ledger' \in [uncertain : Nat, recorded : SUBSET Ids, lost : SUBSET Ids]
      /\ ledger.recorded \cup ledger.lost \cup {ops + 1} = ledger'.recorded \cup ledger'.lost
      /\ Admitted \/ partial => Admitted'
  BY <1>1, <1>2, LedgerGrows
<1>4. ops + 1 \in Ids /\ ops' \in 0..MaxOps
  BY <1>1, <1>2, AccountAssumption DEF TypeOK, Ids
<1>5. mirror' \in Mirrors
  BY <1>1, <1>4 DEF Mirrors
<1>6. TypeOK'
  BY <1>1, <1>2, <1>3, <1>4, <1>5 DEF TypeOK
<1>7. Balanced(mirror') /\ Tidy(mirror') /\ mirror'.loose = m.loose
  BY <1>1 DEF Mirrors, Balanced, Tidy, Basis
<1>8. mirror'.applied = mirror.applied \cup {ops + 1}
  BY <1>1 DEF Mirrors
<1>9. \A n \in Mirrored' : Balanced(n) /\ Tidy(n) /\ n.applied \subseteq ledger'.recorded \cup ledger'.lost
  BY <1>1, <1>3, <1>7, <1>8 DEF BooksInv, Mirrored
<1>10. ~Admitted' => \A n \in Mirrored' : n.loose = 0
  BY <1>1, <1>3, <1>7 DEF BooksInv, Mirrored
<1> QED
  BY <1>6, <1>9, <1>10 DEF BooksInv

(* Only the history of orders, or the marks of what is held, moved. *)
LEMMA QuietMirror ==
  ASSUME BooksInv, mirror' \in Mirrors, UNCHANGED <<ledger, file>>, ops' \in 0..MaxOps,
         mirror'.cash = mirror.cash, mirror'.cost = mirror.cost, mirror'.start = mirror.start,
         mirror'.flow = mirror.flow, mirror'.realized = mirror.realized, mirror'.loose = mirror.loose,
         mirror'.applied = mirror.applied, Tidy(mirror')
  PROVE  BooksInv'
<1>1. TypeOK'
  BY DEF BooksInv, TypeOK
<1>2. Balanced(mirror')
  BY DEF BooksInv, Mirrored, Balanced, Basis
<1>3. Admitted' <=> Admitted
  BY DEF Admitted, Known
<1> QED
  BY <1>1, <1>2, <1>3 DEF BooksInv, Mirrored

(* What is left of a basis when a part of the position is sold. *)
LEMMA BasisInProportion ==
  ASSUME NEW cost \in Nat, NEW q \in Nat \ {0}, NEW qty \in Nat, q <= qty
  PROVE  /\ (cost * q) \div qty \in 0..cost
         /\ q = qty => (cost * q) \div qty = cost
<1> DEFINE d == (cost * q) \div qty
<1>1. cost * q <= cost * qty
  BY Z3
<1>2. d \in Int /\ qty * d <= cost * q /\ cost * q < qty * (d + 1)
  BY Z3
<1>3. d >= 0
  BY Z3
<1>4. d <= cost
  BY <1>1, <1>2, Z3
<1>5. q = qty => d = cost
  BY <1>2, <1>4, Z3
<1> QED
  BY <1>2, <1>3, <1>4, <1>5

(* A fill keeps the books right (broker.py:195-299).                        *)
LEMMA TradeKeepsBooks ==
  ASSUME BooksInv, NEW t \in Tokens, NEW q \in Quantities, NEW p \in Prices, NEW fee \in Fees,
         Buy(t, q, p, fee) \/ SellMatched(t, q, p, fee) \/ SellUnmatched(t, q, p, fee)
  PROVE  BooksInv'
<1>1. /\ mirror \in Mirrors /\ Balanced(mirror) /\ Tidy(mirror) /\ Basis(mirror) \in Int
      /\ q \in Nat \ {0} /\ p \in Nat /\ p \in 0..Unit /\ fee \in Nat
  BY AccountAssumption, BasisType DEF BooksInv, TypeOK, Mirrored, Prices
<1>2. q * p \in Nat
  BY <1>1
<1>3. /\ mirror.cash \in Int /\ mirror.start \in Int /\ mirror.flow \in Int
      /\ mirror.realized \in Int /\ mirror.loose \in Int
      /\ mirror.qty[t] \in Nat /\ mirror.cost[t] \in Nat /\ mirror.mark[t] \in 0..Unit
      /\ mirror.cost \in [Tokens -> Int] /\ IsFiniteSet(Tokens)
  BY <1>1, AccountAssumption DEF Mirrors
<1>4. ASSUME Buy(t, q, p, fee) PROVE BooksInv'
  <2> DEFINE m == Filled([mirror EXCEPT !.cash = @ - (q * p + fee), !.realized = @ - fee, !.qty[t] = @ + q,
                                        !.cost[t] = @ + q * p, !.mark[t] = p])
  <2>1. m \in Mirrors
    <3>1. /\ mirror.cash - (q * p + fee) \in Int /\ mirror.realized - fee \in Int
          /\ mirror.qty[t] + q \in Nat /\ mirror.cost[t] + q * p \in Nat
      BY <1>1, <1>2, <1>3
    <3> QED
      BY <1>1, <3>1 DEF Mirrors, Filled, OrderStatus
  <2>2. Basis(m) = Basis(mirror) + q * p
    <3>1. m.cost = [mirror.cost EXCEPT ![t] = mirror.cost[t] + q * p]
      BY <1>1 DEF Mirrors, Filled
    <3> HIDE DEF m
    <3> QED
      BY <3>1, <1>1, <1>2, <1>3, SumUpdate DEF Basis
  <2>3. /\ m.cash = mirror.cash - (q * p + fee) /\ m.realized = mirror.realized - fee
        /\ m.start = mirror.start /\ m.flow = mirror.flow /\ m.loose = mirror.loose /\ m.applied = mirror.applied
        /\ m.qty[t] = mirror.qty[t] + q
        /\ \A u \in Tokens : u # t => /\ m.qty[u] = mirror.qty[u] /\ m.cost[u] = mirror.cost[u]
                                      /\ m.mark[u] = mirror.mark[u]
    BY <1>1 DEF Mirrors, Filled
  <2>4. Effect(m, FALSE)
    BY <1>4 DEF Buy
  <2> HIDE DEF m
  <2>5. Balanced(m)
    <3>1. mirror.cash + Basis(mirror) = mirror.start + mirror.flow + mirror.realized + mirror.loose
      BY <1>1 DEF Balanced
    <3> DEFINE worth == q * p
    <3>2. /\ worth \in Int /\ m.cash = mirror.cash - (worth + fee) /\ Basis(m) = Basis(mirror) + worth
          /\ m.realized = mirror.realized - fee
          /\ m.start = mirror.start /\ m.flow = mirror.flow /\ m.loose = mirror.loose
      BY <1>2, <2>2, <2>3
    <3> HIDE DEF worth
    <3>3. m.cash + Basis(m) = m.start + m.flow + m.realized + m.loose
      BY <1>1, <1>3, <3>1, <3>2
    <3> QED
      BY <3>3 DEF Balanced
  <2>6. Tidy(m)
    BY <1>1, <1>3, <2>3 DEF Tidy
  <2> QED
    BY <2>1, <2>3, <2>4, <2>5, <2>6, EffectKeepsBooks
<1>5. ASSUME SellMatched(t, q, p, fee) PROVE BooksInv'
  <2> DEFINE proceeds == q * p - fee
             basis == (mirror.cost[t] * q) \div mirror.qty[t]
             gone == q = mirror.qty[t]
             m == Filled([mirror EXCEPT !.cash = @ + proceeds, !.realized = @ + proceeds - basis,
                                        !.qty[t] = @ - q, !.cost[t] = @ - basis,
                                        !.mark[t] = IF gone THEN 0 ELSE p])
  <2>1. q <= mirror.qty[t] /\ Effect(m, FALSE)
    BY <1>5 DEF SellMatched
  <2>2. basis \in 0..mirror.cost[t] /\ (gone => basis = mirror.cost[t])
    BY <1>1, <1>3, <2>1, BasisInProportion
  <2>3. proceeds \in Int
    BY <1>1, <1>2
  <2> HIDE DEF proceeds, basis
  <2>4. m \in Mirrors
    <3>1. /\ mirror.cash + proceeds \in Int /\ mirror.realized + proceeds - basis \in Int
          /\ mirror.qty[t] - q \in Nat /\ mirror.cost[t] - basis \in Nat
          /\ (IF gone THEN 0 ELSE p) \in 0..Unit
      BY <1>1, <1>3, <2>1, <2>2, <2>3, AccountAssumption
    <3> HIDE DEF gone
    <3> QED
      BY <1>1, <3>1 DEF Mirrors, Filled, OrderStatus
  <2>5. Basis(m) = Basis(mirror) - basis
    <3>1. m.cost = [mirror.cost EXCEPT ![t] = mirror.cost[t] - basis]
      BY <1>1 DEF Mirrors, Filled
    <3> HIDE DEF m
    <3> QED
      BY <3>1, <1>1, <1>3, <2>2, SumUpdate DEF Basis
  <2>6. /\ m.cash = mirror.cash + proceeds /\ m.realized = mirror.realized + proceeds - basis
        /\ m.start = mirror.start /\ m.flow = mirror.flow /\ m.loose = mirror.loose /\ m.applied = mirror.applied
        /\ m.qty[t] = mirror.qty[t] - q /\ m.cost[t] = mirror.cost[t] - basis
        /\ m.mark[t] = IF gone THEN 0 ELSE p
        /\ \A u \in Tokens : u # t => /\ m.qty[u] = mirror.qty[u] /\ m.cost[u] = mirror.cost[u]
                                      /\ m.mark[u] = mirror.mark[u]
    BY <1>1 DEF Mirrors, Filled
  <2> HIDE DEF m
  <2>7. Balanced(m)
    <3>1. mirror.cash + Basis(mirror) = mirror.start + mirror.flow + mirror.realized + mirror.loose
      BY <1>1 DEF Balanced
    <3>2. basis \in Int
      BY <1>3, <2>2
    <3>3. m.cash + Basis(m) = m.start + m.flow + m.realized + m.loose
      BY <1>1, <1>3, <2>3, <2>5, <2>6, <3>1, <3>2
    <3> QED
      BY <3>3 DEF Balanced
  <2>8. Tidy(m)
    <3>1. m.qty[t] = 0 => gone
      BY <1>1, <1>3, <2>6
    <3> QED
      BY <1>1, <1>3, <2>2, <2>6, <3>1 DEF Tidy
  <2> QED
    BY <2>1, <2>4, <2>6, <2>7, <2>8, EffectKeepsBooks
<1>6. ASSUME SellUnmatched(t, q, p, fee) PROVE BooksInv'
  <2> DEFINE proceeds == q * p - fee
             m == Filled([mirror EXCEPT !.cash = @ + proceeds, !.loose = @ + proceeds - mirror.cost[t],
                                        !.qty[t] = 0, !.cost[t] = 0, !.mark[t] = 0])
  <2>1. Effect(m, TRUE)
    BY <1>6 DEF SellUnmatched
  <2>2. proceeds \in Int
    BY <1>1, <1>2
  <2> HIDE DEF proceeds
  <2>3. m \in Mirrors
    <3>1. /\ mirror.cash + proceeds \in Int /\ mirror.loose + proceeds - mirror.cost[t] \in Int
          /\ 0 \in Nat /\ 0 \in 0..Unit
      BY <1>1, <1>3, <2>2, AccountAssumption
    <3> QED
      BY <1>1, <3>1 DEF Mirrors, Filled, OrderStatus
  <2>4. Basis(m) = Basis(mirror) - mirror.cost[t]
    <3>1. m.cost = [mirror.cost EXCEPT ![t] = 0]
      BY <1>1 DEF Mirrors, Filled
    <3> HIDE DEF m
    <3> QED
      BY <3>1, <1>1, <1>3, SumUpdate DEF Basis
  <2>5. /\ m.cash = mirror.cash + proceeds /\ m.loose = mirror.loose + proceeds - mirror.cost[t]
        /\ m.start = mirror.start /\ m.flow = mirror.flow /\ m.realized = mirror.realized
        /\ m.applied = mirror.applied /\ m.cost[t] = 0 /\ m.mark[t] = 0
        /\ \A u \in Tokens : u # t => /\ m.qty[u] = mirror.qty[u] /\ m.cost[u] = mirror.cost[u]
                                      /\ m.mark[u] = mirror.mark[u]
    BY <1>1 DEF Mirrors, Filled
  <2> HIDE DEF m
  <2>6. Balanced(m)
    BY <1>1, <1>3, <2>2, <2>4, <2>5 DEF Balanced
  <2>7. Tidy(m)
    BY <1>1, <2>5 DEF Tidy
  <2> QED
    BY <2>1, <2>3, <2>5, <2>6, <2>7, EffectKeepsBooks
<1> QED
  BY <1>4, <1>5, <1>6

(* A redemption keeps the books right (broker.py:310-357).                  *)
LEMMA RedeemKeepsBooks ==
  ASSUME BooksInv, NEW t \in Tokens, NEW w \in BOOLEAN, Redeem(t, w)
  PROVE  BooksInv'
<1>1. /\ mirror \in Mirrors /\ Balanced(mirror) /\ Tidy(mirror) /\ Basis(mirror) \in Int
  BY BasisType DEF BooksInv, TypeOK, Mirrored
<1>2. /\ mirror.cash \in Int /\ mirror.start \in Int /\ mirror.flow \in Int
      /\ mirror.realized \in Int /\ mirror.loose \in Int
      /\ mirror.qty[t] \in Nat /\ mirror.cost[t] \in Nat
      /\ mirror.cost \in [Tokens -> Int] /\ IsFiniteSet(Tokens) /\ 0 \in Nat /\ 0 \in 0..Unit
  BY <1>1, AccountAssumption DEF Mirrors
<1> DEFINE payout == IF w THEN mirror.qty[t] * Unit ELSE 0
           m == [mirror EXCEPT !.cash = @ + payout, !.realized = @ + payout - mirror.cost[t],
                               !.qty[t] = 0, !.cost[t] = 0, !.mark[t] = 0]
<1>3. Effect(m, FALSE)
  BY DEF Redeem
<1>4. payout \in Int
  <2>1. mirror.qty[t] * Unit \in Int
    BY <1>2, AccountAssumption
  <2> QED
    BY <2>1
<1> HIDE DEF payout
<1>5. m \in Mirrors
  <2>1. mirror.cash + payout \in Int /\ mirror.realized + payout - mirror.cost[t] \in Int
    BY <1>2, <1>4
  <2> QED
    BY <1>1, <1>2, <2>1 DEF Mirrors
<1>6. Basis(m) = Basis(mirror) - mirror.cost[t]
  <2>1. m.cost = [mirror.cost EXCEPT ![t] = 0]
    BY <1>1 DEF Mirrors
  <2> HIDE DEF m
  <2> QED
    BY <2>1, <1>1, <1>2, SumUpdate DEF Basis
<1>7. /\ m.cash = mirror.cash + payout /\ m.realized = mirror.realized + payout - mirror.cost[t]
      /\ m.start = mirror.start /\ m.flow = mirror.flow /\ m.loose = mirror.loose
      /\ m.applied = mirror.applied /\ m.cost[t] = 0 /\ m.mark[t] = 0
      /\ \A u \in Tokens : u # t => /\ m.qty[u] = mirror.qty[u] /\ m.cost[u] = mirror.cost[u]
                                    /\ m.mark[u] = mirror.mark[u]
  BY <1>1 DEF Mirrors
<1> HIDE DEF m
<1>8. Balanced(m)
  BY <1>1, <1>2, <1>4, <1>6, <1>7 DEF Balanced
<1>9. Tidy(m)
  BY <1>1, <1>7 DEF Tidy
<1> QED
  BY <1>3, <1>5, <1>7, <1>8, <1>9, EffectKeepsBooks

(* A transfer keeps the books right (broker.py:359-381).                    *)
LEMMA TransferKeepsBooks ==
  ASSUME BooksInv, NEW in \in BOOLEAN, NEW amount \in Amounts, Transfer(in, amount)
  PROVE  BooksInv'
<1>1. /\ mirror \in Mirrors /\ Balanced(mirror) /\ Tidy(mirror) /\ Basis(mirror) \in Int
      /\ amount \in Int
  BY AccountAssumption, BasisType DEF BooksInv, TypeOK, Mirrored
<1>2. /\ mirror.cash \in Int /\ mirror.start \in Int /\ mirror.flow \in Int
      /\ mirror.realized \in Int /\ mirror.loose \in Int
  BY <1>1 DEF Mirrors
<1>3. PICK d \in Int : Effect([mirror EXCEPT !.cash = @ + d, !.flow = @ + d], FALSE)
  <2>1. CASE in
    <3>1. Effect([mirror EXCEPT !.cash = @ + amount, !.flow = @ + amount], FALSE)
      BY <2>1 DEF Transfer
    <3> QED
      BY <3>1, <1>1
  <2>2. CASE ~in
    <3>1. mirror.cash - amount = mirror.cash + (-amount) /\ mirror.flow - amount = mirror.flow + (-amount)
          /\ -amount \in Int
      BY <1>1, <1>2
    <3>2. Effect([mirror EXCEPT !.cash = mirror.cash - amount, !.flow = mirror.flow - amount], FALSE)
      BY <2>2 DEF Transfer
    <3>3. Effect([mirror EXCEPT !.cash = mirror.cash + (-amount), !.flow = mirror.flow + (-amount)], FALSE)
      BY <3>1, <3>2
    <3> QED
      BY <3>1, <3>3
  <2> QED
    BY <2>1, <2>2
<1> DEFINE m == [mirror EXCEPT !.cash = @ + d, !.flow = @ + d]
<1>4. m \in Mirrors
  <2>1. mirror.cash + d \in Int /\ mirror.flow + d \in Int
    BY <1>2
  <2> QED
    BY <1>1, <2>1 DEF Mirrors
<1>5. /\ m.cash = mirror.cash + d /\ m.flow = mirror.flow + d /\ m.realized = mirror.realized
      /\ m.start = mirror.start /\ m.loose = mirror.loose /\ m.applied = mirror.applied
      /\ m.qty = mirror.qty /\ m.cost = mirror.cost /\ m.mark = mirror.mark
  BY <1>1 DEF Mirrors
<1> HIDE DEF m
<1>6. Balanced(m) /\ Tidy(m)
  BY <1>1, <1>2, <1>5 DEF Balanced, Tidy, Basis
<1> QED
  BY <1>3, <1>4, <1>5, <1>6, EffectKeepsBooks DEF m

(* Every step keeps the books right.                                        *)
LEMMA BooksStep == ASSUME BooksInv, Next PROVE BooksInv'
<1>1. /\ TypeOK /\ mirror \in Mirrors /\ Balanced(mirror) /\ Tidy(mirror)
  BY DEF BooksInv, TypeOK, Mirrored
<1>2. CASE Trade
  BY <1>2, TradeKeepsBooks DEF Trade
<1>3. CASE \E s \in OrderStatus \ {"NONE", "FILLED"} : PlaceUnfilled(s)
  <2>1. PICK s \in OrderStatus : PlaceUnfilled(s)
    BY <1>3
  <2>2. mirror' \in Mirrors /\ ops' \in 0..MaxOps
    BY <1>1, <2>1, AccountAssumption DEF PlaceUnfilled, TypeOK, Mirrors
  <2> QED
    BY <1>1, <2>1, <2>2, QuietMirror DEF PlaceUnfilled, Mirrors, Tidy
<1>4. CASE \E ids \in SUBSET Ids : CancelOrders(ids)
  <2>1. PICK ids \in SUBSET Ids : CancelOrders(ids)
    BY <1>4
  <2>2. mirror' \in Mirrors /\ ops' \in 0..MaxOps
    BY <1>1, <2>1 DEF CancelOrders, TypeOK, Mirrors, OrderStatus
  <2> QED
    BY <1>1, <2>1, <2>2, QuietMirror DEF CancelOrders, Mirrors, Tidy
<1>5. CASE \E t \in Tokens, w \in BOOLEAN : Redeem(t, w)
  BY <1>5, RedeemKeepsBooks
<1>6. CASE \E t \in Tokens : RedeemUnmatched(t)
  BY <1>1, <1>6, EffectKeepsBooks DEF RedeemUnmatched
<1>7. CASE \E in \in BOOLEAN, a \in Amounts : Transfer(in, a)
  BY <1>7, TransferKeepsBooks
<1>8. CASE \E t \in Tokens, p \in 0..Unit : Mark(t, p)
  <2>1. PICK t \in Tokens, p \in 0..Unit : Mark(t, p)
    BY <1>8
  <2>2. mirror' \in Mirrors /\ ops' \in 0..MaxOps
    BY <1>1, <2>1 DEF Mark, TypeOK, Mirrors
  <2>3. Tidy(mirror')
    <3>1. mirror.qty[t] # 0
      BY <1>1, <2>1 DEF Mark, Held, Mirrors
    <3>2. mirror' = [mirror EXCEPT !.mark[t] = p]
      BY <2>1 DEF Mark
    <3>3. mirror'.qty = mirror.qty /\ mirror'.cost = mirror.cost
          /\ \A u \in Tokens : u # t => mirror'.mark[u] = mirror.mark[u]
      BY <1>1, <3>2 DEF Mirrors
    <3> QED
      BY <1>1, <3>1, <3>3 DEF Tidy
  <2> QED
    BY <1>1, <2>1, <2>2, <2>3, QuietMirror DEF Mark, Mirrors
<1>9. CASE Save
  <2>1. file' = {mirror} /\ UNCHANGED <<mirror, ledger, ops>>
    BY <1>9 DEF Save
  <2>2. TypeOK' /\ Mirrored' \subseteq Mirrored
    BY <1>1, <2>1 DEF TypeOK, Mirrored
  <2> QED
    BY <2>1, <2>2 DEF BooksInv, Admitted, Known
<1>10. CASE Crash
  <2>1. /\ mirror' \in Load /\ UNCHANGED <<ledger, file, ops>>
    BY <1>10 DEF Crash
  <2>2. CASE file # {}
    <3>1. mirror' \in file
      BY <2>1, <2>2 DEF Load
    <3>2. TypeOK' /\ Mirrored' \subseteq Mirrored
      BY <1>1, <2>1, <3>1 DEF TypeOK, Mirrored
    <3> QED
      BY <2>1, <3>2 DEF BooksInv, Admitted, Known
  <2>3. CASE file = {}
    <3>1. PICK funds \in Funds : mirror' = NewBook(funds)
      BY <2>1, <2>3 DEF Load
    <3>2. TypeOK' /\ Mirrored' = {NewBook(funds)}
      BY <1>1, <2>1, <2>3, <3>1, NewBookIsSound DEF TypeOK, Mirrored
    <3> QED
      BY <2>1, <3>2, NewBookIsSound DEF BooksInv, Admitted, Known
  <2> QED
    BY <2>2, <2>3
<1> QED
  BY <1>2, <1>3, <1>4, <1>5, <1>6, <1>7, <1>8, <1>9, <1>10 DEF Next

(* A profit stated as known is exact (pnl.py:69-152).                       *)
LEMMA KnownProfit == BooksInv => KnownProfitIsExact
<1> SUFFICES ASSUME BooksInv, Known, ledger.lost = {}, NEW m \in file
             PROVE  TotalPnl(m) = Equity(m) - m.start - m.flow
  BY DEF KnownProfitIsExact
<1>1. m \in Mirrors /\ Balanced(m) /\ m.loose = 0 /\ Basis(m) \in Int /\ Exposure(m) \in Int
  BY BasisType DEF BooksInv, TypeOK, Mirrored, Admitted
<1>2. m.cash \in Int /\ m.start \in Int /\ m.flow \in Int /\ m.realized \in Int
  BY <1>1 DEF Mirrors
<1> QED
  BY <1>1, <1>2 DEF Balanced, TotalPnl, Equity

(* Cash, basis, profit and transfers add up, a known profit is exact, the   *)
(* ledger covers the mirror and closed positions leave nothing behind       *)
(* (broker.py:195-381, pnl.py:69-152).                                      *)
THEOREM BooksHold == Spec => []BooksAreRight
<1>1. BooksInv => BooksAreRight
  BY KnownProfit DEF BooksInv, BooksAreRight, BooksBalance, Balanced, LedgerCoversMirror, Mirrored, PositionsAreReal, Tidy
<1>2. BooksInv /\ [Next]_vars => BooksInv'
  <2>1. BooksInv /\ UNCHANGED vars => BooksInv'
    BY DEF BooksInv, vars, TypeOK, Mirrored, Admitted, Known
  <2> QED
    BY <2>1, BooksStep
<1> QED
  BY <1>1, <1>2, BooksInit, PTL DEF Spec

(* An order id is new when it is given out, whatever a restart forgot. *)
FreshIds == \A m \in Mirrored : \A i \in Ids : i > ops => m.orders[i] = "NONE"

Kept(m) == \A i \in Ids : i # ops + 1 => m.orders[i] = mirror.orders[i]

(* A fill writes the next order id and no other (broker.py:143-193).        *)
LEMMA TradeWritesOneOrder ==
  ASSUME mirror \in Mirrors, Trade
  PROVE  /\ ops < MaxOps /\ ops' = ops + 1 /\ UNCHANGED file /\ Kept(mirror')
<1>1. PICK t \in Tokens, q \in Quantities, p \in Prices, fee \in Fees :
        Buy(t, q, p, fee) \/ SellMatched(t, q, p, fee) \/ SellUnmatched(t, q, p, fee)
  BY DEF Trade
<1>2. ops < MaxOps /\ ops' = ops + 1 /\ UNCHANGED file
  BY <1>1 DEF Buy, SellMatched, SellUnmatched, Effect
<1>3. mirror'.orders = [mirror.orders EXCEPT ![ops + 1] = "FILLED"]
  <2>1. CASE Buy(t, q, p, fee)
    BY <2>1 DEF Buy, Effect, Filled, Mirrors
  <2>2. CASE SellMatched(t, q, p, fee)
    BY <2>2 DEF SellMatched, Effect, Filled, Mirrors
  <2>3. CASE SellUnmatched(t, q, p, fee)
    BY <2>3 DEF SellUnmatched, Effect, Filled, Mirrors
  <2> QED
    BY <1>1, <2>1, <2>2, <2>3
<1> QED
  BY <1>2, <1>3 DEF Mirrors, Kept

(* Redemptions and transfers touch no order.                                *)
LEMMA OthersKeepOrders ==
  ASSUME mirror \in Mirrors,
         \/ \E t \in Tokens : \E w \in BOOLEAN : Redeem(t, w)
         \/ \E t \in Tokens : RedeemUnmatched(t)
         \/ \E in \in BOOLEAN : \E a \in Amounts : Transfer(in, a)
  PROVE  ops < MaxOps /\ ops' = ops + 1 /\ UNCHANGED file /\ mirror'.orders = mirror.orders
<1>1. CASE \E t \in Tokens : \E w \in BOOLEAN : Redeem(t, w)
  <2>1. PICK t \in Tokens, w \in BOOLEAN : Redeem(t, w)
    BY <1>1
  <2> DEFINE payout == IF w THEN mirror.qty[t] * Unit ELSE 0
             m == [mirror EXCEPT !.cash = @ + payout, !.realized = @ + payout - mirror.cost[t],
                                 !.qty[t] = 0, !.cost[t] = 0, !.mark[t] = 0]
  <2>2. Effect(m, FALSE)
    BY <2>1 DEF Redeem
  <2> HIDE DEF payout
  <2> QED
    BY <2>2 DEF Effect, Mirrors
<1>2. CASE \E t \in Tokens : RedeemUnmatched(t)
  BY <1>2 DEF RedeemUnmatched, Effect, Mirrors
<1>3. CASE \E in \in BOOLEAN : \E a \in Amounts : Transfer(in, a)
  BY <1>3 DEF Transfer, Effect, Mirrors
<1> QED
  BY <1>1, <1>2, <1>3

Settled == \A i \in Ids : mirror.orders[i] \notin {"NONE", "OPEN"} => mirror'.orders[i] = mirror.orders[i]

(* An id is given out once, and an order that left OPEN stays as it is.     *)
LEMMA OrdersStep ==
  ASSUME TypeOK, FreshIds, Next
  PROVE  FreshIds' /\ (Crash \/ Settled)
<1>1. mirror \in Mirrors /\ file \subseteq Mirrors /\ ops \in Int /\ MaxOps \in Int
  BY AccountAssumption DEF TypeOK
<1>2. \A i \in Ids : i \in Int
  BY DEF Ids
<1>3. ASSUME ops < MaxOps, ops' = ops + 1, UNCHANGED file, Kept(mirror') PROVE FreshIds' /\ Settled
  <2>1. \A i \in Ids : i > ops' => i > ops /\ i # ops + 1
    BY <1>1, <1>2, <1>3
  <2>2. FreshIds'
    BY <1>3, <2>1 DEF FreshIds, Mirrored, Kept
  <2>3. ASSUME NEW i \in Ids, i = ops + 1 PROVE mirror.orders[i] = "NONE"
    BY <1>1, <2>3 DEF FreshIds, Mirrored
  <2> QED
    BY <1>3, <2>2, <2>3 DEF Settled, Kept
<1>4. CASE Trade
  BY <1>1, <1>3, <1>4, TradeWritesOneOrder
<1>5. CASE \E s \in OrderStatus \ {"NONE", "FILLED"} : PlaceUnfilled(s)
  BY <1>1, <1>3, <1>5 DEF PlaceUnfilled, Mirrors, Kept
<1>6. CASE \E ids \in SUBSET Ids : CancelOrders(ids)
  <2>1. \A i \in Ids : mirror.orders[i] # "OPEN" => mirror'.orders[i] = mirror.orders[i]
    BY <1>1, <1>6 DEF CancelOrders, Mirrors
  <2>2. UNCHANGED <<file, ops>>
    BY <1>6 DEF CancelOrders
  <2> QED
    BY <2>1, <2>2 DEF FreshIds, Mirrored, Settled
<1>7. CASE \/ \E t \in Tokens : \E w \in BOOLEAN : Redeem(t, w)
           \/ \E t \in Tokens : RedeemUnmatched(t)
           \/ \E in \in BOOLEAN : \E a \in Amounts : Transfer(in, a)
  BY <1>1, <1>3, <1>7, OthersKeepOrders DEF Kept
<1>8. CASE \E t \in Tokens, p \in 0..Unit : Mark(t, p)
  <2>1. mirror'.orders = mirror.orders /\ UNCHANGED <<file, ops>>
    BY <1>1, <1>8 DEF Mark, Mirrors
  <2> QED
    BY <2>1 DEF FreshIds, Mirrored, Settled
<1>9. CASE Save
  BY <1>9 DEF Save, FreshIds, Mirrored, Settled
<1>10. CASE Crash
  <2>1. mirror' \in Load /\ UNCHANGED <<file, ops>>
    BY <1>10 DEF Crash
  <2>2. \A i \in Ids : i > ops => mirror'.orders[i] = "NONE"
    BY <2>1 DEF Load, NewBook, FreshIds, Mirrored
  <2> QED
    BY <1>10, <2>1, <2>2 DEF FreshIds, Mirrored
<1> QED
  BY <1>4, <1>5, <1>6, <1>7, <1>8, <1>9, <1>10 DEF Next

(* An order that left OPEN keeps its status (broker.py:301-308).            *)
THEOREM OrdersStay == Spec => SettledOrdersStay
<1>1. Init => FreshIds
  BY DEF Init, NewBook, FreshIds, Mirrored
<1>2. TypeOK /\ FreshIds /\ [Next]_vars => FreshIds'
  <2>1. FreshIds /\ UNCHANGED vars => FreshIds'
    BY DEF FreshIds, vars, Mirrored
  <2> QED
    BY <2>1, OrdersStep
<1>3. TypeOK /\ FreshIds /\ [Next]_vars
        => [Crash \/ \A i \in Ids : mirror.orders[i] \notin {"NONE", "OPEN"} =>
                        mirror'.orders[i] = mirror.orders[i]]_vars
  BY OrdersStep DEF Settled
<1>4. BooksAreRight => TypeOK
  BY DEF BooksAreRight
<1> QED
  BY <1>1, <1>2, <1>3, <1>4, BooksHold, PTL DEF Spec, SettledOrdersStay

----------------------------------------------------------------------------
(* ---- The rules before an order ---- *)

(* The library picks the least of some naturals.                            *)
LEMMA MinIsLeast ==
  ASSUME NEW B, B \subseteq Nat, B # {}
  PROVE  Gate!Min(B) \in B /\ \A k \in B : Gate!Min(B) <= k
<1>1. \E n \in B : \A k \in B : n <= k
  BY LeastNatural
<1> QED
  BY <1>1 DEF Gate!Min

(* What the agent's rules said of an action, and what became of its size. *)
Consented(answers, c) ==
  /\ DOMAIN answers = 1..gateSetup.agent
  /\ \A i \in 1..gateSetup.agent : answers[i] \in Gate!Consent
  /\ c.kind = "BUY" /\ c.by = "decision" =>
       /\ c.size <= c.asked
       /\ \A i \in 1..gateSetup.agent : answers[i].outcome = "ADJUST" => c.size <= answers[i].value

OnItsWay ==
  /\ gateHeard = [lane \in Gate!Lanes |-> gateHeard[lane]]
  /\ gateCall # None =>
       /\ gateCall.at = "agent" => gateCall.size = gateCall.asked
       /\ gateCall.at # "agent" /\ gateCall.by # "sweep" => Consented(gateHeard["agent"], gateCall)

TookEffect ==
  gateLast # None =>
    /\ DOMAIN gateLast.business = 1..gateSetup.business
    /\ \A i \in 1..gateSetup.business : gateLast.business[i].outcome = "ALLOW"
    /\ gateLast.call.by # "sweep" => Consented(gateLast.agent, gateLast.call)
    /\ gateLast.call.kind = "BUY" /\ gateLast.call.by = "decision" => gateLast.call.size <= gateLast.call.asked

PaperIsCovered ==
  gateSetup.paper /\ gateLast # None /\ gateLast.call.kind = "BUY" /\ Gate!Notional(gateLast.call) <= gateLast.call.size =>
    gateBook.cash >= 0

GateInv ==
  /\ Gate!TypeOK
  /\ OnItsWay
  /\ TookEffect
  /\ gateSetup.paper => gateWrites.venue = 0
  /\ PaperIsCovered

(* Answers that do not add up to a refusal. *)
LEMMA NobodyRefuses ==
  ASSUME NEW n \in Nat, NEW answers \in [1..n -> Gate!Answers], NEW requested,
         Gate!Evaluate(answers, requested).outcome # "REJECT"
  PROVE  /\ \A i \in 1..n : answers[i] \in Gate!Consent
         /\ Gate!Adjustments(answers) \subseteq Nat
         /\ \A i \in 1..n : answers[i].outcome = "ADJUST" => answers[i].value \in Gate!Adjustments(answers)
<1>1. ~\E a \in Gate!Range(answers) : Gate!Refuses(a)
  BY DEF Gate!Evaluate
<1>2. \A i \in 1..n : answers[i] \in Gate!Answers /\ ~Gate!Refuses(answers[i])
  BY <1>1 DEF Gate!Range
<1>3. \A a \in Gate!Answers : ~Gate!Refuses(a) => a \in Gate!Consent
  BY DEF Gate!Answers, Gate!Refuses, Gate!Consent
<1>4. \A a \in Gate!Consent : a.outcome = "ADJUST" => a.value \in Nat
  BY TradingAssumption DEF Gate!OrderGateAssumption, Gate!Consent
<1> QED
  BY <1>2, <1>3, <1>4 DEF Gate!Adjustments, Gate!Range

(* A write is let through when every rule says ALLOW                        *)
(* (market_guard.py:60-120).                                                *)
LEMMA NothingAdjusted ==
  ASSUME NEW n \in Nat, NEW answers \in [1..n -> Gate!Answers], ~Gate!Stopped(answers)
  PROVE  \A i \in 1..n : answers[i].outcome = "ALLOW"
<1>1. Gate!Evaluate(answers, {}).outcome = "ALLOW"
  BY DEF Gate!Stopped
<1>2. \A i \in 1..n : answers[i] \in Gate!Consent
  BY <1>1, NobodyRefuses
<1>3. Gate!Adjustments(answers) = {}
  BY <1>1 DEF Gate!Evaluate
<1> QED
  BY <1>2, <1>3, NobodyRefuses, <1>1 DEF Gate!Consent

(* A decided purchase is cut to the smallest adjustment                     *)
(* (core/risk.py:76-118).                                                   *)
LEMMA SizeIsReduced ==
  ASSUME NEW n \in Nat, NEW answers \in [1..n -> Gate!Answers], NEW c \in Gate!Calls,
         NEW requested, requested = IF c.by = "decision" THEN {c.size} ELSE {},
         NEW verdict, verdict = Gate!Evaluate(answers, requested), verdict.outcome # "REJECT"
  PROVE  /\ Gate!Reduced(c, verdict) \in Nat
         /\ c.kind = "BUY" /\ c.by = "decision" =>
              /\ Gate!Reduced(c, verdict) <= c.size
              /\ \A i \in 1..n : answers[i].outcome = "ADJUST" => Gate!Reduced(c, verdict) <= answers[i].value
<1>1. c.size \in Nat
  BY DEF Gate!Calls
<1>2. CASE c.kind = "BUY" /\ c.by = "decision" /\ verdict.outcome = "ADJUST"
  <2> DEFINE cuts == (Gate!Adjustments(answers) \ {None}) \cup {c.size}
             both == {c.size, verdict.value}
  <2>1. Gate!Adjustments(answers) \subseteq Nat /\ None \notin Nat
    BY NobodyRefuses, TradingAssumption DEF Gate!OrderGateAssumption
  <2>2. verdict.value = Gate!Min(cuts)
    BY <1>2 DEF Gate!Evaluate
  <2>3. cuts \subseteq Nat /\ c.size \in cuts /\ \A k \in Gate!Adjustments(answers) : k \in cuts
    BY <1>1, <2>1
  <2> HIDE DEF cuts
  <2>4. verdict.value \in Nat /\ \A k \in cuts : verdict.value <= k
    BY <2>2, <2>3, MinIsLeast
  <2>5. both \subseteq Nat /\ c.size \in both /\ verdict.value \in both
    BY <1>1, <2>4
  <2>6. Gate!Reduced(c, verdict) = Gate!Min(both)
    BY <1>2 DEF Gate!Reduced
  <2> HIDE DEF both
  <2>7. /\ Gate!Reduced(c, verdict) \in Nat /\ Gate!Reduced(c, verdict) <= c.size
        /\ Gate!Reduced(c, verdict) <= verdict.value
    BY <2>5, <2>6, MinIsLeast
  <2>8. \A i \in 1..n : answers[i].outcome = "ADJUST" => answers[i].value \in Nat /\ verdict.value <= answers[i].value
    BY <2>1, <2>3, <2>4, NobodyRefuses
  <2>9. ASSUME NEW i \in 1..n, answers[i].outcome = "ADJUST" PROVE Gate!Reduced(c, verdict) <= answers[i].value
    <3>1. answers[i].value \in Nat /\ verdict.value <= answers[i].value
      BY <2>8, <2>9
    <3> QED
      BY <2>4, <2>7, <3>1
  <2> QED
    BY <2>7, <2>9
<1>3. CASE ~(c.kind = "BUY" /\ c.by = "decision" /\ verdict.outcome = "ADJUST")
  <2>1. Gate!Reduced(c, verdict) = c.size
    BY <1>3 DEF Gate!Reduced
  <2>2. verdict.outcome # "ADJUST" => Gate!Adjustments(answers) = {}
    BY DEF Gate!Evaluate
  <2>3. c.kind = "BUY" /\ c.by = "decision" => \A i \in 1..n : answers[i].outcome # "ADJUST"
    BY <1>3, <2>2, NobodyRefuses
  <2> QED
    BY <1>1, <2>1, <2>3
<1> QED
  BY <1>2, <1>3

(* Before the rules are asked nothing was heard.                            *)
LEMMA NothingHeard == \A lane \in Gate!Lanes : Gate!TypeOK => <<>> \in Gate!Heard(lane)
<1> SUFFICES ASSUME NEW lane \in Gate!Lanes, Gate!TypeOK PROVE <<>> \in Gate!Heard(lane)
  OBVIOUS
<1>1. 0 \in 0..gateSetup[lane]
  BY TradingAssumption DEF Gate!OrderGateAssumption, Gate!TypeOK, Gate!Lanes
<1>2. <<>> \in [1..0 -> Gate!Answers]
  OBVIOUS
<1> QED
  BY <1>1, <1>2 DEF Gate!Heard

(* Nothing is on its way at first.                                          *)
LEMMA GateInit == Gate!Init => GateInv
<1> SUFFICES ASSUME Gate!Init PROVE GateInv
  OBVIOUS
<1> USE TradingAssumption DEF Gate!OrderGateAssumption
<1>1. /\ gateSetup \in [paper : BOOLEAN, agent : 0..MaxRules, business : 0..MaxRules]
      /\ gateBook = [cash |-> Balance, held |-> 0] /\ gateWrites = [venue |-> 0, paper |-> 0]
      /\ gateCall = None /\ gateLast = None /\ gateHeard = [lane \in Gate!Lanes |-> <<>>]
  BY DEF Gate!Init
<1>2. \A lane \in Gate!Lanes : <<>> \in Gate!Heard(lane)
  <2> SUFFICES ASSUME NEW lane \in Gate!Lanes PROVE <<>> \in Gate!Heard(lane)
    OBVIOUS
  <2>1. 0 \in 0..gateSetup[lane]
    BY <1>1 DEF Gate!Lanes
  <2>2. <<>> \in [1..0 -> Gate!Answers]
    OBVIOUS
  <2> QED
    BY <2>1, <2>2 DEF Gate!Heard
<1>3. Gate!TypeOK
  BY <1>1, <1>2 DEF Gate!TypeOK
<1> QED
  BY <1>1, <1>3 DEF GateInv, OnItsWay, TookEffect, PaperIsCovered

(* The action on its way moves, nothing takes effect. *)
LEMMA CallMoves ==
  ASSUME GateInv, UNCHANGED <<gateSetup, gateBook, gateLast, gateWrites>>,
         gateCall' \in {None} \cup Gate!Calls, \A lane \in Gate!Lanes : gateHeard'[lane] \in Gate!Heard(lane),
         OnItsWay'
  PROVE  GateInv'
<1>1. Gate!TypeOK'
  BY DEF GateInv, Gate!TypeOK, Gate!Heard
<1>2. TookEffect' /\ PaperIsCovered'
  BY DEF GateInv, TookEffect, Consented, PaperIsCovered, Gate!Notional
<1> QED
  BY <1>1, <1>2 DEF GateInv

(* An action that is dropped leaves nothing behind.                         *)
LEMMA CallDropped ==
  ASSUME GateInv, UNCHANGED <<gateSetup, gateBook, gateLast, gateWrites>>, Gate!Drop
  PROVE  GateInv'
<1>1. gateCall' = None /\ gateHeard' = [lane \in Gate!Lanes |-> <<>>]
  BY DEF Gate!Drop
<1>2. \A lane \in Gate!Lanes : gateHeard'[lane] \in Gate!Heard(lane)
  BY <1>1, NothingHeard DEF GateInv
<1>3. OnItsWay'
  BY <1>1 DEF OnItsWay
<1> QED
  BY <1>1, <1>2, <1>3, CallMoves

(* An action begins with the size it asks for.                              *)
LEMMA CallBegins ==
  ASSUME GateInv, NEW c \in Gate!Calls, Gate!Begin(c), UNCHANGED <<gateSetup, gateBook, gateHeard, gateWrites>>,
         c.size = c.asked, c.by # "sweep" => c.at = "agent"
  PROVE  GateInv'
<1>1. gateCall' = c /\ gateLast' = None
  BY DEF Gate!Begin
<1>2. Gate!TypeOK'
  BY <1>1 DEF GateInv, Gate!TypeOK, Gate!Heard
<1>3. OnItsWay'
  BY <1>1 DEF GateInv, OnItsWay
<1>4. TookEffect' /\ PaperIsCovered'
  BY <1>1 DEF TookEffect, PaperIsCovered
<1> QED
  BY <1>1, <1>2, <1>3, <1>4 DEF GateInv

(* An action passes the agent's rules with their consent (evaluation.py,    *)
(* core/risk.py:70-118).                                                    *)
LEMMA AgentRulesAsked ==
  ASSUME GateInv, NEW answers \in Gate!Verdicts("agent"), Gate!AskAgentRules(answers)
  PROVE  GateInv'
<1> DEFINE requested == IF gateCall.by = "decision" THEN {gateCall.size} ELSE {}
           verdict == Gate!Evaluate(answers, requested)
<1>1. /\ gateCall # None /\ gateCall.at = "agent" /\ UNCHANGED <<gateSetup, gateBook, gateLast, gateWrites>>
      /\ IF verdict.outcome = "REJECT" THEN Gate!Drop
         ELSE /\ gateCall' = [gateCall EXCEPT !.size = Gate!Reduced(gateCall, verdict),
                                              !.at = IF Gate!Quoted(gateCall.kind) THEN "quote" ELSE "business"]
              /\ gateHeard' = [gateHeard EXCEPT !["agent"] = answers]
  BY DEF Gate!AskAgentRules, Gate!Untouched
<1>2. gateCall \in Gate!Calls /\ gateSetup.agent \in Nat /\ gateSetup.agent \in 0..gateSetup.agent
      /\ answers \in [1..gateSetup.agent -> Gate!Answers]
  BY <1>1, TradingAssumption DEF GateInv, Gate!TypeOK, Gate!OrderGateAssumption, Gate!Verdicts
<1>3. CASE verdict.outcome = "REJECT"
  BY <1>1, <1>3, CallDropped
<1>4. CASE verdict.outcome # "REJECT"
  <2> DEFINE size == Gate!Reduced(gateCall, verdict)
             at == IF Gate!Quoted(gateCall.kind) THEN "quote" ELSE "business"
  <2>1. /\ size \in Nat
        /\ gateCall.kind = "BUY" /\ gateCall.by = "decision" =>
              /\ size <= gateCall.size
              /\ \A i \in 1..gateSetup.agent : answers[i].outcome = "ADJUST" => size <= answers[i].value
    BY <1>2, <1>4, SizeIsReduced
  <2>2. \A i \in 1..gateSetup.agent : answers[i] \in Gate!Consent
    BY <1>2, <1>4, NobodyRefuses
  <2>3. /\ gateCall' = [gateCall EXCEPT !.size = size, !.at = at]
        /\ gateHeard' = [gateHeard EXCEPT !["agent"] = answers]
        /\ at \in {"quote", "business"}
    BY <1>1, <1>4
  <2> HIDE DEF size, at, verdict, requested
  <2>4. /\ gateCall' \in Gate!Calls /\ gateCall'.size = size /\ gateCall'.at # "agent"
        /\ gateCall'.kind = gateCall.kind /\ gateCall'.by = gateCall.by /\ gateCall'.asked = gateCall.asked
    BY <1>2, <2>1, <2>3 DEF Gate!Calls
  <2>5. gateHeard = [lane \in Gate!Lanes |-> gateHeard[lane]] /\ "agent" \in Gate!Lanes
        /\ gateCall.size = gateCall.asked
    BY <1>1 DEF GateInv, OnItsWay, Gate!Lanes
  <2>6. gateHeard' = [lane \in Gate!Lanes |-> gateHeard'[lane]] /\ gateHeard'["agent"] = answers
    BY <2>3, <2>5
  <2>7. answers \in Gate!Heard("agent")
    BY <1>2 DEF Gate!Heard
  <2>8. \A lane \in Gate!Lanes : gateHeard'[lane] \in Gate!Heard(lane)
    BY <2>3, <2>5, <2>7 DEF GateInv, Gate!TypeOK
  <2>9. Consented(answers, gateCall)'
    BY <1>1, <1>2, <2>1, <2>2, <2>4, <2>5 DEF Consented
  <2>10. OnItsWay'
    BY <2>4, <2>6, <2>9 DEF OnItsWay, Consented
  <2> QED
    BY <1>1, <2>4, <2>8, <2>10, CallMoves
<1> QED
  BY <1>3, <1>4

(* A quote sizes a sale, and never changes what a purchase asked for. *)
LEMMA QuoteFetched == ASSUME GateInv, Gate!GetQuote PROVE GateInv'
<1>1. /\ gateCall # None /\ gateCall.at = "quote" /\ UNCHANGED <<gateSetup, gateBook, gateLast, gateWrites>>
  BY DEF Gate!GetQuote, Gate!Untouched
<1>2. gateCall \in Gate!Calls /\ gateBook.held \in Nat
  BY <1>1 DEF GateInv, Gate!TypeOK
<1>3. CASE Gate!Drop
  BY <1>1, <1>3, CallDropped
<1>4. ASSUME NEW n \in Gate!Wishes, NEW p \in Gate!Prices, NEW lot \in Lots, UNCHANGED gateHeard,
             gateCall' = [gateCall EXCEPT !.size = n, !.shares = IF gateCall.kind = "BUY" THEN lot ELSE n,
                                          !.price = p, !.at = "business"]
      PROVE  GateInv'
  <2>1. n \in Nat /\ (gateCall.kind = "BUY" => n = gateCall.size)
    BY <1>2, <1>4 DEF Gate!Calls, Gate!Wishes
  <2>2. p \in Nat /\ lot \in Nat
    BY <1>4, TradingAssumption DEF Gate!Prices, Gate!OrderGateAssumption
  <2> DEFINE shares == IF gateCall.kind = "BUY" THEN lot ELSE n
  <2>3. shares \in Nat
    BY <2>1, <2>2
  <2>4. gateCall' = [gateCall EXCEPT !.size = n, !.shares = shares, !.price = p, !.at = "business"]
    BY <1>4
  <2> HIDE DEF shares
  <2>5. /\ gateCall' \in Gate!Calls /\ gateCall'.size = n /\ gateCall'.at = "business"
        /\ gateCall'.kind = gateCall.kind /\ gateCall'.by = gateCall.by /\ gateCall'.asked = gateCall.asked
    BY <1>2, <2>1, <2>2, <2>3, <2>4 DEF Gate!Calls
  <2>6. \A lane \in Gate!Lanes : gateHeard'[lane] \in Gate!Heard(lane)
    BY <1>4 DEF GateInv, Gate!TypeOK
  <2>7. OnItsWay'
    BY <1>1, <1>4, <2>1, <2>5 DEF GateInv, OnItsWay, Consented
  <2> QED
    BY <1>1, <2>5, <2>6, <2>7, CallMoves
<1> QED
  BY <1>3, <1>4 DEF Gate!GetQuote

(* An accepted write: what the rules said of it is kept. *)
LEMMA WriteAccepted ==
  ASSUME GateInv, NEW answers \in Gate!Verdicts("business"),
         gateCall # None, gateCall.at = "business", ~Gate!Stopped(answers),
         gateLast' = [call |-> gateCall, agent |-> gateHeard["agent"], business |-> answers],
         Gate!Drop, UNCHANGED gateSetup
  PROVE  /\ gateLast' \in [call : Gate!Calls, agent : Gate!Heard("agent"), business : Gate!Heard("business")]
         /\ TookEffect' /\ OnItsWay' /\ gateCall' = None /\ gateLast'.call = gateCall
         /\ \A lane \in Gate!Lanes : gateHeard'[lane] \in Gate!Heard(lane)
<1>1. gateCall' = None /\ gateHeard' = [lane \in Gate!Lanes |-> <<>>]
  BY DEF Gate!Drop
<1>2. /\ gateCall \in Gate!Calls /\ gateSetup.business \in Nat
      /\ gateSetup.business \in 0..gateSetup.business
      /\ gateHeard["agent"] \in Gate!Heard("agent")
      /\ answers \in [1..gateSetup.business -> Gate!Answers]
  BY TradingAssumption DEF GateInv, Gate!TypeOK, Gate!OrderGateAssumption, Gate!Verdicts, Gate!Lanes
<1>3. answers \in Gate!Heard("business")
  BY <1>2 DEF Gate!Heard
<1>4. \A i \in 1..gateSetup.business : answers[i].outcome = "ALLOW"
  BY <1>2, NothingAdjusted
<1>5. gateCall.by # "sweep" => Consented(gateHeard["agent"], gateCall)
  BY DEF GateInv, OnItsWay
<1>6. gateCall.kind = "BUY" /\ gateCall.by = "decision" => gateCall.size <= gateCall.asked
  BY <1>5 DEF Consented
<1>7. /\ gateLast'.call = gateCall /\ gateLast'.agent = gateHeard["agent"] /\ gateLast'.business = answers
      /\ gateSetup' = gateSetup
  OBVIOUS
<1>8. TookEffect'
  BY <1>2, <1>4, <1>5, <1>6, <1>7 DEF TookEffect, Consented
<1>9. OnItsWay'
  BY <1>1 DEF OnItsWay
<1>10. \A lane \in Gate!Lanes : gateHeard'[lane] \in Gate!Heard(lane)
  BY <1>1, NothingHeard DEF GateInv
<1> QED
  BY <1>1, <1>2, <1>3, <1>7, <1>8, <1>9, <1>10

(* Less traded costs less.                                                  *)
LEMMA CostGrows ==
  ASSUME NEW m \in Nat, NEW n \in Nat, m <= n
  PROVE  Gate!Cost(m) \in Nat /\ Gate!Cost(n) \in Nat /\ Gate!Cost(m) <= Gate!Cost(n)
<1> DEFINE rate == Whole + Fee
           more == n - m
<1>1. rate \in Nat /\ more \in Nat /\ n = m + more
  BY TradingAssumption DEF Gate!OrderGateAssumption
<1>2. Gate!Cost(m) = m * rate /\ Gate!Cost(n) = n * rate
  BY DEF Gate!Cost
<1> HIDE DEF rate, more
<1>3. m * rate \in Nat /\ more * rate \in Nat
  BY <1>1
<1>4. n * rate = m * rate + more * rate
  BY <1>1
<1> QED
  BY <1>2, <1>3, <1>4

(* What a write makes of the mirror.                                        *)
LEMMA BookIsFilled ==
  ASSUME Gate!TypeOK, gateCall \in Gate!Calls, NEW won \in BOOLEAN
  PROVE  /\ Gate!Filled(won) \in [cash : Int, held : Nat]
         /\ Gate!Covered /\ gateCall.kind = "BUY" /\ Gate!Notional(gateCall) <= gateCall.size =>
              Gate!Filled(won).cash >= 0
<1>1. /\ gateBook \in [cash : Int, held : Nat] /\ gateBook.cash \in Int /\ gateBook.held \in Nat
      /\ gateCall.size \in Nat /\ gateCall.shares \in Nat /\ gateCall.price \in Nat
      /\ Whole \in Nat /\ Fee \in Nat /\ Unit \in Nat
  BY TradingAssumption DEF Gate!TypeOK, Gate!Calls, Gate!OrderGateAssumption
<1>2. Gate!Notional(gateCall) \in Nat
  BY <1>1 DEF Gate!Notional
<1>3. CASE gateCall.kind = "BUY"
  <2>1. Gate!Filled(won) = [cash |-> gateBook.cash - Gate!Cost(Gate!Notional(gateCall)),
                            held |-> gateBook.held + gateCall.shares]
    BY <1>3 DEF Gate!Filled
  <2>2. Gate!Cost(Gate!Notional(gateCall)) \in Nat /\ Gate!Cost(gateCall.size) \in Nat
    BY <1>1, <1>2, CostGrows
  <2>3. gateBook.cash - Gate!Cost(Gate!Notional(gateCall)) \in Int /\ gateBook.held + gateCall.shares \in Nat
    BY <1>1, <2>2
  <2>4. ASSUME Gate!Covered, Gate!Notional(gateCall) <= gateCall.size
        PROVE  gateBook.cash - Gate!Cost(Gate!Notional(gateCall)) >= 0
    <3>1. Gate!Cost(Gate!Notional(gateCall)) <= Gate!Cost(gateCall.size)
      BY <1>1, <1>2, <2>4, CostGrows
    <3>2. Gate!Cost(gateCall.size) <= gateBook.cash
      BY <1>3, <2>4 DEF Gate!Covered
    <3> QED
      BY <1>1, <2>2, <3>1, <3>2
  <2> QED
    BY <2>1, <2>3, <2>4
<1>4. CASE gateCall.kind = "SELL"
  <2> DEFINE left == IF gateCall.shares <= gateBook.held THEN gateBook.held - gateCall.shares ELSE 0
             earned == Gate!Notional(gateCall) * (Whole - Fee)
  <2>1. Gate!Filled(won) = [cash |-> gateBook.cash + earned, held |-> left]
    BY <1>4 DEF Gate!Filled
  <2>2. left \in Nat
    BY <1>1
  <2>3. gateBook.cash + earned \in Int
    <3>1. Whole - Fee \in Int
      BY <1>1
    <3> QED
      BY <1>1, <1>2, <3>1
  <2> QED
    BY <1>4, <2>1, <2>2, <2>3
<1>5. CASE gateCall.kind = "REDEEM"
  <2> DEFINE paid == IF won THEN gateBook.held * Unit * Whole ELSE 0
  <2>1. Gate!Filled(won) = [cash |-> gateBook.cash + paid, held |-> 0]
    BY <1>5 DEF Gate!Filled
  <2>2. gateBook.cash + paid \in Int /\ 0 \in Nat
    <3>1. gateBook.held * Unit \in Nat
      BY <1>1
    <3>2. gateBook.held * Unit * Whole \in Nat
      BY <1>1, <3>1
    <3> QED
      BY <1>1, <3>2
  <2> QED
    BY <1>5, <2>1, <2>2
<1>6. CASE gateCall.kind \in {"INBOUND", "OUTBOUND", "CANCEL"}
  <2>1. gateCall.size * Whole \in Nat
    BY <1>1
  <2> QED
    BY <1>1, <1>6, <2>1 DEF Gate!Filled
<1> QED
  BY <1>3, <1>4, <1>5, <1>6 DEF Gate!Calls, Gate!Kinds

(* What takes effect was consented to (market_guard.py,                     *)
(* paper_trading.py:66-94).                                                 *)
LEMMA GateTakesEffect ==
  ASSUME GateInv, NEW answers \in Gate!Verdicts("business"), Gate!TakesEffect(answers)
  PROVE  GateInv'
<1>1. /\ gateCall # None /\ gateCall.at = "business" /\ ~Gate!Stopped(answers) /\ Gate!Accepts
      /\ gateLast' = [call |-> gateCall, agent |-> gateHeard["agent"], business |-> answers]
      /\ Gate!Drop /\ UNCHANGED gateSetup
      /\ gateWrites' = IF gateSetup.paper THEN [gateWrites EXCEPT !.paper = @ + 1]
                                          ELSE [gateWrites EXCEPT !.venue = @ + 1]
  BY DEF Gate!TakesEffect
<1>2. PICK won \in BOOLEAN : gateBook' = Gate!Filled(won)
  BY DEF Gate!TakesEffect
<1>3. Gate!TypeOK /\ gateCall \in Gate!Calls
  BY <1>1 DEF GateInv, Gate!TypeOK
<1>4. /\ gateLast' \in [call : Gate!Calls, agent : Gate!Heard("agent"), business : Gate!Heard("business")]
      /\ TookEffect' /\ OnItsWay' /\ gateCall' = None /\ gateLast'.call = gateCall
      /\ \A lane \in Gate!Lanes : gateHeard'[lane] \in Gate!Heard(lane)
  BY <1>1, WriteAccepted
<1>5. gateWrites' \in [venue : Nat, paper : Nat] /\ (gateSetup.paper => gateWrites'.venue = gateWrites.venue)
  <2>1. gateWrites \in [venue : Nat, paper : Nat]
    BY <1>3 DEF Gate!TypeOK
  <2>2. CASE gateSetup.paper
    BY <1>1, <2>1, <2>2
  <2>3. CASE ~gateSetup.paper
    BY <1>1, <2>1, <2>3
  <2> QED
    BY <2>2, <2>3
<1>6. gateBook' \in [cash : Int, held : Nat]
  BY <1>2, <1>3, BookIsFilled
<1>7. gateSetup.paper /\ gateCall.kind = "BUY" /\ Gate!Notional(gateCall) <= gateCall.size => gateBook'.cash >= 0
  BY <1>1, <1>2, <1>3, BookIsFilled DEF Gate!Accepts
<1>8. Gate!TypeOK'
  BY <1>1, <1>3, <1>4, <1>5, <1>6 DEF Gate!TypeOK, Gate!Heard
<1>9. (gateSetup.paper => gateWrites.venue = 0)'
  BY <1>1, <1>5 DEF GateInv
<1>10. PaperIsCovered'
  BY <1>1, <1>4, <1>7 DEF PaperIsCovered, Gate!Notional
<1> QED
  BY <1>4, <1>8, <1>9, <1>10 DEF GateInv

(* An order the venue leaves open was consented to.                         *)
LEMMA GateOpens ==
  ASSUME GateInv, NEW answers \in Gate!Verdicts("business"), Gate!Opens(answers)
  PROVE  GateInv'
<1>1. /\ gateCall # None /\ gateCall.at = "business" /\ ~Gate!Stopped(answers) /\ ~gateSetup.paper
      /\ gateLast' = [call |-> gateCall, agent |-> gateHeard["agent"], business |-> answers]
      /\ Gate!Drop /\ UNCHANGED <<gateSetup, gateBook>>
      /\ gateWrites' = [gateWrites EXCEPT !.venue = @ + 1]
  BY DEF Gate!Opens
<1>2. /\ gateLast' \in [call : Gate!Calls, agent : Gate!Heard("agent"), business : Gate!Heard("business")]
      /\ TookEffect' /\ OnItsWay' /\ gateCall' = None
      /\ \A lane \in Gate!Lanes : gateHeard'[lane] \in Gate!Heard(lane)
  BY <1>1, WriteAccepted
<1>3. gateWrites' \in [venue : Nat, paper : Nat]
  BY <1>1 DEF GateInv, Gate!TypeOK
<1>4. Gate!TypeOK'
  BY <1>1, <1>2, <1>3 DEF GateInv, Gate!TypeOK, Gate!Heard
<1> QED
  BY <1>1, <1>2, <1>4 DEF GateInv, PaperIsCovered

(* Every step keeps the gate.                                               *)
LEMMA GateStep == ASSUME GateInv, Gate!Next PROVE GateInv'
<1>1. ASSUME NEW kind \in Gate!Kinds, NEW by \in {"decision", "tool"}, NEW size \in Sizes,
             Gate!Propose(kind, by, size)
      PROVE  GateInv'
  <2> DEFINE c == Gate!Wanted(kind, by, size, "agent")
  <2>1. c \in Gate!Calls /\ c.size = c.asked /\ c.at = "agent"
    BY TradingAssumption DEF Gate!OrderGateAssumption, Gate!Calls, Gate!Wanted
  <2>2. Gate!Begin(c) /\ UNCHANGED <<gateSetup, gateBook, gateHeard, gateWrites>>
    BY <1>1 DEF Gate!Propose
  <2> QED
    BY <2>1, <2>2, CallBegins
<1>2. CASE Gate!Sweep
  <2> DEFINE c == Gate!Wanted("REDEEM", "sweep", 0, "business")
  <2>1. c \in Gate!Calls /\ c.size = c.asked /\ c.by = "sweep"
    BY DEF Gate!Calls, Gate!Kinds, Gate!Wanted
  <2>2. Gate!Begin(c) /\ UNCHANGED <<gateSetup, gateBook, gateHeard, gateWrites>>
    BY <1>2 DEF Gate!Sweep
  <2> QED
    BY <2>1, <2>2, CallBegins
<1>3. ASSUME NEW answers \in Gate!Verdicts("business"), Gate!AskBusinessRules(answers) \/ Gate!Fails(answers)
      PROVE  GateInv'
  BY <1>3, CallDropped DEF Gate!AskBusinessRules, Gate!Fails, Gate!Untouched
<1> QED
  BY <1>1, <1>2, <1>3, AgentRulesAsked, QuoteFetched, GateTakesEffect, GateOpens DEF Gate!Next

(* What took effect was allowed by every rule that started, a decided       *)
(* purchase within every cut, and paper trading touches no venue and spends *)
(* no money that is not there, unless the quote comes to more than was      *)
(* asked for (core/risk.py:76-118, market_guard.py:60-120,                  *)
(* paper_trading.py:48-94, broker.py:200).                                  *)
THEOREM RulesAreObeyed == Gate!Spec => []Gate!OnlyWhatTheRulesAllow
<1>1. GateInv => Gate!OnlyWhatTheRulesAllow
  BY DEF GateInv, TookEffect, Consented, PaperIsCovered, Gate!OnlyWhatTheRulesAllow
<1>2. GateInv /\ [Gate!Next]_Gate!vars => GateInv'
  <2>1. GateInv /\ UNCHANGED Gate!vars => GateInv'
    BY DEF GateInv, Gate!vars, Gate!TypeOK, Gate!Heard, OnItsWay, TookEffect, Consented, PaperIsCovered, Gate!Notional
  <2> QED
    BY <2>1, GateStep
<1> QED
  BY <1>1, <1>2, GateInit, PTL DEF Gate!Spec

----------------------------------------------------------------------------
(* ---- The connection, and the quote that becomes an order ---- *)

(* The types, the flags apart from the rest. *)
Flags == walStale \in BOOLEAN /\ walLock.own \in BOOLEAN

Typed ==
  /\ walInit \in Seq(Threads)
  /\ walPc \in [Threads -> {"idle", "enter", "lock", "inside", "built", "using"}]
  /\ walWork \in [Threads -> {"read", "trade"} \cup Quotes] /\ walClient \in [Threads -> 0..MaxClients]
  /\ walSetup \in 0..MaxClients /\ walTrading \in 0..MaxClients /\ walMade \in 0..MaxClients
  /\ walReady \subseteq Wallet!Clients /\ walClosed \subseteq Wallet!Clients
  /\ walQuotes \in [Quotes -> {"none", "live", "expired", "taken"}]

(* The type invariant, in two parts.                                        *)
LEMMA WalletTypes == Wallet!TypeOK <=> Flags /\ Typed
  BY DEF Wallet!TypeOK, Flags, Typed

(* The connections: one that trades has a wallet, and the thread that       *)
(* connects owns the lock and the outermost patch.                          *)
Connections ==
  /\ walOriginal \in [Threads -> Seq(Threads)]
  /\ walTrading # 0 => walTrading \in walReady
  /\ \A t \in Threads :
       /\ walPc[t] = "built" => walClient[t] # 0
       /\ walPc[t] = "using" /\ walWork[t] # "read" => walClient[t] \in walReady
       /\ walPc[t] = "inside" => walLock.own /\ walLock.by = t /\ walInit # <<>> /\ Head(walInit) = t

(* The quotes: who works on one, and where an order of it is. *)
Working(t, q) == walPc[t] # "idle" /\ walWork[t] = q

OneOrderEach ==
  /\ walOrders \in Seq(Quotes)
  /\ \A q \in Quotes : walQuotes[q] # "taken" =>
       /\ \A i \in 1..Len(walOrders) : walOrders[i] # q
       /\ \A t \in Threads : ~Working(t, q)
  /\ \A q \in Quotes : \A t \in Threads : Working(t, q) =>
       /\ \A i \in 1..Len(walOrders) : walOrders[i] # q
       /\ \A u \in Threads : Working(u, q) => u = t
  /\ \A i \in 1..Len(walOrders) : \A j \in 1..Len(walOrders) : walOrders[i] = walOrders[j] => i = j

WalInv == Flags /\ Typed /\ Connections /\ OneOrderEach

(* No connection and no order at first.                                     *)
LEMMA WalInit == Wallet!Init => WalInv
<1> SUFFICES ASSUME Wallet!Init PROVE WalInv
  OBVIOUS
<1>1. /\ walInit = <<>> /\ walLock = Wallet!Nobody
      /\ walPc = [t \in Threads |-> "idle"] /\ walWork = [t \in Threads |-> "read"]
      /\ walOriginal = [t \in Threads |-> <<>>] /\ walClient = [t \in Threads |-> 0]
      /\ walSetup = 0 /\ walTrading = 0 /\ walMade = 0 /\ walReady = {} /\ walClosed = {}
      /\ walQuotes = [q \in Quotes |-> "none"] /\ walOrders = <<>>
  BY DEF Wallet!Init
<1>2. Flags
  BY DEF Wallet!Init, Flags, Wallet!Nobody
<1>3. Typed
  BY <1>1, TradingAssumption DEF Wallet!WriteClientAssumption, Typed
<1>4. Connections
  BY <1>1 DEF Connections
<1>5. OneOrderEach
  BY <1>1 DEF OneOrderEach, Working
<1> QED
  BY <1>2, <1>3, <1>4, <1>5 DEF WalInv

(* The flags stay flags.                                                    *)
LEMMA FlagsStep == ASSUME Flags, Wallet!Next PROVE Flags'
<1>1. walStale' = walStale \/ walStale' = FALSE \/ walStale' = TRUE
  BY DEF Wallet!Next, Wallet!Call, Wallet!PlaceOrder, Wallet!Require, Wallet!Enter, Wallet!Acquire, Wallet!Connect,
         Wallet!Keep, Wallet!Use, Wallet!GetQuote, Wallet!Expire, Wallet!GrowStale, Wallet!Close, Wallet!held,
         Wallet!book
<1>2. walLock' = walLock \/ walLock' = Wallet!Nobody \/ \E t \in Threads : walLock' = [own |-> TRUE, by |-> t]
  BY DEF Wallet!Next, Wallet!Call, Wallet!PlaceOrder, Wallet!Require, Wallet!Enter, Wallet!Acquire, Wallet!Connect,
         Wallet!Keep, Wallet!Use, Wallet!GetQuote, Wallet!Expire, Wallet!GrowStale, Wallet!Close, Wallet!held,
         Wallet!book
<1>3. walStale' \in BOOLEAN
  BY <1>1 DEF Flags
<1>4. walLock'.own \in BOOLEAN
  <2>1. CASE walLock' = walLock
    BY <2>1 DEF Flags
  <2>2. CASE walLock' = Wallet!Nobody
    <3>1. walLock'.own = FALSE
      BY <2>2 DEF Wallet!Nobody
    <3> QED
      BY <3>1
  <2>3. ASSUME NEW t \in Threads, walLock' = [own |-> TRUE, by |-> t] PROVE walLock'.own \in BOOLEAN
    <3>1. walLock'.own = TRUE
      BY <2>3
    <3> QED
      BY <3>1
  <2> QED
    BY <1>2, <2>1, <2>2, <2>3
<1> QED
  BY <1>3, <1>4 DEF Flags

(* ---- the connections ---- *)
LEMMA RequireConnects ==
  ASSUME Typed, Connections, NEW t \in Threads, NEW w \in {"read", "trade"} \cup Quotes,
         walPc[t] = "idle", Wallet!Require(t, w), UNCHANGED <<walInit, walLock, walOriginal>>,
         walQuotes' \in [Quotes -> {"none", "live", "expired", "taken"}]
  PROVE  Typed' /\ Connections'
<1>1. /\ walWork' = [walWork EXCEPT ![t] = w] /\ UNCHANGED <<walTrading, walMade, walReady>>
      /\ \/ /\ walTrading # 0 \/ (w = "read" /\ walSetup # 0)
            /\ walTrading = 0 => w = "read"
            /\ \E c \in {walTrading, walSetup} :
                 /\ walClient' = [walClient EXCEPT ![t] = c]
                 /\ walTrading # 0 => c = walTrading
            /\ walPc' = [walPc EXCEPT ![t] = "using"]
            /\ UNCHANGED <<walSetup, walClosed>>
         \/ /\ walPc' = [walPc EXCEPT ![t] = "enter"] /\ walClient' = [walClient EXCEPT ![t] = 0]
            /\ \/ walSetup # 0 /\ walClosed' = walClosed \cup {walSetup} /\ walSetup' = 0
               \/ UNCHANGED <<walSetup, walClosed>>
  BY DEF Wallet!Require, Wallet!Reusable, Wallet!held
<1>a. \A n \in 0..MaxClients : n # 0 => n \in Wallet!Clients
  BY TradingAssumption DEF Wallet!Clients, Wallet!WriteClientAssumption
<1>b. 0 \in 0..MaxClients
  BY TradingAssumption DEF Wallet!WriteClientAssumption
<1>2. Typed'
  <2>1. walWork' \in [Threads -> {"read", "trade"} \cup Quotes]
    BY <1>1 DEF Typed
  <2>2. walClient' \in [Threads -> 0..MaxClients]
    <3>1. walTrading \in 0..MaxClients /\ walSetup \in 0..MaxClients
      BY DEF Typed
    <3>2. \E c \in 0..MaxClients : walClient' = [walClient EXCEPT ![t] = c]
      BY <1>1, <1>b, <3>1
    <3> QED
      BY <3>2 DEF Typed
  <2>3. walPc' \in [Threads -> {"idle", "enter", "lock", "inside", "built", "using"}]
    BY <1>1 DEF Typed
  <2>4. walSetup' \in 0..MaxClients /\ walClosed' \subseteq Wallet!Clients
    BY <1>1, <1>a, <1>b DEF Typed
  <2> QED
    BY <1>1, <2>1, <2>2, <2>3, <2>4 DEF Typed
<1>3. Connections'
  BY <1>1 DEF Typed, Connections
<1> QED
  BY <1>2, <1>3

(* Every step keeps the connections (_polymarket/write.py:118-341).         *)
LEMMA ConnectionsStep == ASSUME Typed, Connections, Wallet!Next PROVE Typed' /\ Connections'
<1> USE TradingAssumption DEF Wallet!WriteClientAssumption
<1>1. ASSUME NEW t \in Threads, NEW w \in {"read", "trade"}, Wallet!Call(t, w)
      PROVE  Typed' /\ Connections'
  <2>1. walQuotes' \in [Quotes -> {"none", "live", "expired", "taken"}]
    BY <1>1 DEF Wallet!Call, Wallet!book, Typed
  <2> QED
    BY <1>1, <2>1, RequireConnects DEF Wallet!Call
<1>2. ASSUME NEW t \in Threads, NEW q \in Quotes, Wallet!PlaceOrder(t, q)
      PROVE  Typed' /\ Connections'
  <2>1. walQuotes' \in [Quotes -> {"none", "live", "expired", "taken"}]
    BY <1>2 DEF Wallet!PlaceOrder, Wallet!Taken, Typed
  <2>2. CASE walQuotes[q] = "live"
    BY <1>2, <2>1, <2>2, RequireConnects DEF Wallet!PlaceOrder
  <2>3. CASE walQuotes[q] # "live"
    BY <1>2, <2>1, <2>3 DEF Wallet!PlaceOrder, Wallet!held, Typed, Connections
  <2> QED
    BY <2>2, <2>3
<1>3. ASSUME NEW t \in Threads, Wallet!Enter(t) PROVE Typed' /\ Connections'
  BY <1>3 DEF Wallet!Enter, Wallet!held, Wallet!book, Typed, Connections
<1>4. ASSUME NEW t \in Threads, Wallet!Acquire(t) PROVE Typed' /\ Connections'
  <2>1. /\ walPc[t] = "lock" /\ ~walLock.own /\ walLock' = [own |-> TRUE, by |-> t]
        /\ walInit' = <<t>> \o walOriginal[t] /\ walPc' = [walPc EXCEPT ![t] = "inside"]
        /\ UNCHANGED <<walWork, walOriginal, walClient, walSetup, walTrading, walMade, walReady,
                       walClosed, walQuotes, walOrders>>
    BY <1>4 DEF Wallet!Acquire, Wallet!held, Wallet!book
  <2>2. walInit' \in Seq(Threads) /\ walInit' # <<>> /\ Head(walInit') = t
    BY <2>1 DEF Connections
  <2>3. Typed'
    BY <2>1, <2>2 DEF Typed
  <2>4. \A u \in Threads : walPc[u] # "inside"
    BY <2>1 DEF Connections
  <2> QED
    BY <2>1, <2>2, <2>3, <2>4 DEF Typed, Connections
<1>5. ASSUME NEW t \in Threads, Wallet!Connect(t) PROVE Typed' /\ Connections'
  <2>1. /\ walPc[t] = "inside" /\ walInit' = walOriginal[t] /\ walLock' = Wallet!Nobody
        /\ UNCHANGED <<walWork, walOriginal, walSetup, walTrading, walReady, walClosed,
                       walQuotes, walOrders>>
    BY <1>5 DEF Wallet!Connect, Wallet!book
  <2>2. \/ /\ walMade < MaxClients /\ walMade' = walMade + 1
           /\ walClient' = [walClient EXCEPT ![t] = walMade + 1] /\ walPc' = [walPc EXCEPT ![t] = "built"]
        \/ walPc' = [walPc EXCEPT ![t] = "idle"] /\ UNCHANGED <<walMade, walClient>>
    BY <1>5 DEF Wallet!Connect
  <2>3. \A u \in Threads : u # t => walPc[u] # "inside"
    BY <2>1 DEF Connections
  <2>4. Typed'
    <3>1. walInit' \in Seq(Threads)
      BY <2>1 DEF Connections
    <3>2. walMade < MaxClients => walMade + 1 \in 0..MaxClients
      BY DEF Typed
    <3> QED
      BY <2>1, <2>2, <3>1, <3>2 DEF Typed
  <2>5. Connections'
    <3>1. \A u \in Threads : u # t => walPc'[u] = walPc[u] /\ walClient'[u] = walClient[u]
      BY <2>2 DEF Typed
    <3>2. /\ walPc'[t] \in {"built", "idle"}
          /\ walPc'[t] = "built" => walClient'[t] # 0
      BY <2>2 DEF Typed
    <3> QED
      BY <2>1, <2>3, <3>1, <3>2 DEF Connections
  <2> QED
    BY <2>4, <2>5
<1>6. ASSUME NEW t \in Threads, Wallet!Keep(t) PROVE Typed' /\ Connections'
  <2>1. /\ walPc[t] = "built" /\ walClient[t] \in Wallet!Clients
        /\ UNCHANGED <<walInit, walLock, walWork, walOriginal, walClient, walMade, walQuotes, walOrders>>
    BY <1>6 DEF Wallet!Keep, Wallet!book, Typed, Connections, Wallet!Clients
  <2>2. CASE walWork[t] = "read"
    <3>1. /\ walSetup' = walClient[t] /\ walPc' = [walPc EXCEPT ![t] = "using"]
          /\ UNCHANGED <<walTrading, walReady, walClosed>>
      BY <1>6, <2>2 DEF Wallet!Keep
    <3> QED
      BY <2>1, <2>2, <3>1 DEF Typed, Connections, Wallet!Clients
  <2>3. CASE walWork[t] # "read"
    <3>1. /\ UNCHANGED walSetup
          /\ \/ /\ walTrading' = walClient[t] /\ walReady' = walReady \cup {walClient[t]}
                /\ walPc' = [walPc EXCEPT ![t] = "using"] /\ UNCHANGED walClosed
             \/ /\ walClosed' = walClosed \cup {walClient[t]} /\ walPc' = [walPc EXCEPT ![t] = "idle"]
                /\ UNCHANGED <<walTrading, walReady>>
      BY <1>6, <2>3 DEF Wallet!Keep
    <3>2. walClient[t] \in 0..MaxClients
      BY DEF Typed
    <3>3. CASE walTrading' = walClient[t] /\ walReady' = walReady \cup {walClient[t]}
               /\ walPc' = [walPc EXCEPT ![t] = "using"] /\ UNCHANGED walClosed
      <4>1. Typed'
        BY <2>1, <3>1, <3>2, <3>3 DEF Typed
      <4>2. Connections'
        BY <2>1, <2>3, <3>3 DEF Typed, Connections
      <4> QED
        BY <4>1, <4>2
    <3>4. CASE walClosed' = walClosed \cup {walClient[t]} /\ walPc' = [walPc EXCEPT ![t] = "idle"]
               /\ UNCHANGED <<walTrading, walReady>>
      BY <2>1, <2>3, <3>1, <3>4 DEF Typed, Connections
    <3> QED
      BY <3>1, <3>3, <3>4
  <2> QED
    BY <2>2, <2>3
<1>7. ASSUME NEW t \in Threads, Wallet!Use(t) PROVE Typed' /\ Connections'
  BY <1>7 DEF Wallet!Use, Wallet!held, Typed, Connections
<1>8. ASSUME NEW q \in Quotes, Wallet!GetQuote(q) \/ Wallet!Expire(q) PROVE Typed' /\ Connections'
  BY <1>8 DEF Wallet!GetQuote, Wallet!Expire, Wallet!held, Typed, Connections
<1>9. CASE Wallet!GrowStale
  BY <1>9 DEF Wallet!GrowStale, Wallet!book, Typed, Connections
<1>10. CASE Wallet!Close
  BY <1>10 DEF Wallet!Close, Wallet!book, Typed, Connections, Wallet!Clients
<1> QED
  BY <1>1, <1>2, <1>3, <1>4, <1>5, <1>6, <1>7, <1>8, <1>9, <1>10 DEF Wallet!Next

(* ---- the quotes ---- *)
LEMMA NobodyStarts ==
  ASSUME OneOrderEach, UNCHANGED walOrders,
         \A q \in Quotes : walQuotes'[q] # "taken" => walQuotes[q] # "taken",
         \A q \in Quotes : \A t \in Threads : Working(t, q)' => Working(t, q)
  PROVE  OneOrderEach'
  BY DEF OneOrderEach

(* The one thread that works on a quote sends its order.                    *)
LEMMA OrderIsSent ==
  ASSUME Typed, OneOrderEach, NEW t \in Threads, NEW q \in Quotes, Working(t, q),
         walOrders' = Append(walOrders, q), UNCHANGED <<walQuotes, walWork>>,
         walPc' = [walPc EXCEPT ![t] = "idle"]
  PROVE  OneOrderEach'
<1>1. /\ walOrders \in Seq(Quotes) /\ walQuotes[q] = "taken"
      /\ \A i \in 1..Len(walOrders) : walOrders[i] # q
  BY DEF OneOrderEach
<1>2. /\ walOrders' \in Seq(Quotes) /\ Len(walOrders') = Len(walOrders) + 1 /\ Len(walOrders) \in Nat
      /\ walOrders'[Len(walOrders) + 1] = q
      /\ \A i \in 1..Len(walOrders) : walOrders'[i] = walOrders[i]
  BY <1>1
<1>3. \A i \in 1..Len(walOrders') : i \in 1..Len(walOrders) \/ i = Len(walOrders) + 1
  BY <1>2
<1>4. \A i \in 1..Len(walOrders') : \A j \in 1..Len(walOrders') : walOrders'[i] = walOrders'[j] => i = j
  BY <1>1, <1>2, <1>3 DEF OneOrderEach
<1>5. \A u \in Threads : \A r \in Quotes : Working(u, r)' => Working(u, r) /\ u # t
  BY DEF Working, Typed
<1>6. \A u \in Threads : \A r \in Quotes : Working(u, r)' => r # q
  BY <1>5 DEF OneOrderEach
<1>7. \A i \in 1..Len(walOrders') : \A r \in Quotes : walOrders'[i] = r /\ r # q =>
        i \in 1..Len(walOrders) /\ walOrders[i] = r
  BY <1>2, <1>3
<1>8. \A r \in Quotes : walQuotes'[r] # "taken" => /\ \A i \in 1..Len(walOrders') : walOrders'[i] # r
                                                  /\ \A u \in Threads : ~Working(u, r)'
  BY <1>1, <1>5, <1>7 DEF OneOrderEach
<1>9. \A r \in Quotes : \A u \in Threads : Working(u, r)' =>
        /\ \A i \in 1..Len(walOrders') : walOrders'[i] # r
        /\ \A v \in Threads : Working(v, r)' => v = u
  BY <1>5, <1>6, <1>7 DEF OneOrderEach
<1> QED
  BY <1>2, <1>4, <1>8, <1>9 DEF OneOrderEach

(* Every step keeps the quotes (_polymarket/write.py:240-341).              *)
LEMMA QuotesStep == ASSUME Typed, OneOrderEach, Wallet!Next PROVE OneOrderEach'
<1> USE TradingAssumption DEF Wallet!WriteClientAssumption
<1>1. ASSUME NEW t \in Threads, NEW w \in {"read", "trade"}, Wallet!Call(t, w) PROVE OneOrderEach'
  <2>1. /\ walWork' = [walWork EXCEPT ![t] = w] /\ UNCHANGED <<walQuotes, walOrders>>
        /\ \E s \in {"using", "enter"} : walPc' = [walPc EXCEPT ![t] = s]
    BY <1>1 DEF Wallet!Call, Wallet!Require, Wallet!book
  <2>2. \A q \in Quotes : \A u \in Threads : Working(u, q)' => Working(u, q)
    BY <2>1 DEF Typed, Working
  <2> QED
    BY <2>1, <2>2, NobodyStarts
<1>2. ASSUME NEW t \in Threads, NEW q \in Quotes, Wallet!PlaceOrder(t, q) PROVE OneOrderEach'
  <2>1. walPc[t] = "idle" /\ walQuotes[q] # "taken" /\ UNCHANGED walOrders
        /\ walQuotes' = [walQuotes EXCEPT ![q] = "taken"]
    BY <1>2 DEF Wallet!PlaceOrder, Wallet!Taken
  <2>2. \/ UNCHANGED <<walPc, walWork>>
        \/ /\ walWork' = [walWork EXCEPT ![t] = q]
           /\ \E s \in {"using", "enter"} : walPc' = [walPc EXCEPT ![t] = s]
    BY <1>2 DEF Wallet!PlaceOrder, Wallet!Require
  <2>3. \A r \in Quotes : r # q => walQuotes'[r] = walQuotes[r]
    BY <2>1 DEF Typed
  <2>4. walQuotes'[q] = "taken"
    BY <2>1 DEF Typed
  <2>5. \A r \in Quotes : \A u \in Threads : Working(u, r)' => Working(u, r) \/ (u = t /\ r = q)
    BY <2>2 DEF Typed, Working
  <2>6. \A u \in Threads : ~Working(u, q)
    BY <2>1 DEF OneOrderEach
  <2>7. \A i \in 1..Len(walOrders) : walOrders[i] # q
    BY <2>1 DEF OneOrderEach
  <2> QED
    BY <2>1, <2>3, <2>4, <2>5, <2>6, <2>7 DEF OneOrderEach
<1>3. ASSUME NEW t \in Threads, Wallet!Enter(t) \/ Wallet!Acquire(t) \/ Wallet!Connect(t) \/ Wallet!Keep(t)
      PROVE  OneOrderEach'
  <2>1. /\ walPc[t] # "idle" /\ UNCHANGED <<walWork, walQuotes, walOrders>>
        /\ \E s \in {"idle", "lock", "inside", "built", "using"} : walPc' = [walPc EXCEPT ![t] = s]
    BY <1>3 DEF Wallet!Enter, Wallet!Acquire, Wallet!Connect, Wallet!Keep, Wallet!book
  <2>2. \A q \in Quotes : \A u \in Threads : Working(u, q)' => Working(u, q)
    BY <2>1 DEF Typed, Working
  <2> QED
    BY <2>1, <2>2, NobodyStarts
<1>4. ASSUME NEW t \in Threads, Wallet!Use(t) PROVE OneOrderEach'
  <2>1. /\ walPc[t] = "using" /\ walPc' = [walPc EXCEPT ![t] = "idle"] /\ UNCHANGED <<walWork, walQuotes>>
        /\ walOrders' = IF walWork[t] \in Quotes THEN Append(walOrders, walWork[t]) ELSE walOrders
    BY <1>4 DEF Wallet!Use
  <2>2. CASE walWork[t] \in Quotes
    BY <2>1, <2>2, OrderIsSent DEF Working
  <2>3. CASE walWork[t] \notin Quotes
    <3>1. \A q \in Quotes : \A u \in Threads : Working(u, q)' => Working(u, q)
      BY <2>1 DEF Typed, Working
    <3> QED
      BY <2>1, <2>3, <3>1, NobodyStarts
  <2> QED
    BY <2>2, <2>3
<1>5. ASSUME NEW q \in Quotes, Wallet!GetQuote(q) \/ Wallet!Expire(q) PROVE OneOrderEach'
  <2>1. /\ walQuotes[q] # "taken" /\ UNCHANGED <<walPc, walWork, walOrders>>
        /\ \E s \in {"live", "expired"} : walQuotes' = [walQuotes EXCEPT ![q] = s]
    BY <1>5 DEF Wallet!GetQuote, Wallet!Expire
  <2>2. \A r \in Quotes : walQuotes'[r] # "taken" => walQuotes[r] # "taken"
    BY <2>1 DEF Typed
  <2> QED
    BY <2>1, <2>2, NobodyStarts DEF Working
<1>6. CASE Wallet!GrowStale \/ Wallet!Close
  BY <1>6, NobodyStarts DEF Wallet!GrowStale, Wallet!Close, Wallet!book, Working
<1> QED
  BY <1>1, <1>2, <1>3, <1>4, <1>5, <1>6 DEF Wallet!Next

(* A set whose members are equal has at most one.                           *)
LEMMA AtMostOne ==
  ASSUME NEW S, \A x \in S : \A y \in S : x = y PROVE Cardinality(S) <= 1
<1>1. CASE S = {}
  BY <1>1, FS_EmptySet
<1>2. CASE S # {}
  <2>1. PICK x \in S : TRUE
    BY <1>2
  <2>2. S = {x}
    BY <2>1
  <2> QED
    BY <2>2, FS_Singleton
<1> QED
  BY <1>1, <1>2

(* Every step keeps both.                                                   *)
LEMMA WalStep == ASSUME WalInv, [Wallet!Next]_Wallet!vars PROVE WalInv'
<1>1. CASE Wallet!Next
  BY <1>1, FlagsStep, ConnectionsStep, QuotesStep DEF WalInv
<1>2. CASE UNCHANGED Wallet!vars
  BY <1>2 DEF WalInv, Wallet!vars, Flags, Typed, Connections, OneOrderEach, Working
<1> QED
  BY <1>1, <1>2

(* The invariant says what the runs check.                                  *)
LEMMA WalIsSafe == WalInv => Wallet!TradesOnItsOwnClient /\ Wallet!QuoteIsUsedOnce
<1> SUFFICES ASSUME WalInv PROVE Wallet!TradesOnItsOwnClient /\ Wallet!QuoteIsUsedOnce
  OBVIOUS
<1>1. Wallet!TradesOnItsOwnClient
  BY WalletTypes DEF WalInv, Connections, Wallet!TradesOnItsOwnClient
<1>2. ASSUME NEW q \in Quotes
      PROVE  /\ Wallet!Cardinality({i \in 1..Len(walOrders) : walOrders[i] = q}) <= 1
             /\ Wallet!Cardinality({t \in Threads : walPc[t] # "idle" /\ walWork[t] = q}) <= 1
  <2> DEFINE sent == {i \in 1..Len(walOrders) : walOrders[i] = q}
             workers == {t \in Threads : walPc[t] # "idle" /\ walWork[t] = q}
  <2>1. \A i \in sent : \A j \in sent : i = j
    BY DEF WalInv, OneOrderEach
  <2>2. \A t \in workers : \A u \in workers : t = u
    BY DEF WalInv, OneOrderEach, Working
  <2> HIDE DEF sent, workers
  <2>3. Cardinality(sent) <= 1 /\ Cardinality(workers) <= 1
    BY <2>1, <2>2, AtMostOne
  <2> QED
    BY <2>3 DEF sent, workers, Cardinality, Wallet!Cardinality
<1> QED
  BY <1>1, <1>2 DEF Wallet!QuoteIsUsedOnce

(* An order goes out on a connection whose wallet is deployed, the thread   *)
(* that connects owns the outermost patch, and a quote becomes one order at *)
(* most (_polymarket/write.py:118-341).                                     *)
THEOREM OrdersAreSafe == Wallet!Spec => [](Wallet!TradesOnItsOwnClient /\ Wallet!QuoteIsUsedOnce)
  BY WalInit, WalStep, WalIsSafe, PTL DEF Wallet!Spec

----------------------------------------------------------------------------
(* ---- Money on its way: what the panel says ---- *)

(* What the panel may say of a deposit, by what it last read. *)
True(d, state) ==
  CASE state = "arrived" -> monKind[d] = "good" /\ monChain[d] = "deep"
                              /\ (Money!Twin(d) \/ monRoute[d] = "COMPLETED")
    [] state = "failed" -> monChain[d] = "reverted" \/ Money!Twin(d) \/ monRoute[d] = "FAILED"
    [] state \in {"wrong_target", "wrong_token"} -> monKind[d] # "good"
    [] state = "confirming" -> monChain[d] # "unsent"
    [] OTHER -> state \in {"", "not_found"}

Truths == {c \in Deposits \X Money!States : True(c[1], c[2])}

(* A bridge knows only what was mined, and what never left has no fault. *)
OnTheWay ==
  \A d \in Deposits :
    /\ monRoute[d] # "none" => monChain[d] \in {"mined", "deep"}
    /\ monKind[d] # "good" => monChain[d] # "unsent"

(* What was read stays true until it is written, and what is followed is    *)
(* what was read of it.                                                     *)
ReadingsHold ==
  /\ \A p \in Pages : monPage[p].txid # None => <<monPage[p].txid, monPage[p].state>> \in Truths
  /\ monAsking.txid # None /\ monAsking.state # "error" => <<monAsking.txid, monAsking.state>> \in Truths
  /\ monWatched.txid # None /\ ~monMixed => <<monWatched.txid, monWatched.state>> \in Truths
  /\ \A p \in Pages : monPage[p].txid = None => monPage[p] = Money!Unread
  /\ monAsking.txid = None => monAsking = Money!Unread

MoneyInv == Money!TypeOK /\ OnTheWay /\ ReadingsHold

(* The panel says nothing at first.                                         *)
LEMMA MoneyInit == Money!Init => MoneyInv
<1> SUFFICES ASSUME Money!Init PROVE MoneyInv
  OBVIOUS
<1> USE TradingAssumption DEF Money!Init, Money!BridgeAssumption, Money!Unread
<1>1. monMixed \in BOOLEAN
  OBVIOUS
<1>2. monChain \in [Deposits -> {"unsent", "pending", "mined", "deep", "reverted"}]
  OBVIOUS
<1>3. monKind \in [Deposits -> {"good", "target", "token"}]
  OBVIOUS
<1>4. monRoute \in [Deposits -> {"none", "PROCESSING", "COMPLETED", "FAILED"}]
  OBVIOUS
<1>5. monOut \in [DOMAIN Withdrawals -> {"none", "checked", "sent", "ok", "failed", "unknown"}]
  OBVIOUS
<1>6. Money!TypeOK
  <2>1. monCredited \subseteq Deposits /\ monBalance \in Nat
    OBVIOUS
  <2>2. Money!Unread \in Money!Readings
    BY DEF Money!Readings, Money!States
  <2>3. monWatched = Money!Unread /\ monAsking = Money!Unread /\ monPage \in [Pages -> Money!Readings]
    BY <2>2
  <2> HIDE DEF Money!Init, Money!Unread
  <2> QED
    BY <1>1, <1>2, <1>3, <1>4, <1>5, <2>1, <2>2, <2>3 DEF Money!TypeOK
<1>7. OnTheWay /\ ReadingsHold
  BY DEF OnTheWay, ReadingsHold
<1> QED
  BY <1>6, <1>7 DEF MoneyInv

(* The world only moves forward: what was true of a deposit stays true. *)
LEMMA TrueStays ==
  ASSUME MoneyInv, Money!Next
  PROVE  Truths \subseteq Truths'
<1>1. ASSUME NEW e \in Deposits
      PROVE  /\ monChain[e] # "unsent" => monChain'[e] # "unsent" /\ monKind'[e] = monKind[e]
             /\ monChain[e] \in {"deep", "reverted"} => monChain'[e] = monChain[e]
             /\ monRoute[e] # "none" => monRoute'[e] # "none"
             /\ monRoute[e] \in {"COMPLETED", "FAILED"} => monRoute'[e] = monRoute[e]
  BY DEF MoneyInv, Money!TypeOK, Money!Next, Money!Send, Money!Advance, Money!BridgeMoves, Money!Credit, Money!Ask,
         Money!Answer, Money!Dismiss, Money!WatchReads, Money!WatchWrites, Money!Spend, Money!Withdraw,
         Money!RouteFails, Money!TransferOut, Money!WithdrawAnswers, Money!outside
<1>2. ASSUME NEW d \in Deposits
      PROVE  Money!Twin(d) => Money!Twin(d)'
  BY <1>1 DEF MoneyInv, OnTheWay, Money!TypeOK, Money!Twin, Money!Matches
<1> QED
  BY <1>1, <1>2 DEF Truths, True, MoneyInv, OnTheWay, Money!TypeOK

(* The page reads what is true. *)
LEMMA StatusIsTrue ==
  ASSUME MoneyInv, NEW d \in Deposits, NEW s \in Money!Status(d)
  PROVE  <<d, s>> \in Truths /\ s # "error"
<1> USE DEF MoneyInv, Money!TypeOK, OnTheWay, Money!Status, Money!Arrived
<1>1. CASE monChain[d] \in {"unsent", "pending", "reverted"}
  <2>1. \/ monChain[d] = "unsent" /\ s = "not_found"
        \/ monChain[d] = "pending" /\ s \in {"not_found", "confirming"}
        \/ monChain[d] = "reverted" /\ s = "failed"
    BY <1>1
  <2> QED
    BY <2>1 DEF Truths, True, Money!States
<1>2. CASE monChain[d] \in {"mined", "deep"} /\ (monKind[d] # "good" \/ monChain[d] = "mined" \/ Money!Matches(d) = {})
  BY <1>2 DEF Truths, True, Money!States
<1>3. CASE monChain[d] = "deep" /\ monKind[d] = "good" /\ Money!Matches(d) # {}
  <2>1. s = IF \E e \in Money!Matches(d) : monRoute[e] = "FAILED" THEN "failed"
            ELSE IF \E e \in Money!Matches(d) : monRoute[e] = "COMPLETED" THEN "arrived" ELSE "confirming"
    BY <1>3
  <2>2. ASSUME NEW e \in Money!Matches(d)
        PROVE  e = d \/ Money!Twin(d)
    BY DEF Money!Twin
  <2> QED
    BY <1>3, <2>1, <2>2 DEF Truths, True, Money!States
<1> QED
  BY <1>1, <1>2, <1>3

(* Every step keeps the types.                                              *)
LEMMA MoneyTyped == ASSUME MoneyInv, Money!Next PROVE Money!TypeOK'
<1> USE DEF MoneyInv, Money!TypeOK
<1>1. /\ monChain' \in [Deposits -> {"unsent", "pending", "mined", "deep", "reverted"}]
      /\ monKind' \in [Deposits -> {"good", "target", "token"}]
      /\ monRoute' \in [Deposits -> {"none", "PROCESSING", "COMPLETED", "FAILED"}]
  BY DEF Money!Next, Money!Send, Money!Advance, Money!BridgeMoves, Money!Credit, Money!Ask,
         Money!Answer, Money!Dismiss, Money!WatchReads, Money!WatchWrites, Money!Spend, Money!Withdraw,
         Money!RouteFails, Money!TransferOut, Money!WithdrawAnswers, Money!outside
<1>2. monCredited' \subseteq Deposits
  BY DEF Money!Next, Money!Send, Money!Advance, Money!BridgeMoves, Money!Credit, Money!Ask,
         Money!Answer, Money!Dismiss, Money!WatchReads, Money!WatchWrites, Money!Spend, Money!Withdraw,
         Money!RouteFails, Money!TransferOut, Money!WithdrawAnswers, Money!outside
<1>3. monBalance' \in Nat
  BY TradingAssumption
     DEF Money!Next, Money!Send, Money!Advance, Money!BridgeMoves, Money!Credit, Money!Ask,
         Money!Answer, Money!Dismiss, Money!WatchReads, Money!WatchWrites, Money!Spend, Money!Withdraw,
         Money!RouteFails, Money!TransferOut, Money!WithdrawAnswers, Money!BridgeAssumption
<1>4. monOut' \in [DOMAIN Withdrawals -> {"none", "checked", "sent", "ok", "failed", "unknown"}]
  BY DEF Money!Next, Money!Send, Money!Advance, Money!BridgeMoves, Money!Credit, Money!Ask,
         Money!Answer, Money!Dismiss, Money!WatchReads, Money!WatchWrites, Money!Spend, Money!Withdraw,
         Money!RouteFails, Money!TransferOut, Money!WithdrawAnswers
<1>5. monMixed' \in BOOLEAN
  <2>1. CASE \E p \in Pages : Money!WatchWrites(p)
    BY <2>1 DEF Money!WatchWrites
  <2>2. CASE ~\E p \in Pages : Money!WatchWrites(p)
    BY <2>2 DEF Money!Next, Money!Send, Money!Advance, Money!BridgeMoves, Money!Credit, Money!Ask,
         Money!Answer, Money!Dismiss, Money!WatchReads, Money!Spend, Money!Withdraw,
         Money!RouteFails, Money!TransferOut, Money!WithdrawAnswers, Money!panel
  <2> QED
    BY <2>1, <2>2
<1>6. monWatched' \in Money!Readings /\ monAsking' \in Money!Readings /\ monPage' \in [Pages -> Money!Readings]
  <2>1. \A d \in Deposits : \A s \in Money!Status(d) : s \in Money!States
    BY StatusIsTrue DEF MoneyInv, Truths
  <2>2. Money!Unread \in Money!Readings /\ "error" \in Money!States
    BY DEF Money!Unread, Money!Readings, Money!States
  <2>3. CASE \E d \in Deposits : Money!Ask(d)
    BY <2>1, <2>2, <2>3 DEF Money!Ask, Money!Readings
  <2>4. CASE Money!Answer \/ Money!Dismiss
    BY <2>2, <2>4 DEF Money!Answer, Money!Dismiss, Money!Readings
  <2>5. CASE \E p \in Pages : Money!WatchReads(p)
    BY <2>1, <2>5 DEF Money!WatchReads, Money!Readings
  <2>6. CASE \E p \in Pages : Money!WatchWrites(p)
    BY <2>2, <2>6 DEF Money!WatchWrites, Money!Readings
  <2>7. CASE UNCHANGED <<monWatched, monAsking, monPage>>
    BY <2>7
  <2> QED
    BY <2>3, <2>4, <2>5, <2>6, <2>7
       DEF Money!Next, Money!Send, Money!Advance, Money!BridgeMoves, Money!Credit, Money!Spend, Money!Withdraw,
           Money!RouteFails, Money!TransferOut, Money!WithdrawAnswers, Money!panel
<1> QED
  BY <1>1, <1>2, <1>3, <1>4, <1>5, <1>6

(* Every step keeps what the panel says true (_polymarket/write.py:420-720). *)
LEMMA MoneyStep == ASSUME MoneyInv, Money!Next PROVE MoneyInv'
<1>1. Money!TypeOK'
  BY MoneyTyped
<1>2. OnTheWay'
  BY DEF OnTheWay, MoneyInv, Money!TypeOK, Money!Next, Money!Send, Money!Advance, Money!BridgeMoves, Money!Credit,
         Money!Ask, Money!Answer, Money!Dismiss, Money!WatchReads, Money!WatchWrites, Money!Spend, Money!Withdraw,
         Money!RouteFails, Money!TransferOut, Money!WithdrawAnswers, Money!outside
<1>3. ReadingsHold'
  <2>1. None \notin Deposits /\ Truths \subseteq Truths'
    BY TradingAssumption, TrueStays DEF Money!BridgeAssumption
  <2>2. \A d \in Deposits : \A s \in Money!Status(d) : <<d, s>> \in Truths /\ s # "error"
    BY StatusIsTrue
  <2>3. /\ monWatched \in Money!Readings /\ monAsking \in Money!Readings
        /\ monPage \in [Pages -> Money!Readings]
    BY DEF MoneyInv, Money!TypeOK
  <2>4. ReadingsHold
    BY DEF MoneyInv
  <2> USE <2>1, <2>2, <2>3, <2>4 DEF ReadingsHold, Money!Readings
  <2>5. CASE \E d \in Deposits : Money!Ask(d)
    BY <2>5 DEF Money!Ask
  <2>6. CASE Money!Answer
    BY <2>6 DEF Money!Answer, Money!Unread
  <2>7. CASE Money!Dismiss
    BY <2>7 DEF Money!Dismiss, Money!Unread
  <2>8. CASE \E p \in Pages : Money!WatchReads(p)
    <3>1. PICK p \in Pages : Money!WatchReads(p)
      BY <2>8
    <3>2. PICK s \in Money!Status(monWatched.txid) : monPage'[p] = [txid |-> monWatched.txid, state |-> s]
      BY <3>1 DEF Money!WatchReads
    <3>3. \A q \in Pages : q # p => monPage'[q] = monPage[q]
      BY <3>1 DEF Money!WatchReads
    <3>4. UNCHANGED <<monWatched, monAsking, monMixed>> /\ monWatched.txid \in Deposits
      BY <3>1 DEF Money!WatchReads
    <3>5. \A q \in Pages : monPage'[q].txid # None => <<monPage'[q].txid, monPage'[q].state>> \in Truths'
      BY <3>2, <3>3, <3>4
    <3>6. \A q \in Pages : monPage'[q].txid = None => monPage'[q] = Money!Unread
      BY <3>2, <3>3, <3>4
    <3>7. monWatched'.txid # None /\ ~monMixed' => <<monWatched'.txid, monWatched'.state>> \in Truths'
      BY <3>2, <3>3, <3>4
    <3> QED
      BY <3>2, <3>3, <3>4, <3>5, <3>6, <3>7 DEF Money!Unread
  <2>9. CASE \E p \in Pages : Money!WatchWrites(p)
    <3>1. PICK p \in Pages : Money!WatchWrites(p)
      BY <2>9
    <3>2. /\ monPage'[p] = Money!Unread /\ monPage[p].txid \in Deposits
          /\ monWatched'.txid = monWatched.txid /\ monWatched'.state = monPage[p].state
          /\ ~monMixed' => monPage[p].txid = monWatched.txid
          /\ UNCHANGED monAsking
      BY <3>1 DEF Money!WatchWrites
    <3>3. \A q \in Pages : q # p => monPage'[q] = monPage[q]
      BY <3>1 DEF Money!WatchWrites
    <3>a. Money!Unread.txid = None
      BY DEF Money!Unread
    <3>4. monPage'[p].txid = None
      BY <3>2, <3>a
    <3>5. ASSUME NEW q \in Pages, monPage'[q].txid # None
          PROVE  <<monPage'[q].txid, monPage'[q].state>> \in Truths'
      <4>1. monPage'[q] = monPage[q]
        BY <3>3, <3>4, <3>5
      <4> QED
        BY <3>5, <4>1
    <3>6. \A q \in Pages : monPage'[q].txid = None => monPage'[q] = Money!Unread
      BY <3>2, <3>3 DEF Money!Unread
    <3>7. monWatched'.txid # None /\ ~monMixed' => <<monWatched'.txid, monWatched'.state>> \in Truths'
      BY <3>2, <3>3
    <3> QED
      BY <3>2, <3>3, <3>5, <3>6, <3>7 DEF Money!Unread
  <2>10. CASE UNCHANGED <<monWatched, monAsking, monPage, monMixed>>
    BY <2>10 DEF Money!Unread
  <2> QED
    BY <2>5, <2>6, <2>7, <2>8, <2>9, <2>10
       DEF Money!Next, Money!Send, Money!Advance, Money!BridgeMoves, Money!Credit, Money!Spend, Money!Withdraw,
           Money!RouteFails, Money!TransferOut, Money!WithdrawAnswers, Money!panel
<1> QED
  BY <1>1, <1>2, <1>3 DEF MoneyInv

(* What the panel says of the deposit it follows is true, for any number of *)
(* deposits, page requests and withdrawals (_polymarket/write.py:420-720).  *)
THEOREM PanelIsTrue == Money!Spec => []Money!PanelTellsTheTruth
<1>1. MoneyInv => Money!PanelTellsTheTruth
  BY DEF MoneyInv, ReadingsHold, Truths, True, Money!PanelTellsTheTruth
<1>2. MoneyInv /\ UNCHANGED Money!vars => MoneyInv'
  <2> SUFFICES ASSUME MoneyInv, UNCHANGED Money!vars PROVE MoneyInv'
    OBVIOUS
  <2> USE DEF MoneyInv, Money!vars
  <2>1. Money!TypeOK' /\ OnTheWay'
    BY DEF Money!TypeOK, OnTheWay
  <2>2. Truths' = Truths
    BY DEF Truths, True, Money!Twin, Money!Matches
  <2> QED
    BY <2>1, <2>2 DEF ReadingsHold, Money!Unread
<1>3. MoneyInv /\ [Money!Next]_Money!vars => MoneyInv'
  BY <1>2, MoneyStep
<1> QED
  BY <1>1, <1>3, MoneyInit, PTL DEF Money!Spec

----------------------------------------------------------------------------
(* ---- the four machines beside each other ---- *)
LEMMA EachMachineIsItself ==
  /\ EveryInit => Init /\ Gate!Init /\ Wallet!Init /\ Money!Init
  /\ [EveryNext]_<<part, vars, gateVars, walVars, monVars>> =>
       [Next]_vars /\ [Gate!Next]_Gate!vars /\ [Wallet!Next]_Wallet!vars /\ [Money!Next]_Money!vars
<1>1. EveryInit => Init /\ Gate!Init /\ Wallet!Init /\ Money!Init
  BY DEF EveryInit
<1>2. gateVars = Gate!vars /\ walVars = Wallet!vars /\ monVars = Money!vars
  BY DEF gateVars, walVars, monVars, Gate!vars, Wallet!vars, Money!vars
<1>3. gateVars' = Gate!vars' /\ walVars' = Wallet!vars' /\ monVars' = Money!vars'
  BY DEF gateVars, walVars, monVars, Gate!vars, Wallet!vars, Money!vars
<1> SUFFICES ASSUME [EveryNext]_<<part, vars, gateVars, walVars, monVars>>
             PROVE  /\ Next \/ vars' = vars
                    /\ Gate!Next \/ Gate!vars' = Gate!vars
                    /\ Wallet!Next \/ Wallet!vars' = Wallet!vars
                    /\ Money!Next \/ Money!vars' = Money!vars
  BY <1>1
<1>4. /\ Next \/ vars' = vars
      /\ Gate!Next \/ gateVars' = gateVars
      /\ Wallet!Next \/ walVars' = walVars
      /\ Money!Next \/ monVars' = monVars
  BY DEF EveryNext
<1> QED
  BY <1>2, <1>3, <1>4

(* Nothing a rule refuses takes effect, whatever else the engine does        *)
(* (core/risk.py:70-118, market_guard.py:60-120, paper_trading.py:66-94).   *)
THEOREM GateHolds == EverySpec => []OnlyWhatTheRulesAllow
<1>1. Gate!OnlyWhatTheRulesAllow => OnlyWhatTheRulesAllow
  BY DEF OnlyWhatTheRulesAllow
<1> QED
  BY <1>1, EachMachineIsItself, RulesAreObeyed, PTL DEF EverySpec, Gate!Spec

(* An order goes out on a connection built for trading, and a quote becomes *)
(* one order at most (_polymarket/write.py:118-341).                        *)
THEOREM OrdersHold == EverySpec => []OrdersUseTheirClient
<1>1. Wallet!TradesOnItsOwnClient /\ Wallet!QuoteIsUsedOnce => OrdersUseTheirClient
  BY DEF OrdersUseTheirClient
<1> QED
  BY <1>1, EachMachineIsItself, OrdersAreSafe, PTL DEF EverySpec, Wallet!Spec

(* What the panel says of a deposit is true                                 *)
(* (_polymarket/write.py:420-720).                                          *)
THEOREM PanelHolds == EverySpec => []PanelTellsTheTruth
<1>1. Money!PanelTellsTheTruth => PanelTellsTheTruth
  BY DEF PanelTellsTheTruth
<1> QED
  BY <1>1, EachMachineIsItself, PanelIsTrue, PTL DEF EverySpec, Money!Spec
==============================================================================
