-------------------------- MODULE EventChainProofs --------------------------
(***************************************************************************)
(* For every set of instances and workers and however the server, the      *)
(* stream and the sweeps go on: a read that is owed is in one place and    *)
(* one only; nothing is told of an instance before what its project sets   *)
(* is known; and the fleet is not taken for whole before everybody in it   *)
(* was told of.                                                            *)
(***************************************************************************)
EXTENDS EventChain, FiniteSetTheorems, WellFoundedInduction, TLAPS

-----------------------------------------------------------------------------
(* Folds.  The library's induction takes an operator, so each fold here is *)
(* brought back to a function and induction to a least counterexample.     *)

(* Some numbers have a least. *)
LEMMA LeastNat ==
    ASSUME NEW B \in SUBSET Nat, B # {}
    PROVE  \E b \in B : \A m \in B : b <= m
<1>1. IsWellFoundedOn(OpToRel(<, Nat), Nat)
  BY NatLessThanWellFounded
<1>2. PICK b \in B : \A m \in B : ~(<<m, b>> \in OpToRel(<, Nat))
  BY <1>1, WFMin
<1>3. \A m \in B : ~(m < b)
  BY <1>2 DEF OpToRel
<1>4. QED
  BY <1>3

(* A set of numbers that has 0, and with each number the next one up to n, *)
(* has n.                                                                  *)
LEMMA UpTo ==
    ASSUME NEW n \in Nat, NEW T, 0 \in T, \A m \in 1..n : m - 1 \in T => m \in T
    PROVE  n \in T
<1> DEFINE B == {m \in Nat : m \in 0..n /\ m \notin T}
<1>1. SUFFICES ASSUME B # {} PROVE FALSE
  OBVIOUS
<1>2. PICK b \in B : \A m \in B : b <= m
  <2> HIDE DEF B
  <2>1. B \in SUBSET Nat
    BY DEF B
  <2>2. QED
    BY <1>1, <2>1, LeastNat
<1>3. b - 1 \in T /\ b \in 1..n
  BY <1>2
<1>4. QED
  BY <1>2, <1>3

(* The largest number of an initial segment is its end. *)
LEMMA MaxUpTo ==
    ASSUME NEW m \in Nat \ {0}
    PROVE  Max(1..m) = m /\ (1..m) \ {m} = 1..(m - 1)
<1>1. \A x \in 1..m : (\A y \in 1..m : x >= y) <=> x = m
  OBVIOUS
<1>2. m \in 1..m
  OBVIOUS
<1>3. QED
  BY <1>1, <1>2 DEF Max

(* Some numbers up to a bound have a largest. *)
LEMMA MaxIn ==
    ASSUME NEW n \in Nat, NEW U \in SUBSET (1..n), U # {}
    PROVE  Max(U) \in U /\ \A y \in U : Max(U) >= y
<1> DEFINE T == {m \in 0..n : U \intersect 1..m # {} =>
                     \E x \in U \intersect 1..m : \A y \in U \intersect 1..m : x >= y}
<1>1. 0 \in T
  OBVIOUS
<1>2. ASSUME NEW m \in 1..n, m - 1 \in T PROVE m \in T
  <2>1. CASE m \in U
    BY <2>1
  <2>2. CASE m \notin U
    <3>1. U \intersect 1..m = U \intersect 1..(m - 1)
      BY <2>2
    <3>2. QED
      BY <1>2, <3>1
  <2>3. QED
    BY <2>1, <2>2
<1>3. n \in T
  <2> HIDE DEF T
  <2>1. QED
    BY <1>1, <1>2, UpTo
<1>4. \E x \in U : \A y \in U : x >= y
  <2>1. U \intersect 1..n = U
    OBVIOUS
  <2>2. QED
    BY <1>3, <2>1
<1>5. QED
  BY <1>4 DEF Max

(* The table of a fold: what it comes to over each set of positions. *)
IsTable(it, S, n, seq, base, F) ==
    /\ it \in [SUBSET (1..n) -> S]
    /\ \A U \in SUBSET (1..n) :
          it[U] = IF U = {} THEN base ELSE F[<<it[U \ {Max(U)}], seq[Max(U)]>>]

(* A fold's table exists when its step is a function: over the subsets of  *)
(* one more position it is the old one, and one step more.                 *)
LEMMA FoldTable ==
    ASSUME NEW S, NEW K, NEW n \in Nat, NEW seq \in [1..n -> K], NEW base \in S,
           NEW F \in [S \X K -> S]
    PROVE  \E it : IsTable(it, S, n, seq, base, F)
<1> DEFINE Table(it, m) ==
        /\ it \in [SUBSET (1..m) -> S]
        /\ \A U \in SUBSET (1..m) :
              it[U] = IF U = {} THEN base ELSE F[<<it[U \ {Max(U)}], seq[Max(U)]>>]
           T == {m \in 0..n : \E it : Table(it, m)}
<1>1. 0 \in T
  <2> DEFINE it == [U \in SUBSET (1..0) |-> base]
  <2>1. Table(it, 0)
    BY 1..0 = {}
  <2> HIDE DEF it, Table
  <2>2. QED
    BY <2>1
<1>2. ASSUME NEW m \in 1..n, m - 1 \in T
      PROVE  m \in T
  <2>1. PICK old : Table(old, m - 1)
    BY <1>2
  <2> DEFINE it == [U \in SUBSET (1..m) |->
                      IF m \in U THEN F[<<old[U \ {m}], seq[m]>>] ELSE old[U]]
  <2>2. \A U \in SUBSET (1..m) : m \in U => Max(U) = m /\ U \ {m} \in SUBSET (1..(m - 1))
    <3> SUFFICES ASSUME NEW U \in SUBSET (1..m), m \in U
                 PROVE  Max(U) = m /\ U \ {m} \in SUBSET (1..(m - 1))
      OBVIOUS
    <3>1. \A x \in U : (\A y \in U : x >= y) <=> x = m
      OBVIOUS
    <3>2. Max(U) = m
      BY <3>1 DEF Max
    <3>3. QED
      BY <3>2
  <2>3. \A U \in SUBSET (1..m) : m \notin U => U \in SUBSET (1..(m - 1))
    OBVIOUS
  <2>4. it \in [SUBSET (1..m) -> S]
    <3> SUFFICES ASSUME NEW U \in SUBSET (1..m)
                 PROVE  (IF m \in U THEN F[<<old[U \ {m}], seq[m]>>] ELSE old[U]) \in S
      OBVIOUS
    <3>1. CASE m \in U
      <4>1. old[U \ {m}] \in S
        BY <2>1, <2>2, <3>1
      <4>2. seq[m] \in K
        OBVIOUS
      <4>3. QED
        BY <3>1, <4>1, <4>2
    <3>2. CASE m \notin U
      BY <2>1, <2>3, <3>2
    <3>3. QED
      BY <3>1, <3>2
  <2>5. ASSUME NEW U \in SUBSET (1..m)
        PROVE  it[U] = IF U = {} THEN base ELSE F[<<it[U \ {Max(U)}], seq[Max(U)]>>]
    <3>1. CASE m \in U
      <4>1. Max(U) = m /\ U \ {m} \in SUBSET (1..(m - 1)) /\ U \ {m} \in SUBSET (1..m)
        BY <2>2, <3>1
      <4>2. it[U \ {m}] = old[U \ {m}]
        BY <4>1
      <4>3. it[U] = F[<<old[U \ {m}], seq[m]>>]
        BY <3>1
      <4>4. QED
        BY <3>1, <4>1, <4>2, <4>3
    <3>2. CASE m \notin U
      <4>1. U \in SUBSET (1..(m - 1))
        BY <2>3, <3>2
      <4>2. U \ {Max(U)} \in SUBSET (1..m) /\ m \notin U \ {Max(U)}
        BY <3>2
      <4>3. it[U] = old[U] /\ it[U \ {Max(U)}] = old[U \ {Max(U)}]
        BY <3>2, <4>2
      <4>4. QED
        BY <2>1, <4>1, <4>3
    <3>3. QED
      BY <3>1, <3>2
  <2>6. Table(it, m)
    BY <2>4, <2>5
  <2> HIDE DEF it, Table
  <2>7. QED
    BY <2>6
<1>3. n \in T
  <2> HIDE DEF T
  <2>1. QED
    BY <1>1, <1>2, UpTo
<1>4. QED
  BY <1>3 DEF IsTable

(* A fold's table leads from set to set: at the end it is in the last.     *)
LEMMA FoldReach ==
    ASSUME NEW n \in Nat, NEW it, NEW J, it[{}] \in J[0],
           \A m \in 1..n : it[1..(m - 1)] \in J[m - 1] => it[1..m] \in J[m]
    PROVE  it[1..n] \in J[n]
<1> DEFINE T == {m \in 0..n : it[1..m] \in J[m]}
<1>1. 0 \in T
  BY 1..0 = {}
<1>2. \A m \in 1..n : m - 1 \in T => m \in T
  OBVIOUS
<1> HIDE DEF T
<1>3. n \in T
  BY <1>1, <1>2, UpTo
<1>4. QED
  BY <1>3 DEF T

OfferEach(base, seq) ==
    FoldLeft(LAMBDA t, k : Offer(t, k), base, seq)

(* What is offered to the pool, key after key. *)
LEMMA OfferFold ==
    ASSUME NEW S, NEW n \in Nat, NEW seq \in [1..n -> Keys], NEW base \in S,
           \A t \in S, k \in Keys : Offer(t, k) \in S,
           NEW J, base \in J[0],
           \A m \in 1..n : \A t \in J[m - 1] : Offer(t, seq[m]) \in J[m]
    PROVE  OfferEach(base, seq) \in J[n]
<1> DEFINE Step(t, k) == Offer(t, k)
           Eq(g) == g = [U \in SUBSET DOMAIN seq |->
                           IF U = {} THEN base ELSE Step(g[U \ {Max(U)}], seq[Max(U)])]
           it == CHOOSE g : Eq(g)
           F == [p \in S \X Keys |-> Step(p[1], p[2])]
<1>1. OfferEach(base, seq) = it[DOMAIN seq]
  BY DEF OfferEach, FoldLeft, MapThenFoldSet
<1>2. \A t \in S, k \in Keys : Step(t, k) \in S
  OBVIOUS
<1>3. \A m \in 1..n : \A t \in J[m - 1] : Step(t, seq[m]) \in J[m]
  OBVIOUS
<1> HIDE DEF Step
<1>4. F \in [S \X Keys -> S] /\ \A t \in S, k \in Keys : F[<<t, k>>] = Step(t, k)
  BY <1>2
<1>5. Eq(it)
  <2> HIDE DEF F
  <2>1. PICK g : IsTable(g, S, n, seq, base, F)
    BY <1>4, FoldTable
  <2>2. ASSUME NEW U \in SUBSET (1..n), U # {}
        PROVE  g[U] = Step(g[U \ {Max(U)}], seq[Max(U)])
    BY <1>4, <2>1, <2>2, MaxIn DEF IsTable
  <2>3. Eq(g)
    BY <2>1, <2>2 DEF IsTable
  <2>4. QED
    BY <2>3
<1> HIDE DEF it
<1>6. it[{}] \in J[0]
  BY <1>5
<1>7. ASSUME NEW m \in 1..n, it[1..(m - 1)] \in J[m - 1]
      PROVE  it[1..m] \in J[m]
  <2>1. Max(1..m) = m /\ (1..m) \ {m} = 1..(m - 1)
    BY MaxUpTo
  <2>2. 1..m \in SUBSET DOMAIN seq /\ m \in 1..m
    OBVIOUS
  <2>3. it[1..m] = Step(it[1..(m - 1)], seq[m])
    BY <1>5, <2>1, <2>2
  <2>4. QED
    BY <1>3, <1>7, <2>3
<1>8. it[1..n] \in J[n]
  BY <1>6, <1>7, FoldReach
<1>9. QED
  BY <1>1, <1>8

CopyEach(base, seq, out) ==
    FoldLeft(LAMBDA kept, j : (IF j = out THEN kept ELSE Append(kept, j)), base, seq)

(* What is copied from a list, all but one key. *)
LEMMA CopyFold ==
    ASSUME NEW out, NEW S, NEW n \in Nat, NEW seq \in [1..n -> Keys], NEW base \in S,
           \A t \in S, k \in Keys : (IF k = out THEN t ELSE Append(t, k)) \in S,
           NEW J, base \in J[0],
           \A m \in 1..n : \A t \in J[m - 1] : (IF seq[m] = out THEN t ELSE Append(t, seq[m])) \in J[m]
    PROVE  CopyEach(base, seq, out) \in J[n]
<1> DEFINE Step(t, k) == (IF k = out THEN t ELSE Append(t, k))
           Eq(g) == g = [U \in SUBSET DOMAIN seq |->
                           IF U = {} THEN base ELSE Step(g[U \ {Max(U)}], seq[Max(U)])]
           it == CHOOSE g : Eq(g)
           F == [p \in S \X Keys |-> Step(p[1], p[2])]
<1>1. CopyEach(base, seq, out) = it[DOMAIN seq]
  BY DEF CopyEach, FoldLeft, MapThenFoldSet
<1>2. \A t \in S, k \in Keys : Step(t, k) \in S
  OBVIOUS
<1>3. \A m \in 1..n : \A t \in J[m - 1] : Step(t, seq[m]) \in J[m]
  OBVIOUS
<1> HIDE DEF Step
<1>4. F \in [S \X Keys -> S] /\ \A t \in S, k \in Keys : F[<<t, k>>] = Step(t, k)
  BY <1>2
<1>5. Eq(it)
  <2> HIDE DEF F
  <2>1. PICK g : IsTable(g, S, n, seq, base, F)
    BY <1>4, FoldTable
  <2>2. ASSUME NEW U \in SUBSET (1..n), U # {}
        PROVE  g[U] = Step(g[U \ {Max(U)}], seq[Max(U)])
    BY <1>4, <2>1, <2>2, MaxIn DEF IsTable
  <2>3. Eq(g)
    BY <2>1, <2>2 DEF IsTable
  <2>4. QED
    BY <2>3
<1> HIDE DEF it
<1>6. it[{}] \in J[0]
  BY <1>5
<1>7. ASSUME NEW m \in 1..n, it[1..(m - 1)] \in J[m - 1]
      PROVE  it[1..m] \in J[m]
  <2>1. Max(1..m) = m /\ (1..m) \ {m} = 1..(m - 1)
    BY MaxUpTo
  <2>2. 1..m \in SUBSET DOMAIN seq /\ m \in 1..m
    OBVIOUS
  <2>3. it[1..m] = Step(it[1..(m - 1)], seq[m])
    BY <1>5, <2>1, <2>2
  <2>4. QED
    BY <1>3, <1>7, <2>3
<1>8. it[1..n] \in J[n]
  BY <1>6, <1>7, FoldReach
<1>9. QED
  BY <1>1, <1>8

OwedEach(base, seq) ==
    FoldLeft(LAMBDA t, j : (IF t.calls[j] = None THEN t ELSE Offer(t, j)), base, seq)

(* What is offered to the pool of what is still owed. *)
LEMMA OwedFold ==
    ASSUME NEW S, NEW n \in Nat, NEW seq \in [1..n -> Keys], NEW base \in S,
           \A t \in S, k \in Keys : (IF t.calls[k] = None THEN t ELSE Offer(t, k)) \in S,
           NEW J, base \in J[0],
           \A m \in 1..n : \A t \in J[m - 1] : (IF t.calls[seq[m]] = None THEN t ELSE Offer(t, seq[m])) \in J[m]
    PROVE  OwedEach(base, seq) \in J[n]
<1> DEFINE Step(t, k) == (IF t.calls[k] = None THEN t ELSE Offer(t, k))
           Eq(g) == g = [U \in SUBSET DOMAIN seq |->
                           IF U = {} THEN base ELSE Step(g[U \ {Max(U)}], seq[Max(U)])]
           it == CHOOSE g : Eq(g)
           F == [p \in S \X Keys |-> Step(p[1], p[2])]
<1>1. OwedEach(base, seq) = it[DOMAIN seq]
  BY DEF OwedEach, FoldLeft, MapThenFoldSet
<1>2. \A t \in S, k \in Keys : Step(t, k) \in S
  OBVIOUS
<1>3. \A m \in 1..n : \A t \in J[m - 1] : Step(t, seq[m]) \in J[m]
  OBVIOUS
<1> HIDE DEF Step
<1>4. F \in [S \X Keys -> S] /\ \A t \in S, k \in Keys : F[<<t, k>>] = Step(t, k)
  BY <1>2
<1>5. Eq(it)
  <2> HIDE DEF F
  <2>1. PICK g : IsTable(g, S, n, seq, base, F)
    BY <1>4, FoldTable
  <2>2. ASSUME NEW U \in SUBSET (1..n), U # {}
        PROVE  g[U] = Step(g[U \ {Max(U)}], seq[Max(U)])
    BY <1>4, <2>1, <2>2, MaxIn DEF IsTable
  <2>3. Eq(g)
    BY <2>1, <2>2 DEF IsTable
  <2>4. QED
    BY <2>3
<1> HIDE DEF it
<1>6. it[{}] \in J[0]
  BY <1>5
<1>7. ASSUME NEW m \in 1..n, it[1..(m - 1)] \in J[m - 1]
      PROVE  it[1..m] \in J[m]
  <2>1. Max(1..m) = m /\ (1..m) \ {m} = 1..(m - 1)
    BY MaxUpTo
  <2>2. 1..m \in SUBSET DOMAIN seq /\ m \in 1..m
    OBVIOUS
  <2>3. it[1..m] = Step(it[1..(m - 1)], seq[m])
    BY <1>5, <2>1, <2>2
  <2>4. QED
    BY <1>3, <1>7, <2>3
<1>8. it[1..n] \in J[n]
  BY <1>6, <1>7, FoldReach
<1>9. QED
  BY <1>1, <1>8

FlushEach(base, seq) ==
    FoldLeft(LAMBDA t, k : (IF t.calls[k] = None THEN t
             ELSE Send([t EXCEPT !.calls[k] = None], k, t.calls[k].fan, t.calls[k].wfr)), base, seq)

(* What is sent once more, key after key. *)
LEMMA FlushFold ==
    ASSUME NEW S, NEW n \in Nat, NEW seq \in [1..n -> Keys], NEW base \in S,
           \A t \in S, k \in Keys : (IF t.calls[k] = None THEN t
             ELSE Send([t EXCEPT !.calls[k] = None], k, t.calls[k].fan, t.calls[k].wfr)) \in S,
           NEW J, base \in J[0],
           \A m \in 1..n : \A t \in J[m - 1] : (IF t.calls[seq[m]] = None THEN t
             ELSE Send([t EXCEPT !.calls[seq[m]] = None], seq[m], t.calls[seq[m]].fan, t.calls[seq[m]].wfr)) \in J[m]
    PROVE  FlushEach(base, seq) \in J[n]
<1> DEFINE Step(t, k) == (IF t.calls[k] = None THEN t
             ELSE Send([t EXCEPT !.calls[k] = None], k, t.calls[k].fan, t.calls[k].wfr))
           Eq(g) == g = [U \in SUBSET DOMAIN seq |->
                           IF U = {} THEN base ELSE Step(g[U \ {Max(U)}], seq[Max(U)])]
           it == CHOOSE g : Eq(g)
           F == [p \in S \X Keys |-> Step(p[1], p[2])]
<1>1. FlushEach(base, seq) = it[DOMAIN seq]
  BY DEF FlushEach, FoldLeft, MapThenFoldSet
<1>2. \A t \in S, k \in Keys : Step(t, k) \in S
  OBVIOUS
<1>3. \A m \in 1..n : \A t \in J[m - 1] : Step(t, seq[m]) \in J[m]
  OBVIOUS
<1> HIDE DEF Step
<1>4. F \in [S \X Keys -> S] /\ \A t \in S, k \in Keys : F[<<t, k>>] = Step(t, k)
  BY <1>2
<1>5. Eq(it)
  <2> HIDE DEF F
  <2>1. PICK g : IsTable(g, S, n, seq, base, F)
    BY <1>4, FoldTable
  <2>2. ASSUME NEW U \in SUBSET (1..n), U # {}
        PROVE  g[U] = Step(g[U \ {Max(U)}], seq[Max(U)])
    BY <1>4, <2>1, <2>2, MaxIn DEF IsTable
  <2>3. Eq(g)
    BY <2>1, <2>2 DEF IsTable
  <2>4. QED
    BY <2>3
<1> HIDE DEF it
<1>6. it[{}] \in J[0]
  BY <1>5
<1>7. ASSUME NEW m \in 1..n, it[1..(m - 1)] \in J[m - 1]
      PROVE  it[1..m] \in J[m]
  <2>1. Max(1..m) = m /\ (1..m) \ {m} = 1..(m - 1)
    BY MaxUpTo
  <2>2. 1..m \in SUBSET DOMAIN seq /\ m \in 1..m
    OBVIOUS
  <2>3. it[1..m] = Step(it[1..(m - 1)], seq[m])
    BY <1>5, <2>1, <2>2
  <2>4. QED
    BY <1>3, <1>7, <2>3
<1>8. it[1..n] \in J[n]
  BY <1>6, <1>7, FoldReach
<1>9. QED
  BY <1>1, <1>8

SendEach(base, seq) ==
    FoldLeft(LAMBDA t, i : Send(t, i, TRUE, FALSE), base, seq)

(* What is read for a fan-out, instance after instance. *)
LEMMA SendFold ==
    ASSUME NEW S, NEW n \in Nat, NEW seq \in [1..n -> Instances], NEW base \in S,
           \A t \in S, k \in Instances : Send(t, k, TRUE, FALSE) \in S,
           NEW J, base \in J[0],
           \A m \in 1..n : \A t \in J[m - 1] : Send(t, seq[m], TRUE, FALSE) \in J[m]
    PROVE  SendEach(base, seq) \in J[n]
<1> DEFINE Step(t, k) == Send(t, k, TRUE, FALSE)
           Eq(g) == g = [U \in SUBSET DOMAIN seq |->
                           IF U = {} THEN base ELSE Step(g[U \ {Max(U)}], seq[Max(U)])]
           it == CHOOSE g : Eq(g)
           F == [p \in S \X Instances |-> Step(p[1], p[2])]
<1>1. SendEach(base, seq) = it[DOMAIN seq]
  BY DEF SendEach, FoldLeft, MapThenFoldSet
<1>2. \A t \in S, k \in Instances : Step(t, k) \in S
  OBVIOUS
<1>3. \A m \in 1..n : \A t \in J[m - 1] : Step(t, seq[m]) \in J[m]
  OBVIOUS
<1> HIDE DEF Step
<1>4. F \in [S \X Instances -> S] /\ \A t \in S, k \in Instances : F[<<t, k>>] = Step(t, k)
  BY <1>2
<1>5. Eq(it)
  <2> HIDE DEF F
  <2>1. PICK g : IsTable(g, S, n, seq, base, F)
    BY <1>4, FoldTable
  <2>2. ASSUME NEW U \in SUBSET (1..n), U # {}
        PROVE  g[U] = Step(g[U \ {Max(U)}], seq[Max(U)])
    BY <1>4, <2>1, <2>2, MaxIn DEF IsTable
  <2>3. Eq(g)
    BY <2>1, <2>2 DEF IsTable
  <2>4. QED
    BY <2>3
<1> HIDE DEF it
<1>6. it[{}] \in J[0]
  BY <1>5
<1>7. ASSUME NEW m \in 1..n, it[1..(m - 1)] \in J[m - 1]
      PROVE  it[1..m] \in J[m]
  <2>1. Max(1..m) = m /\ (1..m) \ {m} = 1..(m - 1)
    BY MaxUpTo
  <2>2. 1..m \in SUBSET DOMAIN seq /\ m \in 1..m
    OBVIOUS
  <2>3. it[1..m] = Step(it[1..(m - 1)], seq[m])
    BY <1>5, <2>1, <2>2
  <2>4. QED
    BY <1>3, <1>7, <2>3
<1>8. it[1..n] \in J[n]
  BY <1>6, <1>7, FoldReach
<1>9. QED
  BY <1>1, <1>8

PruneEach(base, seq) ==
    FoldLeft(LAMBDA t, i : Accept(t, NewEvent("deleted", i)), base, seq)

(* What a listing leaves out, instance after instance. *)
LEMMA PruneFold ==
    ASSUME NEW S, NEW K, NEW n \in Nat, NEW seq \in [1..n -> K], NEW base \in S,
           \A t \in S, k \in K : Accept(t, NewEvent("deleted", k)) \in S,
           NEW J, base \in J[0],
           \A m \in 1..n : \A t \in J[m - 1] : Accept(t, NewEvent("deleted", seq[m])) \in J[m]
    PROVE  PruneEach(base, seq) \in J[n]
<1> DEFINE Step(t, k) == Accept(t, NewEvent("deleted", k))
           Eq(g) == g = [U \in SUBSET DOMAIN seq |->
                           IF U = {} THEN base ELSE Step(g[U \ {Max(U)}], seq[Max(U)])]
           it == CHOOSE g : Eq(g)
           F == [p \in S \X K |-> Step(p[1], p[2])]
<1>1. PruneEach(base, seq) = it[DOMAIN seq]
  BY DEF PruneEach, FoldLeft, MapThenFoldSet
<1>2. \A t \in S, k \in K : Step(t, k) \in S
  OBVIOUS
<1>3. \A m \in 1..n : \A t \in J[m - 1] : Step(t, seq[m]) \in J[m]
  OBVIOUS
<1> HIDE DEF Step
<1>4. F \in [S \X K -> S] /\ \A t \in S, k \in K : F[<<t, k>>] = Step(t, k)
  BY <1>2
<1>5. Eq(it)
  <2> HIDE DEF F
  <2>1. PICK g : IsTable(g, S, n, seq, base, F)
    BY <1>4, FoldTable
  <2>2. ASSUME NEW U \in SUBSET (1..n), U # {}
        PROVE  g[U] = Step(g[U \ {Max(U)}], seq[Max(U)])
    BY <1>4, <2>1, <2>2, MaxIn DEF IsTable
  <2>3. Eq(g)
    BY <2>1, <2>2 DEF IsTable
  <2>4. QED
    BY <2>3
<1> HIDE DEF it
<1>6. it[{}] \in J[0]
  BY <1>5
<1>7. ASSUME NEW m \in 1..n, it[1..(m - 1)] \in J[m - 1]
      PROVE  it[1..m] \in J[m]
  <2>1. Max(1..m) = m /\ (1..m) \ {m} = 1..(m - 1)
    BY MaxUpTo
  <2>2. 1..m \in SUBSET DOMAIN seq /\ m \in 1..m
    OBVIOUS
  <2>3. it[1..m] = Step(it[1..(m - 1)], seq[m])
    BY <1>5, <2>1, <2>2
  <2>4. QED
    BY <1>3, <1>7, <2>3
<1>8. it[1..n] \in J[n]
  BY <1>6, <1>7, FoldReach
<1>9. QED
  BY <1>1, <1>8

SettleEach(base, seq, who, landed) ==
    FoldLeft(LAMBDA u, j : (IF u.q[j].st = "wait" /\ u.q[j].ev.who = who
             THEN SettleItem(u, j, landed) ELSE u), base, seq)

(* What is settled, place after place of the line. *)
LEMMA SettleFold ==
    ASSUME NEW who, NEW landed, NEW K, NEW S, NEW n \in Nat, NEW seq \in [1..n -> K], NEW base \in S,
           \A t \in S, k \in K : (IF t.q[k].st = "wait" /\ t.q[k].ev.who = who
             THEN SettleItem(t, k, landed) ELSE t) \in S,
           NEW J, base \in J[0],
           \A m \in 1..n : \A t \in J[m - 1] : (IF t.q[seq[m]].st = "wait" /\ t.q[seq[m]].ev.who = who
             THEN SettleItem(t, seq[m], landed) ELSE t) \in J[m]
    PROVE  SettleEach(base, seq, who, landed) \in J[n]
<1> DEFINE Step(t, k) == (IF t.q[k].st = "wait" /\ t.q[k].ev.who = who
             THEN SettleItem(t, k, landed) ELSE t)
           Eq(g) == g = [U \in SUBSET DOMAIN seq |->
                           IF U = {} THEN base ELSE Step(g[U \ {Max(U)}], seq[Max(U)])]
           it == CHOOSE g : Eq(g)
           F == [p \in S \X K |-> Step(p[1], p[2])]
<1>1. SettleEach(base, seq, who, landed) = it[DOMAIN seq]
  BY DEF SettleEach, FoldLeft, MapThenFoldSet
<1>2. \A t \in S, k \in K : Step(t, k) \in S
  OBVIOUS
<1>3. \A m \in 1..n : \A t \in J[m - 1] : Step(t, seq[m]) \in J[m]
  OBVIOUS
<1> HIDE DEF Step
<1>4. F \in [S \X K -> S] /\ \A t \in S, k \in K : F[<<t, k>>] = Step(t, k)
  BY <1>2
<1>5. Eq(it)
  <2> HIDE DEF F
  <2>1. PICK g : IsTable(g, S, n, seq, base, F)
    BY <1>4, FoldTable
  <2>2. ASSUME NEW U \in SUBSET (1..n), U # {}
        PROVE  g[U] = Step(g[U \ {Max(U)}], seq[Max(U)])
    BY <1>4, <2>1, <2>2, MaxIn DEF IsTable
  <2>3. Eq(g)
    BY <2>1, <2>2 DEF IsTable
  <2>4. QED
    BY <2>3
<1> HIDE DEF it
<1>6. it[{}] \in J[0]
  BY <1>5
<1>7. ASSUME NEW m \in 1..n, it[1..(m - 1)] \in J[m - 1]
      PROVE  it[1..m] \in J[m]
  <2>1. Max(1..m) = m /\ (1..m) \ {m} = 1..(m - 1)
    BY MaxUpTo
  <2>2. 1..m \in SUBSET DOMAIN seq /\ m \in 1..m
    OBVIOUS
  <2>3. it[1..m] = Step(it[1..(m - 1)], seq[m])
    BY <1>5, <2>1, <2>2
  <2>4. QED
    BY <1>3, <1>7, <2>3
<1>8. it[1..n] \in J[n]
  BY <1>6, <1>7, FoldReach
<1>9. QED
  BY <1>1, <1>8

TellEach(base, seq) ==
    FoldLeft(LAMBDA v, it : IF it.st = "go" THEN Folded(v, it.ev) ELSE v, base, seq)

(* What the plugin behind is told, one after the other.                    *)
LEMMA TellFold ==
    ASSUME NEW S, NEW n \in Nat, NEW seq \in [1..n -> Item], NEW base \in S,
           \A t \in S, k \in Item : (IF k.st = "go" THEN Folded(t, k.ev) ELSE t) \in S,
           NEW J, base \in J[0],
           \A m \in 1..n : \A t \in J[m - 1] : (IF seq[m].st = "go" THEN Folded(t, seq[m].ev) ELSE t) \in J[m]
    PROVE  TellEach(base, seq) \in J[n]
<1> DEFINE Step(t, k) == (IF k.st = "go" THEN Folded(t, k.ev) ELSE t)
           Eq(g) == g = [U \in SUBSET DOMAIN seq |->
                           IF U = {} THEN base ELSE Step(g[U \ {Max(U)}], seq[Max(U)])]
           it == CHOOSE g : Eq(g)
           F == [p \in S \X Item |-> Step(p[1], p[2])]
<1>1. TellEach(base, seq) = it[DOMAIN seq]
  BY DEF TellEach, FoldLeft, MapThenFoldSet
<1>2. \A t \in S, k \in Item : Step(t, k) \in S
  OBVIOUS
<1>3. \A m \in 1..n : \A t \in J[m - 1] : Step(t, seq[m]) \in J[m]
  OBVIOUS
<1> HIDE DEF Step
<1>4. F \in [S \X Item -> S] /\ \A t \in S, k \in Item : F[<<t, k>>] = Step(t, k)
  BY <1>2
<1>5. Eq(it)
  <2> HIDE DEF F
  <2>1. PICK g : IsTable(g, S, n, seq, base, F)
    BY <1>4, FoldTable
  <2>2. ASSUME NEW U \in SUBSET (1..n), U # {}
        PROVE  g[U] = Step(g[U \ {Max(U)}], seq[Max(U)])
    BY <1>4, <2>1, <2>2, MaxIn DEF IsTable
  <2>3. Eq(g)
    BY <2>1, <2>2 DEF IsTable
  <2>4. QED
    BY <2>3
<1> HIDE DEF it
<1>6. it[{}] \in J[0]
  BY <1>5
<1>7. ASSUME NEW m \in 1..n, it[1..(m - 1)] \in J[m - 1]
      PROVE  it[1..m] \in J[m]
  <2>1. Max(1..m) = m /\ (1..m) \ {m} = 1..(m - 1)
    BY MaxUpTo
  <2>2. 1..m \in SUBSET DOMAIN seq /\ m \in 1..m
    OBVIOUS
  <2>3. it[1..m] = Step(it[1..(m - 1)], seq[m])
    BY <1>5, <2>1, <2>2
  <2>4. QED
    BY <1>3, <1>7, <2>3
<1>8. it[1..n] \in J[n]
  BY <1>6, <1>7, FoldReach
<1>9. QED
  BY <1>1, <1>8

HealthEach(base, seq) ==
    FoldLeft(LAMBDA h, it : (IF it.st = "go" THEN Health(h, it.ev) ELSE h), base, seq)

(* What the plugin makes of the round, by event after event. *)
LEMMA HealthFold ==
    ASSUME NEW S, NEW n \in Nat, NEW seq \in [1..n -> Item], NEW base \in S,
           \A t \in S, k \in Item : (IF k.st = "go" THEN Health(t, k.ev) ELSE t) \in S,
           NEW J, base \in J[0],
           \A m \in 1..n : \A t \in J[m - 1] : (IF seq[m].st = "go" THEN Health(t, seq[m].ev) ELSE t) \in J[m]
    PROVE  HealthEach(base, seq) \in J[n]
<1> DEFINE Step(t, k) == (IF k.st = "go" THEN Health(t, k.ev) ELSE t)
           Eq(g) == g = [U \in SUBSET DOMAIN seq |->
                           IF U = {} THEN base ELSE Step(g[U \ {Max(U)}], seq[Max(U)])]
           it == CHOOSE g : Eq(g)
           F == [p \in S \X Item |-> Step(p[1], p[2])]
<1>1. HealthEach(base, seq) = it[DOMAIN seq]
  BY DEF HealthEach, FoldLeft, MapThenFoldSet
<1>2. \A t \in S, k \in Item : Step(t, k) \in S
  OBVIOUS
<1>3. \A m \in 1..n : \A t \in J[m - 1] : Step(t, seq[m]) \in J[m]
  OBVIOUS
<1> HIDE DEF Step
<1>4. F \in [S \X Item -> S] /\ \A t \in S, k \in Item : F[<<t, k>>] = Step(t, k)
  BY <1>2
<1>5. Eq(it)
  <2> HIDE DEF F
  <2>1. PICK g : IsTable(g, S, n, seq, base, F)
    BY <1>4, FoldTable
  <2>2. ASSUME NEW U \in SUBSET (1..n), U # {}
        PROVE  g[U] = Step(g[U \ {Max(U)}], seq[Max(U)])
    BY <1>4, <2>1, <2>2, MaxIn DEF IsTable
  <2>3. Eq(g)
    BY <2>1, <2>2 DEF IsTable
  <2>4. QED
    BY <2>3
<1> HIDE DEF it
<1>6. it[{}] \in J[0]
  BY <1>5
<1>7. ASSUME NEW m \in 1..n, it[1..(m - 1)] \in J[m - 1]
      PROVE  it[1..m] \in J[m]
  <2>1. Max(1..m) = m /\ (1..m) \ {m} = 1..(m - 1)
    BY MaxUpTo
  <2>2. 1..m \in SUBSET DOMAIN seq /\ m \in 1..m
    OBVIOUS
  <2>3. it[1..m] = Step(it[1..(m - 1)], seq[m])
    BY <1>5, <2>1, <2>2
  <2>4. QED
    BY <1>3, <1>7, <2>3
<1>8. it[1..n] \in J[n]
  BY <1>6, <1>7, FoldReach
<1>9. QED
  BY <1>1, <1>8

-----------------------------------------------------------------------------
(* Where a key's read is. *)

Positions(list, k) == {j \in DOMAIN list : list[j] = k}
Busy(s, k) == {w \in Workers : s.worker[w].at # "idle" /\ s.worker[w].key = k /\ s.worker[w].live}
Back(s, k) == {j \in DOMAIN s.results : s.results[j].key = k /\ s.results[j].live}

Nowhere(s, k) ==
    /\ Positions(s.cold, k) = {} /\ Positions(s.pending, k) = {} /\ Positions(s.waiting, k) = {}
    /\ Busy(s, k) = {} /\ Back(s, k) = {}

Single(A) == \E p : A = {p}
Only(A, B, C, D, E) == Single(A) /\ B = {} /\ C = {} /\ D = {} /\ E = {}

Once(s, k) ==
    LET A == Positions(s.cold, k)
        B == Positions(s.pending, k)
        C == Positions(s.waiting, k)
        D == Busy(s, k)
        E == Back(s, k)
    IN  \/ Only(A, B, C, D, E) \/ Only(B, C, D, E, A) \/ Only(C, D, E, A, B)
        \/ Only(D, E, A, B, C) \/ Only(E, A, B, C, D)

(* Every read that is owed is in one place, but those in R, which the loop *)
(* has in hand and are in none.                                            *)
Held(s, R) ==
    \A k \in Keys :
        IF k \in R THEN s.calls[k] # None /\ Nowhere(s, k)
        ELSE IF s.calls[k] = None THEN Nowhere(s, k) ELSE Once(s, k)

Owed(s) == s.owed = IF s.calls[Prj] = None THEN 0 ELSE 1

(* Who waits in the line has its read owed, but those in X, whose answer   *)
(* the loop has in hand.                                                   *)
Waits(s, X) ==
    \A j \in DOMAIN s.q : s.q[j].st = "wait" =>
        /\ s.q[j].ev.who \in Instances
        /\ s.q[j].ev.who \in X \/ s.calls[s.q[j].ev.who] # None

ColdInstances(s) == \A j \in DOMAIN s.cold : s.cold[j] \in Instances

(* No instance is read before the first round has its network.             *)
Calm(s, i) ==
    /\ Positions(s.pending, i) = {} /\ Positions(s.waiting, i) = {}
    /\ Busy(s, i) = {} /\ Back(s, i) = {}

Quiet(s) == s.warm \/ \A i \in Instances : Calm(s, i)

Sound(s, R, X) ==
    s \in Loop /\ Held(s, R) /\ Owed(s) /\ Waits(s, X) /\ ColdInstances(s) /\ Quiet(s)

(* What a read that is sent, placed or withdrawn leaves alone; an answer   *)
(* may be withdrawn, and none changes.                                     *)
Answers(s, t) ==
    \A j \in DOMAIN t.results :
        /\ j \in DOMAIN s.results
        /\ t.results[j].key = s.results[j].key /\ t.results[j].ans = s.results[j].ans
        /\ t.results[j].live => s.results[j].live

Aside(s, t) ==
    /\ t.q = s.q /\ t.held = s.held /\ t.proj = s.proj /\ t.net = s.net
    /\ t.arch = s.arch /\ t.ending = s.ending /\ Answers(s, t)

(* And who has a read out still has one.                                   *)
StillOwed(s, t) == Aside(s, t) /\ \A x \in Keys : s.calls[x] # None => t.calls[x] # None

(* What one step leaves alone and the next does, both do. *)
LEMMA AsideTrans ==
    ASSUME NEW s, NEW t, NEW u, Aside(s, t), Aside(t, u)
    PROVE  Aside(s, u)
  BY DEF Aside, Answers

(* That goes on from one to the next. *)
LEMMA StillOwedTrans ==
    ASSUME NEW s, NEW t, NEW u, StillOwed(s, t), StillOwed(t, u)
    PROVE  StillOwed(s, u)
  BY AsideTrans DEF StillOwed

(* What the project sets is known, or asked for. *)
Asked(s) == s.proj \/ s.calls[Prj] # None

(* While no call fails: an instance is read, held and told of only when    *)
(* what its project sets is known.                                         *)
Fit(s) ==
    /\ s.warm => s.proj
    /\ \A j \in DOMAIN s.results :
          s.results[j].key = Prj /\ s.results[j].live => s.results[j].ans.is # "error"
    /\ \A i \in Instances : s.held[i] # None => s.held[i].proj
    /\ \A j \in DOMAIN s.q : s.q[j].ev.data # None => s.q[j].ev.data.proj

Fits(s, t) == (Fit(s) => Fit(t)) /\ (Asked(s) => Asked(t))

(* A loop that fits stays one over any number of such steps. *)
LEMMA FitsTrans ==
    ASSUME NEW s, NEW t, NEW u, Fits(s, t), Fits(t, u)
    PROVE  Fits(s, u)
  BY DEF Fits

(* Reads that are sent, placed or withdrawn change nothing about that. *)
LEMMA AsideFits ==
    ASSUME NEW s, NEW t, StillOwed(s, t), t.warm = s.warm
    PROVE  Fits(s, t)
<1>1. Prj \in Keys
  BY DEF Keys
<1>2. Fit(s) => Fit(t)
  BY DEF StillOwed, Aside, Answers, Fit
<1>3. QED
  BY <1>1, <1>2 DEF StillOwed, Aside, Fits, Asked

-----------------------------------------------------------------------------
(* What a whole round asks of the line. *)

(* The item tells the plugin of i when it leaves; or it will, when the     *)
(* read it waits for is answered.                                          *)
Spoken(it, i) ==
    it.st = "go" /\ it.ev.who = i /\ it.ev.act # "deleted" /\ ~it.ev.failed /\ it.ev.data # None
Tells(it, i) == Spoken(it, i) \/ (it.st = "wait" /\ it.ev.who = i)

(* Before a round's end in the line, i was told of or is.                  *)
EndsAfter(s, i, b) ==
    \A p \in DOMAIN s.q : s.q[p].ev.act = "sweep-end" =>
        s.net # 0 /\ (b \/ \E r \in DOMAIN s.q : r < p /\ Tells(s.q[r], i))

(* What the archive holds of i was told, or is on its way before anybody   *)
(* who could be passed over for it.                                        *)
FiledTold(s, i, b) ==
    s.arch[i] # None =>
        b \/ \E r \in DOMAIN s.q :
                /\ Spoken(s.q[r], i)
                /\ \A x \in DOMAIN s.q : s.q[x].st = "wait" /\ s.q[x].ev.who = i => r < x

(* i stays, and what is read of it and of its network is answered.         *)
Stays(s, i) ==
    /\ \A p \in DOMAIN s.q :
          /\ ~(s.q[p].ev.act = "deleted" /\ s.q[p].ev.who = i)
          /\ s.q[p].st = "wait" => ~s.q[p].ev.failed /\ s.q[p].ev.act \in {"updated", "started"}
    /\ \A j \in DOMAIN s.results : s.results[j].live =>
          /\ s.results[j].key = i => s.results[j].ans.is = "ok"
          /\ s.results[j].key = Net => s.results[j].ans.c # 0

(* b: the plugin was told of i.                                            *)
Whole(s, i, b) == EndsAfter(s, i, b) /\ FiledTold(s, i, b) /\ Stays(s, i)

(* A round that ends now ends after i was told of.                         *)
Safe(s, i, b) == s.net # 0 /\ (b \/ \E r \in DOMAIN s.q : Tells(s.q[r], i))

(* What was whole is whole, and what was safe is; c: told of i by now.     *)
Stands(s, t, i, b, c) ==
    Whole(s, i, b) => /\ Whole(t, i, c) /\ (Safe(s, i, b) => Safe(t, i, c))
                      /\ s.net # 0 => t.net # 0
Keeps(s, t, i, b) == t.ending = s.ending /\ Stands(s, t, i, b, b)

(* That goes on from one to the next. *)
LEMMA KeepsTrans ==
    ASSUME NEW s, NEW t, NEW u, NEW i, NEW b, Keeps(s, t, i, b), Keeps(t, u, i, b)
    PROVE  Keeps(s, u, i, b)
  BY DEF Keeps, Stands

(* What leaves the line, what is filed of i and the networks alone, and    *)
(* answers nothing.                                                        *)
SameLine(s, t, i) ==
    /\ t.q = s.q /\ t.arch[i] = s.arch[i] /\ t.net = s.net /\ t.ending = s.ending
    /\ Answers(s, t)

(* What leaves the line, the results and the rest alone keeps the round.   *)
LEMMA LineKeeps ==
    ASSUME NEW s, NEW t, NEW i, SameLine(s, t, i), NEW b
    PROVE  Keeps(s, t, i, b)
<1>1. EndsAfter(s, i, b) => EndsAfter(t, i, b)
  BY DEF SameLine, EndsAfter
<1>2. FiledTold(s, i, b) => FiledTold(t, i, b)
  BY DEF SameLine, FiledTold
<1>3. Stays(s, i) => Stays(t, i)
  BY DEF SameLine, Answers, Stays
<1>4. Safe(s, i, b) => Safe(t, i, b)
  BY DEF SameLine, Safe
<1>5. QED
  BY <1>1, <1>2, <1>3, <1>4 DEF SameLine, Keeps, Stands, Whole

(* Reads that are sent, placed, withdrawn or done with. *)
LEMMA AsideKeeps ==
    ASSUME NEW s, NEW t, Aside(s, t), NEW i, NEW b
    PROVE  Keeps(s, t, i, b)
  BY LineKeeps DEF Aside, SameLine

-----------------------------------------------------------------------------
(* A list grows by one, loses its first, loses all but its others. *)

(* A key that is appended has one place more, every other as before.       *)
LEMMA AppendPositions ==
    ASSUME NEW T, NEW list \in Seq(T), NEW k \in T
    PROVE  /\ Append(list, k) \in Seq(T)
           /\ Positions(list, k) = {} => Single(Positions(Append(list, k), k))
           /\ \A x : x # k => Positions(Append(list, k), x) = Positions(list, x)
<1>1. /\ Append(list, k) \in Seq(T) /\ DOMAIN Append(list, k) = 1..(Len(list) + 1)
      /\ Append(list, k)[Len(list) + 1] = k
      /\ \A j \in DOMAIN list : Append(list, k)[j] = list[j]
      /\ DOMAIN list = 1..Len(list) /\ Len(list) \in Nat
  OBVIOUS
<1>2. Positions(list, k) = {} => Positions(Append(list, k), k) = {Len(list) + 1}
  BY <1>1 DEF Positions
<1>3. ASSUME NEW x, x # k PROVE Positions(Append(list, k), x) = Positions(list, x)
  BY <1>1, <1>3 DEF Positions
<1>4. QED
  BY <1>1, <1>2, <1>3 DEF Single

(* Offer keeps the loop's type. *)
LEMMA OfferType ==
    ASSUME NEW s \in Loop, NEW k \in Keys
    PROVE  Offer(s, k) \in Loop
<1> DEFINE idle == {w \in Workers : s.worker[w].at = "idle"}
           w == CHOOSE w \in idle : TRUE
<1>1. CASE idle = {}
  <2>1. Append(s.waiting, k) \in Seq(Keys)
    BY DEF Loop
  <2>2. QED
    BY <1>1, <2>1 DEF Offer, Loop
<1>2. CASE idle # {}
  <2>1. w \in Workers
    BY <1>2
  <2>2. [at |-> "reading", key |-> k, live |-> TRUE, got |-> 0] \in Worker
    BY DEF Worker
  <2>3. [s.worker EXCEPT ![w] = [at |-> "reading", key |-> k, live |-> TRUE, got |-> 0]] \in [Workers -> Worker]
    BY <2>1, <2>2 DEF Loop
  <2>4. QED
    BY <1>2, <2>3 DEF Offer, Loop
<1>3. QED
  BY <1>1, <1>2

(* Placing what is in hand: it is then in one place. *)
LEMMA OfferHeld ==
    ASSUME NEW s \in Loop, NEW R, NEW k \in Keys, k \in R, Held(s, R)
    PROVE  Held(Offer(s, k), R \ {k})
<1> DEFINE idle == {w \in Workers : s.worker[w].at = "idle"}
           w == CHOOSE w \in idle : TRUE
           t == Offer(s, k)
<1>0. s.calls[k] # None /\ Nowhere(s, k)
  BY DEF Held
<1>1. CASE idle = {}
  <2>1. t = [s EXCEPT !.waiting = Append(@, k)]
    BY <1>1 DEF Offer
  <2> HIDE DEF t
  <2>2. /\ t.calls = s.calls /\ t.cold = s.cold /\ t.pending = s.pending
        /\ t.worker = s.worker /\ t.results = s.results /\ t.waiting = Append(s.waiting, k)
    BY <2>1 DEF Loop
  <2>3. s.waiting \in Seq(Keys)
    BY DEF Loop
  <2>4. Single(Positions(t.waiting, k))
    BY <1>0, <2>2, <2>3, AppendPositions DEF Nowhere
  <2>5. Once(t, k)
    BY <1>0, <2>2, <2>4 DEF Nowhere, Once, Only, Busy, Back
  <2>6. ASSUME NEW x \in Keys, x # k
        PROVE  (Nowhere(t, x) <=> Nowhere(s, x)) /\ (Once(t, x) <=> Once(s, x))
    <3>1. Positions(t.waiting, x) = Positions(s.waiting, x)
      BY <2>2, <2>3, <2>6, AppendPositions
    <3>2. QED
      BY <2>2, <3>1 DEF Nowhere, Once, Busy, Back
  <2>7. ASSUME NEW x \in Keys
        PROVE  IF x \in R \ {k} THEN t.calls[x] # None /\ Nowhere(t, x)
               ELSE IF t.calls[x] = None THEN Nowhere(t, x) ELSE Once(t, x)
    <3>1. CASE x = k
      BY <1>0, <2>2, <2>5, <3>1
    <3>2. CASE x # k
      <4>1. IF x \in R THEN s.calls[x] # None /\ Nowhere(s, x)
            ELSE IF s.calls[x] = None THEN Nowhere(s, x) ELSE Once(s, x)
        BY DEF Held
      <4>2. QED
        BY <2>2, <2>6, <3>2, <4>1
    <3>3. QED
      BY <3>1, <3>2
  <2>8. QED
    BY <2>7 DEF Held, t
<1>2. CASE idle # {}
  <2>0. w \in Workers /\ s.worker[w].at = "idle"
    BY <1>2
  <2> DEFINE taken == [at |-> "reading", key |-> k, live |-> TRUE, got |-> 0]
  <2>1. t = [s EXCEPT !.worker[w] = taken]
    BY <1>2 DEF Offer
  <2> HIDE DEF t, w
  <2>2. /\ t.calls = s.calls /\ t.cold = s.cold /\ t.pending = s.pending
        /\ t.waiting = s.waiting /\ t.results = s.results
        /\ t.worker = [s.worker EXCEPT ![w] = taken]
    BY <2>1 DEF Loop
  <2>3. /\ t.worker[w] = taken
        /\ \A v \in Workers : v # w => t.worker[v] = s.worker[v]
    BY <2>0, <2>2 DEF Loop
  <2>4. Busy(t, k) = {w}
    BY <1>0, <2>0, <2>3 DEF Busy, Nowhere
  <2>5. Once(t, k)
    BY <1>0, <2>2, <2>4 DEF Nowhere, Once, Only, Single, Back
  <2>6. ASSUME NEW x \in Keys, x # k
        PROVE  (Nowhere(t, x) <=> Nowhere(s, x)) /\ (Once(t, x) <=> Once(s, x))
    <3>1. Busy(t, x) = Busy(s, x)
      BY <2>0, <2>3, <2>6 DEF Busy
    <3>2. QED
      BY <2>2, <3>1 DEF Nowhere, Once, Back
  <2>7. ASSUME NEW x \in Keys
        PROVE  IF x \in R \ {k} THEN t.calls[x] # None /\ Nowhere(t, x)
               ELSE IF t.calls[x] = None THEN Nowhere(t, x) ELSE Once(t, x)
    <3>1. CASE x = k
      BY <1>0, <2>2, <2>5, <3>1
    <3>2. CASE x # k
      <4>1. IF x \in R THEN s.calls[x] # None /\ Nowhere(s, x)
            ELSE IF s.calls[x] = None THEN Nowhere(s, x) ELSE Once(s, x)
        BY DEF Held
      <4>2. QED
        BY <2>2, <2>6, <3>2, <4>1
    <3>3. QED
      BY <3>1, <3>2
  <2>8. QED
    BY <2>7 DEF Held, t
<1>3. QED
  BY <1>1, <1>2

(* What Offer leaves alone. *)
LEMMA OfferFields ==
    ASSUME NEW s \in Loop, NEW k \in Keys
    PROVE  LET t == Offer(s, k)
           IN  /\ StillOwed(s, t) /\ t.calls = s.calls /\ t.cold = s.cold /\ t.owed = s.owed
               /\ t.warm = s.warm
               /\ \A x \in Keys \ {k} : Calm(s, x) => Calm(t, x)
<1> DEFINE idle == {w \in Workers : s.worker[w].at = "idle"}
           w == CHOOSE w \in idle : TRUE
           t == Offer(s, k)
           taken == [at |-> "reading", key |-> k, live |-> TRUE, got |-> 0]
           waiting == Append(s.waiting, k)
           worker == [s.worker EXCEPT ![w] = taken]
<1>1. s.waiting \in Seq(Keys) /\ s.worker \in [Workers -> Worker]
  BY DEF Loop
<1>2. \A x : x # k => Positions(waiting, x) = Positions(s.waiting, x)
  BY <1>1, AppendPositions
<1>3. idle # {} => w \in Workers /\ s.worker[w].at = "idle"
  OBVIOUS
<1>4. \/ t = [s EXCEPT !.waiting = waiting]
      \/ idle # {} /\ t = [s EXCEPT !.worker = worker]
  <2>1. CASE idle = {}
    BY <2>1 DEF Offer, Loop
  <2>2. CASE idle # {}
    BY <2>2 DEF Offer, Loop
  <2>3. QED
    BY <2>1, <2>2
<1> HIDE DEF idle, w
<1>5. \A v \in Workers : idle # {} => worker[v] = IF v = w THEN taken ELSE s.worker[v]
  BY <1>1, <1>3
<1> HIDE DEF t, waiting, worker
<1>6. /\ t.q = s.q /\ t.held = s.held /\ t.proj = s.proj /\ t.net = s.net /\ t.arch = s.arch
      /\ t.ending = s.ending /\ t.results = s.results /\ t.calls = s.calls /\ t.cold = s.cold
      /\ t.owed = s.owed /\ t.warm = s.warm /\ t.pending = s.pending
      /\ \/ t.waiting = waiting /\ t.worker = s.worker
         \/ t.waiting = s.waiting /\ t.worker = worker /\ idle # {}
  BY <1>4 DEF Loop
<1>7. ASSUME NEW x \in Keys \ {k}, Calm(s, x) PROVE Calm(t, x)
  <2>1. Positions(t.waiting, x) = {} /\ Positions(t.pending, x) = {} /\ Back(t, x) = {}
    BY <1>2, <1>6, <1>7 DEF Calm, Back
  <2>2. Busy(t, x) = {}
    BY <1>3, <1>5, <1>6, <1>7 DEF Calm, Busy
  <2>3. QED
    BY <2>1, <2>2 DEF Calm
<1>8. StillOwed(s, t)
  BY <1>6 DEF StillOwed, Aside, Answers
<1>9. QED
  BY <1>6, <1>7, <1>8 DEF t

(* A read in hand is offered; an instance's only once the networks are known. *)
LEMMA OfferSound ==
    ASSUME NEW s, NEW R, NEW X, NEW k \in Keys, k \in R, Sound(s, R, X), k \in Instances => s.warm
    PROVE  /\ Sound(Offer(s, k), R \ {k}, X) /\ StillOwed(s, Offer(s, k))
           /\ Offer(s, k).calls = s.calls /\ Offer(s, k).warm = s.warm
<1> DEFINE t == Offer(s, k)
<1>1. s \in Loop /\ Held(t, R \ {k}) /\ t \in Loop
  BY OfferHeld, OfferType DEF Sound
<1>2. /\ StillOwed(s, t) /\ t.calls = s.calls /\ t.cold = s.cold /\ t.owed = s.owed
      /\ t.warm = s.warm /\ \A x \in Keys \ {k} : Calm(s, x) => Calm(t, x)
  BY <1>1, OfferFields
<1> HIDE DEF t
<1>3. Quiet(t)
  BY <1>2 DEF Sound, Quiet, Keys
<1>4. QED
  BY <1>1, <1>2, <1>3 DEF Sound, Owed, Waits, ColdInstances, StillOwed, Aside, t

(* The keys copied are as often there as before, none or once. *)
LEMMA WithoutPositions ==
    ASSUME NEW seq \in Seq(Keys), NEW out
    PROVE  /\ Without(seq, out) \in Seq(Keys) /\ Positions(Without(seq, out), out) = {}
           /\ \A x \in Keys : x # out =>
                 /\ Positions(seq, x) = {} => Positions(Without(seq, out), x) = {}
                 /\ Single(Positions(seq, x)) => Single(Positions(Without(seq, out), x))
           /\ \A j \in DOMAIN Without(seq, out) :
                 \E l \in DOMAIN seq : Without(seq, out)[j] = seq[l]
<1> DEFINE n == Len(seq)
           First(m, x) == {j \in 1..m : seq[j] = x}
           Copy(r, m) ==
               /\ r \in Seq(Keys) /\ Positions(r, out) = {}
               /\ \A x \in Keys : x # out =>
                     /\ First(m, x) = {} => Positions(r, x) = {}
                     /\ Single(First(m, x)) => Single(Positions(r, x))
               /\ \A j \in DOMAIN r : \E l \in DOMAIN seq : r[j] = seq[l]
           J == [m \in 0..n |-> {r \in Seq(Keys) : Copy(r, m)}]
<1>1. n \in Nat /\ DOMAIN seq = 1..n /\ seq \in [1..n -> Keys]
  OBVIOUS
<1>2. <<>> \in J[0]
  <2>1. \A x : First(0, x) = {}
    OBVIOUS
  <2>2. \A x : ~Single({})
    BY DEF Single
  <2>3. <<>> \in Seq(Keys) /\ DOMAIN <<>> = {} /\ \A x : Positions(<<>>, x) = {}
    BY DEF Positions
  <2>4. Copy(<<>>, 0)
    BY <2>1, <2>2, <2>3
  <2>5. QED
    BY <1>1, <2>3, <2>4
<1>3. ASSUME NEW m \in 1..n, NEW r \in J[m - 1]
      PROVE  (IF seq[m] = out THEN r ELSE Append(r, seq[m])) \in J[m]
  <2> DEFINE k == seq[m]
  <2>0. m \in 0..n /\ m - 1 \in 0..n /\ k \in Keys /\ m \in DOMAIN seq
    BY <1>1
  <2>1. r \in Seq(Keys) /\ Copy(r, m - 1)
    BY <1>3, <2>0
  <2>2. \A x : x # k => First(m, x) = First(m - 1, x)
    BY <1>1
  <2>3. First(m, k) = First(m - 1, k) \union {m}
    BY <1>1
  <2>4. CASE k = out
    <3>1. Copy(r, m)
      BY <2>1, <2>2, <2>4
    <3>2. QED
      BY <2>0, <2>1, <2>4, <3>1
  <2>5. CASE k # out
    <3> DEFINE t == Append(r, k)
    <3>1. /\ t \in Seq(Keys)
          /\ Positions(r, k) = {} => Single(Positions(t, k))
          /\ \A x : x # k => Positions(t, x) = Positions(r, x)
      BY <2>0, <2>1, AppendPositions
    <3>2. \A j \in DOMAIN t : t[j] = k \/ (j \in DOMAIN r /\ t[j] = r[j])
      BY <2>1
    <3> HIDE DEF t, k
    <3>3. \A j \in DOMAIN t : \E l \in DOMAIN seq : t[j] = seq[l]
      BY <2>0, <2>1, <3>2 DEF k
    <3>4. m \notin First(m - 1, k) /\ First(m, k) # {}
      BY <1>1, <2>3
    <3>5. Single(First(m, k)) => First(m - 1, k) = {}
      <4> HIDE DEF First
      <4>1. QED
        BY <2>3, <3>4 DEF Single
    <3> HIDE DEF First
    <3>6. Single(First(m, k)) => Single(Positions(t, k))
      BY <2>0, <2>1, <2>5, <3>1, <3>5
    <3>7. ASSUME NEW x \in Keys, x # out
          PROVE  /\ First(m, x) = {} => Positions(t, x) = {}
                 /\ Single(First(m, x)) => Single(Positions(t, x))
      <4>1. CASE x = k
        BY <3>4, <3>6, <4>1
      <4>2. CASE x # k
        BY <2>1, <2>2, <3>1, <3>7, <4>2
      <4>3. QED
        BY <4>1, <4>2
    <3>8. Copy(t, m)
      BY <2>1, <2>5, <3>1, <3>3, <3>7
    <3>9. QED
      BY <2>0, <2>5, <3>1, <3>8 DEF t, k
  <2>6. QED
    BY <2>4, <2>5
<1>4. Without(seq, out) \in J[n]
  <2>1. \A t \in Seq(Keys), k \in Keys : (IF k = out THEN t ELSE Append(t, k)) \in Seq(Keys)
    OBVIOUS
  <2> HIDE DEF J, n
  <2>2. <<>> \in Seq(Keys)
    OBVIOUS
  <2>3. \A m \in 1..n : \A t \in J[m - 1] :
            (IF seq[m] = out THEN t ELSE Append(t, seq[m])) \in J[m]
    BY <1>3
  <2>4. CopyEach(<<>>, seq, out) \in J[n]
    BY <1>1, <1>2, <2>1, <2>2, <2>3, CopyFold
  <2>5. QED
    BY <2>4 DEF Without, CopyEach
<1>5. Without(seq, out) \in Seq(Keys) /\ Copy(Without(seq, out), n)
  BY <1>1, <1>4
<1>6. \A x : First(n, x) = Positions(seq, x)
  BY <1>1 DEF Positions
<1> HIDE DEF First, n
<1>7. QED
  BY <1>5, <1>6

(* Withdrawing a read, and what it rewrites. *)
LEMMA CancelFields ==
    ASSUME NEW s \in Loop, NEW k \in Keys
    PROVE  /\ Cancel(s, k) \in Loop
           /\ Cancel(s, k).calls = [s.calls EXCEPT ![k] = None]
           /\ Cancel(s, k).cold = Without(s.cold, k)
           /\ Cancel(s, k).pending = Without(s.pending, k)
           /\ Cancel(s, k).waiting = Without(s.waiting, k)
           /\ Cancel(s, k).worker = [w \in Workers |->
                  IF s.worker[w].key = k THEN [s.worker[w] EXCEPT !.live = FALSE] ELSE s.worker[w]]
           /\ Cancel(s, k).results = [j \in DOMAIN s.results |->
                  IF s.results[j].key = k THEN [s.results[j] EXCEPT !.live = FALSE] ELSE s.results[j]]
           /\ Cancel(s, k).owed = s.owed /\ Cancel(s, k).warm = s.warm /\ Aside(s, Cancel(s, k))
<1> DEFINE t == Cancel(s, k)
           worker == [w \in Workers |-> IF s.worker[w].key = k THEN [s.worker[w] EXCEPT !.live = FALSE]
                                        ELSE s.worker[w]]
           results == [j \in DOMAIN s.results |-> IF s.results[j].key = k
                                                  THEN [s.results[j] EXCEPT !.live = FALSE]
                                                  ELSE s.results[j]]
<1>1. /\ s.cold \in Seq(Keys) /\ s.pending \in Seq(Keys) /\ s.waiting \in Seq(Keys)
      /\ s.calls \in [Keys -> Call \union {None}]
      /\ s.worker \in [Workers -> Worker] /\ s.results \in Seq(Result)
  BY DEF Loop
<1>2. /\ Without(s.cold, k) \in Seq(Keys) /\ Without(s.pending, k) \in Seq(Keys)
      /\ Without(s.waiting, k) \in Seq(Keys)
  BY <1>1, WithoutPositions
<1>3. worker \in [Workers -> Worker] /\ results \in Seq(Result)
  <2>1. \A w \in Workers : worker[w] \in Worker
    BY <1>1 DEF Worker
  <2>2. \A r \in Result : [r EXCEPT !.live = FALSE] \in Result
    BY DEF Result
  <2>3. DOMAIN s.results = 1..Len(s.results) /\ \A j \in 1..Len(s.results) : s.results[j] \in Result
    BY <1>1
  <2>4. \A j \in DOMAIN s.results : results[j] \in Result
    BY <2>2, <2>3
  <2>5. Len(s.results) \in Nat /\ DOMAIN results = 1..Len(s.results)
    BY <1>1
  <2> HIDE DEF results, worker
  <2>6. results \in Seq(Result)
    <3>1. results = [j \in 1..Len(s.results) |-> results[j]]
      BY <2>5 DEF results
    <3>2. QED
      BY <2>3, <2>4, <2>5, <3>1
  <2>7. QED
    BY <2>1, <2>6 DEF worker
<1>4. t = [s EXCEPT !.calls[k] = None, !.waiting = Without(s.waiting, k), !.cold = Without(s.cold, k),
                    !.pending = Without(s.pending, k), !.worker = worker, !.results = results]
  BY DEF Cancel, Loop
<1>5. /\ DOMAIN results = DOMAIN s.results
      /\ \A j \in DOMAIN s.results :
            /\ results[j].key = s.results[j].key
            /\ results[j].ans = s.results[j].ans
            /\ results[j].live => s.results[j].live
  BY <1>1 DEF Result
<1> HIDE DEF worker, results, t
<1>6. t \in Loop
  BY <1>1, <1>2, <1>3, <1>4 DEF Loop
<1>7. /\ t.calls = [s.calls EXCEPT ![k] = None] /\ t.waiting = Without(s.waiting, k)
      /\ t.cold = Without(s.cold, k) /\ t.pending = Without(s.pending, k)
      /\ t.worker = worker /\ t.results = results /\ t.q = s.q /\ t.owed = s.owed
      /\ t.held = s.held /\ t.proj = s.proj /\ t.net = s.net /\ t.arch = s.arch
      /\ t.ending = s.ending /\ t.warm = s.warm
  BY <1>4 DEF Loop
<1>8. Aside(s, t)
  <2>1. t.results = results
    BY <1>7
  <2>2. Answers(s, t)
    BY <1>5, <2>1 DEF Answers
  <2>3. QED
    BY <1>7, <2>2 DEF Aside
<1>9. QED
  BY <1>6, <1>7, <1>8 DEF t, worker, results

(* What a key's places are when its read is withdrawn: none, and every     *)
(* other key's are what they were.                                         *)
LEMMA CancelHeld ==
    ASSUME NEW s \in Loop, NEW R, NEW k \in Keys, k \notin R, Held(s, R)
    PROVE  /\ Cancel(s, k) \in Loop /\ Nowhere(Cancel(s, k), k) /\ Held(Cancel(s, k), R)
           /\ ColdInstances(s) => ColdInstances(Cancel(s, k))
           /\ Cancel(s, k).calls = [s.calls EXCEPT ![k] = None]
           /\ Cancel(s, k).owed = s.owed /\ Cancel(s, k).warm = s.warm /\ Aside(s, Cancel(s, k))
           /\ \A x \in Keys : Calm(s, x) => Calm(Cancel(s, k), x)
<1> DEFINE t == Cancel(s, k)
           worker == [w \in Workers |-> IF s.worker[w].key = k THEN [s.worker[w] EXCEPT !.live = FALSE]
                                        ELSE s.worker[w]]
           results == [j \in DOMAIN s.results |-> IF s.results[j].key = k
                                                  THEN [s.results[j] EXCEPT !.live = FALSE]
                                                  ELSE s.results[j]]
<1>1. /\ s.cold \in Seq(Keys) /\ s.pending \in Seq(Keys) /\ s.waiting \in Seq(Keys)
      /\ s.calls \in [Keys -> Call \union {None}]
      /\ s.worker \in [Workers -> Worker] /\ s.results \in Seq(Result)
  BY DEF Loop
<1> HIDE DEF worker, results, t
<1>5. t \in Loop
  BY CancelFields DEF t
<1>6. /\ t.calls = [s.calls EXCEPT ![k] = None] /\ t.waiting = Without(s.waiting, k)
      /\ t.cold = Without(s.cold, k) /\ t.pending = Without(s.pending, k)
      /\ t.worker = worker /\ t.results = results /\ t.owed = s.owed /\ t.warm = s.warm
      /\ Aside(s, t)
  BY CancelFields DEF t, worker, results
<1>7. Busy(t, k) = {} /\ Back(t, k) = {}
  BY <1>1, <1>6 DEF Busy, Back, worker, results, Worker, Result
<1>8. ASSUME NEW x \in Keys, x # k
      PROVE  Busy(t, x) = Busy(s, x) /\ Back(t, x) = Back(s, x)
  BY <1>1, <1>6, <1>8 DEF Busy, Back, worker, results, Worker, Result
<1>9. Nowhere(t, k)
  BY <1>1, <1>6, <1>7, WithoutPositions DEF Nowhere
<1>10. ASSUME NEW x \in Keys, x # k
       PROVE  (Nowhere(s, x) => Nowhere(t, x)) /\ (Once(s, x) => Once(t, x))
  <2>1. \A list \in {s.cold, s.pending, s.waiting} :
           /\ Positions(list, x) = {} => Positions(Without(list, k), x) = {}
           /\ Single(Positions(list, x)) => Single(Positions(Without(list, k), x))
    BY <1>1, <1>10, WithoutPositions
  <2>2. QED
    BY <1>6, <1>8, <1>10, <2>1 DEF Nowhere, Once, Only
<1>11. ASSUME NEW x \in Keys
       PROVE  IF x \in R THEN t.calls[x] # None /\ Nowhere(t, x)
              ELSE IF t.calls[x] = None THEN Nowhere(t, x) ELSE Once(t, x)
  <2>1. CASE x = k
    BY <1>1, <1>6, <1>9, <2>1
  <2>2. CASE x # k
    <3>1. IF x \in R THEN s.calls[x] # None /\ Nowhere(s, x)
          ELSE IF s.calls[x] = None THEN Nowhere(s, x) ELSE Once(s, x)
      BY DEF Held
    <3>2. t.calls[x] = s.calls[x]
      BY <1>1, <1>6, <2>2
    <3>3. QED
      BY <1>10, <2>2, <3>1, <3>2
  <2>3. QED
    BY <2>1, <2>2
<1>12. ColdInstances(s) => ColdInstances(t)
  BY <1>1, <1>6, WithoutPositions DEF ColdInstances
<1>13. ASSUME NEW x \in Keys, Calm(s, x) PROVE Calm(t, x)
  <2>1. CASE x = k
    BY <1>9, <2>1 DEF Calm, Nowhere
  <2>2. CASE x # k
    BY <1>1, <1>6, <1>8, <1>13, <2>2, WithoutPositions DEF Calm
  <2>3. QED
    BY <2>1, <2>2
<1>14. QED
  BY <1>5, <1>6, <1>9, <1>11, <1>12, <1>13 DEF Held, t

(* A read that is placed leaves the loop a loop.                           *)
LEMMA PlaceType ==
    ASSUME NEW s \in Loop, NEW k \in Keys
    PROVE  Place(s, k) \in Loop
<1>1. Append(s.cold, k) \in Seq(Keys) /\ Append(s.pending, k) \in Seq(Keys)
  BY DEF Loop
<1>2. [s EXCEPT !.cold = Append(@, k)] \in Loop /\ [s EXCEPT !.pending = Append(@, k)] \in Loop
  BY <1>1 DEF Loop
<1>3. QED
  BY <1>2, OfferType DEF Place

(* A read in hand goes to where it belongs, and nothing else moves. *)
LEMMA PlaceSound ==
    ASSUME NEW s, NEW R, NEW X, NEW k \in Keys, k \in R, Sound(s, R, X)
    PROVE  /\ Sound(Place(s, k), R \ {k}, X) /\ StillOwed(s, Place(s, k))
           /\ Place(s, k).calls = s.calls /\ Place(s, k).warm = s.warm
<1> DEFINE t == Place(s, k)
<1>1. s \in Loop /\ t \in Loop /\ s.cold \in Seq(Keys) /\ s.pending \in Seq(Keys)
  BY PlaceType DEF Sound, Loop
<1>2. s.calls[k] # None /\ Nowhere(s, k)
  BY DEF Held, Sound
<1>3. CASE t = Offer(s, k) /\ (k \in Instances => s.warm)
  BY <1>3, OfferSound
<1>4. CASE \/ k \in Instances /\ ~s.warm /\ t = [s EXCEPT !.cold = Append(@, k)]
           \/ (k \in Instances => s.warm) /\ t = [s EXCEPT !.pending = Append(@, k)]
  <2> HIDE DEF t
  <2>1. /\ t.calls = s.calls /\ t.waiting = s.waiting /\ t.worker = s.worker
        /\ t.results = s.results /\ t.q = s.q /\ t.owed = s.owed /\ t.warm = s.warm
        /\ t.held = s.held /\ t.proj = s.proj /\ t.net = s.net /\ t.arch = s.arch
        /\ t.ending = s.ending
        /\ \/ k \in Instances /\ t.cold = Append(s.cold, k) /\ t.pending = s.pending
           \/ /\ t.cold = s.cold /\ t.pending = Append(s.pending, k)
              /\ k \in Instances => s.warm
    BY <1>1, <1>4 DEF Loop
  <2>2. /\ Positions(s.cold, k) = {} => Single(Positions(Append(s.cold, k), k))
        /\ \A x : x # k => Positions(Append(s.cold, k), x) = Positions(s.cold, x)
    BY <1>1, AppendPositions
  <2>3. /\ Positions(s.pending, k) = {} => Single(Positions(Append(s.pending, k), k))
        /\ \A x : x # k => Positions(Append(s.pending, k), x) = Positions(s.pending, x)
    BY <1>1, AppendPositions
  <2>4. Once(t, k)
    BY <1>2, <2>1, <2>2, <2>3 DEF Once, Nowhere, Only, Busy, Back
  <2>5. ASSUME NEW x \in Keys, x # k
        PROVE  (Nowhere(t, x) <=> Nowhere(s, x)) /\ (Once(t, x) <=> Once(s, x))
    BY <2>1, <2>2, <2>3, <2>5 DEF Once, Nowhere, Busy, Back
  <2>6. ASSUME NEW x \in Keys
        PROVE  IF x \in R \ {k} THEN t.calls[x] # None /\ Nowhere(t, x)
               ELSE IF t.calls[x] = None THEN Nowhere(t, x) ELSE Once(t, x)
    <3>1. IF x \in R THEN s.calls[x] # None /\ Nowhere(s, x)
          ELSE IF s.calls[x] = None THEN Nowhere(s, x) ELSE Once(s, x)
      BY DEF Held, Sound
    <3>2. CASE x = k
      BY <1>2, <2>1, <2>4, <3>2
    <3>3. CASE x # k
      BY <2>1, <2>5, <3>1, <3>3
    <3>4. QED
      BY <3>2, <3>3
  <2>7. ColdInstances(t)
    <3>1. CASE t.cold = s.cold
      BY <3>1 DEF ColdInstances, Sound
    <3>2. CASE t.cold = Append(s.cold, k) /\ k \in Instances
      <4>1. ColdInstances(s)
        BY DEF Sound
      <4>2. \A j \in DOMAIN t.cold : t.cold[j] = k \/ (j \in DOMAIN s.cold /\ t.cold[j] = s.cold[j])
        BY <1>1, <3>2
      <4>3. QED
        BY <3>2, <4>1, <4>2 DEF ColdInstances
    <3>3. QED
      BY <2>1, <3>1, <3>2
  <2>8. Held(t, R \ {k})
    BY <2>6 DEF Held
  <2>9. Owed(t) /\ Waits(t, X)
    BY <2>1 DEF Sound, Owed, Waits
  <2>10. StillOwed(s, t)
    BY <2>1 DEF StillOwed, Aside, Answers
  <2>11. Quiet(t)
    BY <2>1, <2>3 DEF Sound, Quiet, Calm, Busy, Back
  <2>12. QED
    BY <1>1, <2>1, <2>7, <2>8, <2>9, <2>10, <2>11 DEF Sound, t
<1>5. QED
  BY <1>3, <1>4 DEF Place

(* A read that is sent joins one that is out or is out itself, and one     *)
(* that was out before still is.                                           *)
LEMMA SendSound ==
    ASSUME NEW s, NEW R, NEW X, NEW k \in Keys, k \notin R, Sound(s, R, X),
           NEW fan \in BOOLEAN, NEW wfr \in BOOLEAN
    PROVE  /\ Sound(Send(s, k, fan, wfr), R, X) /\ StillOwed(s, Send(s, k, fan, wfr))
           /\ Send(s, k, fan, wfr).calls[k] # None /\ Send(s, k, fan, wfr).warm = s.warm
<1> DEFINE out == s.calls[k]
           joins == out # None /\ ~(k \in Instances /\ wfr /\ ~out.wfr)
           t == IF out = None THEN s ELSE Cancel(s, k)
           rec == [fan |-> fan \/ (out # None /\ out.fan), wfr |-> wfr]
           u == [t EXCEPT !.calls[k] = rec, !.owed = @ + IF k = Prj THEN 1 ELSE 0]
<1>1. s \in Loop /\ Held(s, R) /\ Owed(s) /\ Waits(s, X) /\ ColdInstances(s) /\ Quiet(s)
  BY DEF Sound
<1>2. s.calls \in [Keys -> Call \union {None}] /\ out \in Call \union {None} /\ s.owed \in Int
  BY <1>1 DEF Loop
<1>3. None \notin Call
  BY ChainAssumption
<1>4. Prj \notin Instances /\ Prj \in Keys
  BY ChainAssumption DEF Keys
<1>5. CASE joins
  <2> DEFINE both == [fan |-> out.fan \/ fan, wfr |-> out.wfr \/ wfr]
             v == [s EXCEPT !.calls[k] = both]
  <2>1. Send(s, k, fan, wfr) = v
    BY <1>5 DEF Send
  <2>2. both \in Call
    BY <1>2, <1>5 DEF Call
  <2> HIDE DEF both
  <2>3. /\ v \in Loop /\ v.q = s.q /\ v.calls = [s.calls EXCEPT ![k] = both] /\ v.cold = s.cold
        /\ v.pending = s.pending /\ v.waiting = s.waiting /\ v.worker = s.worker
        /\ v.results = s.results /\ v.owed = s.owed /\ v.warm = s.warm /\ v.held = s.held
        /\ v.proj = s.proj /\ v.net = s.net /\ v.arch = s.arch /\ v.ending = s.ending
    BY <1>1, <1>2, <2>2 DEF Loop
  <2> HIDE DEF v
  <2>4. \A x \in Keys : v.calls[x] = None <=> s.calls[x] = None
    BY <1>2, <1>3, <1>5, <2>2, <2>3
  <2>5. \A x \in Keys : (Nowhere(v, x) <=> Nowhere(s, x)) /\ (Once(v, x) <=> Once(s, x))
    BY <2>3 DEF Nowhere, Once, Busy, Back
  <2>6. Held(v, R)
    BY <1>1, <2>4, <2>5 DEF Held
  <2>7. Owed(v) /\ Waits(v, X) /\ ColdInstances(v)
    BY <1>1, <1>4, <2>3, <2>4 DEF Owed, Waits, ColdInstances, Keys
  <2>8. Quiet(v)
    BY <1>1, <2>3 DEF Quiet, Calm, Busy, Back
  <2>9. StillOwed(s, v)
    BY <2>3, <2>4 DEF StillOwed, Aside, Answers
  <2>10. QED
    BY <1>5, <2>1, <2>3, <2>4, <2>6, <2>7, <2>8, <2>9 DEF Sound
<1>6. CASE ~joins
  <2>1. Send(s, k, fan, wfr) = Place(u, k)
    BY <1>6 DEF Send
  <2>2. rec \in Call
    BY <1>2 DEF Call
  <2>3. /\ t \in Loop /\ Nowhere(t, k) /\ Held(t, R) /\ ColdInstances(t) /\ t.owed = s.owed
        /\ t.calls = [s.calls EXCEPT ![k] = None] /\ (out # None => k \in Instances)
        /\ Aside(s, t) /\ t.warm = s.warm /\ Quiet(t)
    <3>1. CASE out = None
      <4>1. Aside(s, s)
        BY DEF Aside, Answers
      <4>2. QED
        BY <1>1, <1>2, <3>1, <4>1 DEF Held
    <3>2. CASE out # None
      <4>1. Quiet(Cancel(s, k))
        BY <1>1, CancelHeld DEF Quiet, Keys
      <4>2. QED
        BY <1>1, <1>6, <3>2, <4>1, CancelHeld
    <3>3. QED
      BY <3>1, <3>2
  <2> HIDE DEF rec, t
  <2>4. /\ u \in Loop /\ u.calls = [s.calls EXCEPT ![k] = rec] /\ u.cold = t.cold
        /\ u.pending = t.pending /\ u.waiting = t.waiting /\ u.worker = t.worker
        /\ u.results = t.results /\ u.owed = s.owed + IF k = Prj THEN 1 ELSE 0
        /\ u.warm = s.warm /\ Aside(s, u)
    <3> DEFINE calls == [t.calls EXCEPT ![k] = rec]
               owed == s.owed + IF k = Prj THEN 1 ELSE 0
    <3>1. calls = [s.calls EXCEPT ![k] = rec] /\ calls \in [Keys -> Call \union {None}] /\ owed \in Int
      BY <1>2, <2>2, <2>3
    <3>2. u = [t EXCEPT !.calls = calls, !.owed = owed]
      BY <2>3 DEF Loop
    <3> HIDE DEF calls, owed, u
    <3>3. /\ u \in Loop /\ u.q = t.q /\ u.calls = calls /\ u.cold = t.cold
          /\ u.pending = t.pending /\ u.waiting = t.waiting /\ u.worker = t.worker
          /\ u.results = t.results /\ u.owed = owed /\ u.warm = t.warm /\ u.held = t.held
          /\ u.proj = t.proj /\ u.net = t.net /\ u.arch = t.arch /\ u.ending = t.ending
      BY <2>3, <3>1, <3>2 DEF Loop
    <3>4. Aside(s, u)
      BY <2>3, <3>3 DEF Aside, Answers
    <3>5. QED
      BY <2>3, <3>1, <3>3, <3>4 DEF owed
  <2> HIDE DEF u
  <2>5. \A x \in Keys : /\ s.calls[x] # None => u.calls[x] # None
                        /\ x # k => u.calls[x] = t.calls[x] /\ u.calls[x] = s.calls[x]
                        /\ x = k => u.calls[x] = rec
    BY <1>2, <1>3, <2>2, <2>3, <2>4
  <2>6. \A x \in Keys : (Nowhere(u, x) <=> Nowhere(t, x)) /\ (Once(u, x) <=> Once(t, x))
    BY <2>4 DEF Nowhere, Once, Busy, Back
  <2>7. Held(u, R \union {k})
    BY <1>3, <2>2, <2>3, <2>5, <2>6 DEF Held
  <2>8. Owed(u)
    <3>1. CASE k = Prj
      BY <1>1, <1>2, <1>3, <1>4, <2>2, <2>3, <2>4, <2>5, <3>1 DEF Owed
    <3>2. CASE k # Prj
      BY <1>1, <1>2, <1>4, <2>4, <2>5, <3>2 DEF Owed
    <3>3. QED
      BY <3>1, <3>2
  <2>9. Waits(u, X) /\ ColdInstances(u) /\ Quiet(u)
    <3>1. Waits(u, X)
      BY <1>1, <2>4, <2>5 DEF Waits, Keys, Aside
    <3>2. ColdInstances(u)
      BY <2>3, <2>4 DEF ColdInstances
    <3>3. Quiet(u)
      BY <2>3, <2>4 DEF Quiet, Calm, Busy, Back
    <3>4. QED
      BY <3>1, <3>2, <3>3
  <2>10. Sound(u, R \union {k}, X)
    BY <2>4, <2>7, <2>8, <2>9 DEF Sound
  <2>11. (R \union {k}) \ {k} = R
    OBVIOUS
  <2>12. /\ Sound(Place(u, k), R, X) /\ StillOwed(u, Place(u, k)) /\ Place(u, k).calls = u.calls
         /\ Place(u, k).warm = u.warm
    <3> DEFINE S == R \union {k}
    <3>1. Sound(u, S, X) /\ S \ {k} = R /\ k \in S
      BY <2>10, <2>11
    <3> HIDE DEF S
    <3>2. QED
      BY <3>1, PlaceSound
  <2>13. u.calls[k] # None
    BY <1>3, <2>2, <2>5
  <2>14. StillOwed(s, Place(u, k))
    <3>1. StillOwed(s, u)
      BY <2>4, <2>5 DEF StillOwed
    <3>2. QED
      BY <2>12, <3>1, StillOwedTrans
  <2>15. QED
    BY <2>1, <2>4, <2>5, <2>12, <2>13, <2>14
<1>7. QED
  BY <1>5, <1>6

(* And so does one that is sent.                                           *)
LEMMA SendType ==
    ASSUME NEW s \in Loop, NEW k \in Keys, NEW fan \in BOOLEAN, NEW wfr \in BOOLEAN
    PROVE  Send(s, k, fan, wfr) \in Loop
<1> DEFINE out == s.calls[k]
           joins == out # None /\ ~(k \in Instances /\ wfr /\ ~out.wfr)
           t == IF out = None THEN s ELSE Cancel(s, k)
           rec == [fan |-> fan \/ (out # None /\ out.fan), wfr |-> wfr]
           u == [t EXCEPT !.calls[k] = rec, !.owed = @ + IF k = Prj THEN 1 ELSE 0]
<1>1. out \in Call \union {None}
  BY DEF Loop
<1>2. CASE joins
  <2> DEFINE both == [fan |-> out.fan \/ fan, wfr |-> out.wfr \/ wfr]
  <2>1. both \in Call
    BY <1>1, <1>2 DEF Call
  <2>2. Send(s, k, fan, wfr) = [s EXCEPT !.calls[k] = both]
    BY <1>2 DEF Send
  <2> HIDE DEF both
  <2>3. [s.calls EXCEPT ![k] = both] \in [Keys -> Call \union {None}]
    BY <2>1 DEF Loop
  <2>4. QED
    BY <2>2, <2>3 DEF Loop
<1>3. CASE ~joins
  <2>1. Send(s, k, fan, wfr) = Place(u, k)
    BY <1>3 DEF Send
  <2>2. rec \in Call
    BY <1>1 DEF Call
  <2>3. t \in Loop
    BY CancelFields
  <2> HIDE DEF t, rec
  <2>4. u \in Loop
    <3> DEFINE calls == [t.calls EXCEPT ![k] = rec]
               owed == t.owed + IF k = Prj THEN 1 ELSE 0
    <3>1. calls \in [Keys -> Call \union {None}] /\ owed \in Int
      BY <2>2, <2>3 DEF Loop
    <3>2. u = [t EXCEPT !.calls = calls, !.owed = owed]
      BY <2>3 DEF Loop
    <3> HIDE DEF calls, owed, u
    <3>3. QED
      BY <2>3, <3>1, <3>2 DEF Loop
  <2>5. QED
    BY <2>1, <2>4, PlaceType
<1>4. QED
  BY <1>2, <1>3

-----------------------------------------------------------------------------
(* A list whose keys the loop takes in hand, one after the other. *)

Rest(list, m) == {list[x] : x \in (m + 1)..Len(list)}
Distinct(list) == \A i, j \in DOMAIN list : list[i] = list[j] => i = j

(* One key taken from the rest of a list without repetition.               *)
LEMMA RestStep ==
    ASSUME NEW list \in Seq(Keys), Distinct(list), NEW m \in 1..Len(list)
    PROVE  list[m] \in Rest(list, m - 1) /\ Rest(list, m - 1) \ {list[m]} = Rest(list, m)
<1>1. Len(list) \in Nat /\ DOMAIN list = 1..Len(list)
  OBVIOUS
<1>2. ((m - 1) + 1)..Len(list) = {m} \union (m + 1)..Len(list)
  BY <1>1
<1>3. \A x \in (m + 1)..Len(list) : list[x] # list[m]
  BY <1>1 DEF Distinct
<1>4. QED
  BY <1>2, <1>3 DEF Rest

(* The keys of a list that is emptied are in hand, each once. *)
LEMMA TakenUp ==
    ASSUME NEW s \in Loop, NEW t \in Loop, NEW list, Held(s, {}),
           t.calls = s.calls, t.worker = s.worker, t.results = s.results,
           \/ list = s.cold /\ t.cold = <<>> /\ t.pending = s.pending /\ t.waiting = s.waiting
           \/ list = s.pending /\ t.cold = s.cold /\ t.pending = <<>> /\ t.waiting = s.waiting
           \/ list = s.waiting /\ t.cold = s.cold /\ t.pending = s.pending /\ t.waiting = <<>>
    PROVE  list \in Seq(Keys) /\ Distinct(list) /\ Held(t, Rest(list, 0))
<1>1. list \in Seq(Keys)
  BY DEF Loop
<1>2. \A x : Positions(<<>>, x) = {}
  BY DEF Positions
<1>3. \A x \in Keys : x \in Rest(list, 0) <=> Positions(list, x) # {}
  BY <1>1 DEF Rest, Positions
<1>4. ASSUME NEW x \in Keys
      PROVE  /\ Positions(list, x) = {} \/ Single(Positions(list, x))
             /\ Positions(list, x) # {} => s.calls[x] # None /\ Nowhere(t, x)
             /\ Positions(list, x) = {} => (Nowhere(s, x) => Nowhere(t, x)) /\ (Once(s, x) => Once(t, x))
  <2>1. IF s.calls[x] = None THEN Nowhere(s, x) ELSE Once(s, x)
    BY DEF Held
  <2>2. Busy(t, x) = Busy(s, x) /\ Back(t, x) = Back(s, x)
    BY DEF Busy, Back
  <2>3. QED
    BY <1>2, <2>1, <2>2 DEF Nowhere, Once, Only
<1>5. Distinct(list)
  <2> SUFFICES ASSUME NEW i \in DOMAIN list, NEW j \in DOMAIN list, list[i] = list[j]
               PROVE  i = j
    BY DEF Distinct
  <2>1. i \in Positions(list, list[i]) /\ j \in Positions(list, list[i]) /\ list[i] \in Keys
    BY <1>1 DEF Positions
  <2>2. QED
    BY <1>4, <2>1 DEF Single
<1>6. ASSUME NEW x \in Keys
      PROVE  IF x \in Rest(list, 0) THEN t.calls[x] # None /\ Nowhere(t, x)
             ELSE IF t.calls[x] = None THEN Nowhere(t, x) ELSE Once(t, x)
  <2>1. IF s.calls[x] = None THEN Nowhere(s, x) ELSE Once(s, x)
    BY DEF Held
  <2>2. QED
    BY <1>3, <1>4, <2>1
<1>7. QED
  BY <1>1, <1>5, <1>6 DEF Held

(* A set of instances can be gone through one by one. *)
LEMMA InTurn ==
    ASSUME NEW who \in SUBSET Instances
    PROVE  /\ Cardinality(who) \in Nat
           /\ SetToSeq(who) \in [1..Cardinality(who) -> Instances]
           /\ SetToSeq(who) \in [1..Cardinality(who) -> who]
<1>1. IsFiniteSet(who)
  BY ChainAssumption, FS_Subset
<1>2. Cardinality(who) \in Nat /\ ExistsBijection(1..Cardinality(who), who)
  BY <1>1, FS_CardinalityType
<1>3. PICK f \in [1..Cardinality(who) -> who] : IsInjective(f)
  BY <1>2 DEF ExistsBijection, Bijection, Injection, IsInjective
<1>4. SetToSeq(who) \in [1..Cardinality(who) -> who]
  BY <1>3 DEF SetToSeq
<1>5. QED
  BY <1>2, <1>4

(* A fan-out sends one read after the other. *)
LEMMA FanOutSound ==
    ASSUME NEW s, NEW X, Sound(s, {}, X), NEW who \in SUBSET Instances
    PROVE  /\ Sound(FanOut(s, who), {}, X) /\ StillOwed(s, FanOut(s, who))
           /\ FanOut(s, who).warm = s.warm
<1> DEFINE n == Cardinality(who)
           seq == SetToSeq(who)
           Good == {t \in Loop : Sound(t, {}, X) /\ StillOwed(s, t) /\ t.warm = s.warm}
           J == [m \in 0..n |-> Good]
<1>1. n \in Nat /\ seq \in [1..n -> Instances]
  BY InTurn
<1>2. s \in Good
  BY DEF Sound, StillOwed, Aside, Answers
<1>3. \A t \in Good, k \in Instances : Send(t, k, TRUE, FALSE) \in Good
  <2> SUFFICES ASSUME NEW t \in Good, NEW k \in Instances
               PROVE  Send(t, k, TRUE, FALSE) \in Good
    OBVIOUS
  <2>1. Sound(t, {}, X) /\ StillOwed(s, t) /\ k \in Keys /\ k \notin {}
    BY DEF Keys
  <2> DEFINE u == Send(t, k, TRUE, FALSE)
             R == {}
             yes == TRUE
             no == FALSE
  <2>2. Sound(u, {}, X) /\ StillOwed(t, u) /\ u.warm = t.warm
    <3>1. k \notin R /\ Sound(t, R, X) /\ yes \in BOOLEAN /\ no \in BOOLEAN
      BY <2>1
    <3> HIDE DEF R, yes, no, u
    <3>2. /\ Sound(Send(t, k, yes, no), R, X) /\ StillOwed(t, Send(t, k, yes, no))
          /\ Send(t, k, yes, no).warm = t.warm
      BY <2>1, <3>1, SendSound
    <3>3. QED
      BY <3>2 DEF R, yes, no, u
  <2> HIDE DEF u
  <2>3. StillOwed(s, u)
    BY <2>2, StillOwedTrans
  <2>4. QED
    BY <2>1, <2>2, <2>3 DEF Sound, u
<1> HIDE DEF n, seq, Good
<1>4. s \in J[0] /\ \A m \in 1..n : \A t \in J[m - 1] : Send(t, seq[m], TRUE, FALSE) \in J[m]
  <2>1. s \in J[0]
    BY <1>1, <1>2
  <2>2. ASSUME NEW m \in 1..n, NEW t \in J[m - 1] PROVE Send(t, seq[m], TRUE, FALSE) \in J[m]
    <3>1. t \in Good /\ seq[m] \in Instances /\ m \in 0..n
      BY <1>1
    <3>2. QED
      BY <1>3, <3>1
  <2>3. QED
    BY <2>1, <2>2
<1>5. J[n] = Good
  BY <1>1
<1> HIDE DEF J
<1>6. SendEach(s, seq) \in J[n]
  BY <1>1, <1>2, <1>3, <1>4, SendFold
<1>7. FanOut(s, who) \in Good
  BY <1>5, <1>6 DEF FanOut, SendEach, seq
<1>8. QED
  BY <1>7 DEF Good

(* What the pool refused is offered again. *)
LEMMA RetriedSound ==
    ASSUME NEW s, NEW X, Sound(s, {}, X)
    PROVE  Sound(Retried(s), {}, X) /\ StillOwed(s, Retried(s)) /\ Retried(s).warm = s.warm
<1> DEFINE list == s.waiting
           n == Len(list)
           base == [s EXCEPT !.waiting = <<>>]
           Like(t) == StillOwed(s, t) /\ t.warm = s.warm
           J == [m \in 0..n |-> {t \in Loop : Sound(t, Rest(list, m), X) /\ Like(t)}]
<1>1. s \in Loop /\ Held(s, {}) /\ Quiet(s)
  BY DEF Sound
<1>2. /\ base \in Loop /\ base.calls = s.calls /\ base.worker = s.worker /\ base.results = s.results
      /\ base.cold = s.cold /\ base.pending = s.pending /\ base.waiting = <<>>
      /\ base.owed = s.owed /\ Like(base)
  <2>1. <<>> \in Seq(Keys)
    OBVIOUS
  <2>2. QED
    BY <1>1, <2>1 DEF Loop, StillOwed, Aside, Answers
<1> HIDE DEF base
<1>3. list \in Seq(Keys) /\ Distinct(list) /\ Held(base, Rest(list, 0))
  BY <1>1, <1>2, TakenUp
<1>4. n \in Nat /\ list \in [1..n -> Keys] /\ Rest(list, n) = {}
  BY <1>3 DEF Rest
<1>5. Sound(base, Rest(list, 0), X)
  <2>1. Quiet(base)
    BY <1>1, <1>2 DEF Quiet, Calm, Busy, Back, Positions
  <2>2. QED
    BY <1>2, <1>3, <2>1 DEF Sound, Owed, Waits, ColdInstances, StillOwed, Aside
<1>6. base \in J[0]
  BY <1>2, <1>4, <1>5
<1>7. \A m \in 1..n : \A t \in J[m - 1] : Offer(t, list[m]) \in J[m]
  <2> SUFFICES ASSUME NEW m \in 1..n, NEW t \in J[m - 1]
               PROVE  Offer(t, list[m]) \in J[m]
    OBVIOUS
  <2>1. m \in 0..n /\ m - 1 \in 0..n /\ list[m] \in Keys
    BY <1>4
  <2>2. Sound(t, Rest(list, m - 1), X) /\ Like(t)
    BY <2>1
  <2>3. list[m] \in Instances => t.warm
    <3>1. m \in Positions(s.waiting, list[m])
      BY <1>4 DEF Positions
    <3>2. QED
      BY <1>1, <2>2, <3>1 DEF Quiet, Calm
  <2>4. list[m] \in Rest(list, m - 1) /\ Rest(list, m - 1) \ {list[m]} = Rest(list, m)
    BY <1>3, RestStep
  <2>5. Sound(Offer(t, list[m]), Rest(list, m), X) /\ Like(Offer(t, list[m]))
    <3> HIDE DEF list, J, n
    <3> DEFINE R == Rest(list, m - 1)
               k == list[m]
               u == Offer(t, k)
    <3>1. /\ Sound(t, R, X) /\ k \in R /\ k \in Keys /\ R \ {k} = Rest(list, m)
          /\ k \in Instances => t.warm
      BY <2>1, <2>2, <2>3, <2>4
    <3> HIDE DEF R, k
    <3>2. Sound(u, R \ {k}, X) /\ StillOwed(t, u) /\ u.warm = t.warm
      BY <3>1, OfferSound
    <3> HIDE DEF u
    <3>3. Like(u)
      BY <2>2, <3>2, StillOwedTrans
    <3>4. QED
      BY <3>1, <3>2, <3>3 DEF k, u
  <2> HIDE DEF Like
  <2>6. QED
    BY <2>1, <2>5 DEF Sound
<1>8. J[n] = {t \in Loop : Sound(t, {}, X) /\ Like(t)}
  BY <1>4
<1>9. \A t \in Loop, k \in Keys : Offer(t, k) \in Loop
  BY OfferType
<1> HIDE DEF J, list, n
<1>10. OfferEach(base, list) \in J[n]
  BY <1>2, <1>4, <1>6, <1>7, <1>9, OfferFold
<1>11. QED
  BY <1>8, <1>10 DEF Retried, OfferEach, base, list

(* A read in hand that is sent once more goes to its place, and is owed as *)
(* it was.                                                                 *)
LEMMA ResendSound ==
    ASSUME NEW s, NEW R, NEW X, NEW k \in Instances, k \in R, Sound(s, R, X)
    PROVE  LET t == Send([s EXCEPT !.calls[k] = None], k, s.calls[k].fan, s.calls[k].wfr)
           IN  Sound(t, R \ {k}, X) /\ StillOwed(s, t)
<1> DEFINE fan == s.calls[k].fan
           wfr == s.calls[k].wfr
           free == [s EXCEPT !.calls[k] = None]
           rec == [fan |-> fan, wfr |-> wfr]
           u == [s EXCEPT !.calls[k] = rec]
           t == Send(free, k, fan, wfr)
<1>1. /\ s \in Loop /\ s.calls \in [Keys -> Call \union {None}] /\ s.owed \in Int
      /\ k \in Keys /\ k # Prj /\ s.calls[k] # None
  BY ChainAssumption DEF Sound, Loop, Held, Keys
<1>2. s.calls[k] \in Call /\ fan \in BOOLEAN /\ wfr \in BOOLEAN
  BY <1>1 DEF Call
<1> HIDE DEF fan, wfr
<1>3. rec \in Call /\ rec # None /\ rec.fan = fan /\ rec.wfr = wfr
  BY <1>2, ChainAssumption DEF Call
<1>4. t = Place(u, k)
  <2>1. free.calls[k] = None /\ free.owed = s.owed /\ free.calls = [s.calls EXCEPT ![k] = None]
    BY <1>1 DEF Loop
  <2> DEFINE v == [free EXCEPT !.calls[k] = [fan |-> fan \/ (free.calls[k] # None /\ free.calls[k].fan),
                                             wfr |-> wfr],
                               !.owed = @ + IF k = Prj THEN 1 ELSE 0]
  <2>2. t = Place(v, k)
    BY <2>1 DEF Send
  <2>3. [fan |-> fan \/ (free.calls[k] # None /\ free.calls[k].fan), wfr |-> wfr] = rec
    BY <1>2, <2>1
  <2> HIDE DEF rec
  <2>4. v = [free EXCEPT !.calls[k] = rec, !.owed = @ + 0]
    BY <1>1, <2>3
  <2>5. [free.calls EXCEPT ![k] = rec] = [s.calls EXCEPT ![k] = rec]
    BY <1>1, <2>1
  <2>6. v = u
    <3> DEFINE before == [s.calls EXCEPT ![k] = None]
               after == [s.calls EXCEPT ![k] = rec]
    <3>1. u = [s EXCEPT !.calls = after] /\ free = [s EXCEPT !.calls = before]
      BY <1>1 DEF Loop
    <3> HIDE DEF v, u, free
    <3>2. v = [free EXCEPT !.calls = after, !.owed = s.owed]
      <4>1. DOMAIN free = DOMAIN s /\ "calls" \in DOMAIN s /\ "owed" \in DOMAIN s
        BY <1>1, <3>1 DEF Loop
      <4>2. free.owed + 0 = s.owed
        BY <1>1, <2>1
      <4>3. QED
        BY <2>1, <2>4, <2>5, <4>1, <4>2
    <3> HIDE DEF before, after
    <3>3. QED
      BY <1>1, <3>1, <3>2 DEF Loop
  <2>7. QED
    BY <2>2, <2>6
<1> HIDE DEF rec, t
<1>5. [s.calls EXCEPT ![k] = rec] \in [Keys -> Call \union {None}]
  BY <1>1, <1>3
<1>6. /\ u \in Loop /\ u.calls = [s.calls EXCEPT ![k] = rec] /\ u.cold = s.cold
      /\ u.pending = s.pending /\ u.waiting = s.waiting /\ u.worker = s.worker
      /\ u.results = s.results /\ u.q = s.q /\ u.owed = s.owed /\ u.warm = s.warm
      /\ u.held = s.held /\ u.proj = s.proj /\ u.net = s.net /\ u.arch = s.arch
      /\ u.ending = s.ending
  BY <1>1, <1>5 DEF Loop
<1> HIDE DEF u
<1>7. \A x \in Keys : u.calls[x] = None <=> s.calls[x] = None
  BY <1>1, <1>3, <1>6
<1>8. \A x \in Keys : (Nowhere(u, x) <=> Nowhere(s, x)) /\ (Once(u, x) <=> Once(s, x))
  BY <1>6 DEF Nowhere, Once, Busy, Back
<1>9. Held(u, R)
  BY <1>7, <1>8 DEF Held, Sound
<1>10. Owed(u) /\ Waits(u, X) /\ ColdInstances(u) /\ Quiet(u)
  BY <1>6, <1>7 DEF Owed, Waits, ColdInstances, Keys, Sound, Quiet, Calm, Busy, Back
<1>11. Sound(u, R, X)
  BY <1>6, <1>9, <1>10 DEF Sound
<1>12. Sound(t, R \ {k}, X) /\ StillOwed(u, t)
  BY <1>1, <1>4, <1>11, PlaceSound
<1>13. StillOwed(s, u)
  BY <1>6, <1>7 DEF StillOwed, Aside, Answers
<1>14. StillOwed(s, t)
  BY <1>12, <1>13, StillOwedTrans
<1>15. QED
  BY <1>12, <1>14 DEF t, fan, wfr

(* The first round's networks known, what was held back is sent, unless a  *)
(* project is still read.                                                  *)
LEMMA FlushSound ==
    ASSUME NEW s, NEW X, Sound(s, {}, X)
    PROVE  /\ Sound(Flush(s), {}, X) /\ StillOwed(s, Flush(s))
           /\ Flush(s).warm /\ ~s.warm => s.calls[Prj] = None
<1>1. CASE s.warm \/ s.owed > 0
  <2> DEFINE t == [s EXCEPT !.asked = TRUE]
  <2>1. Flush(s) = t
    BY <1>1 DEF Flush
  <2>2. s \in Loop
    BY DEF Sound
  <2>3. /\ t \in Loop /\ t.calls = s.calls /\ t.cold = s.cold /\ t.pending = s.pending
        /\ t.waiting = s.waiting /\ t.worker = s.worker /\ t.results = s.results
        /\ t.q = s.q /\ t.owed = s.owed /\ t.warm = s.warm /\ t.held = s.held
        /\ t.proj = s.proj /\ t.net = s.net /\ t.arch = s.arch /\ t.ending = s.ending
    BY <2>2 DEF Loop
  <2> HIDE DEF t
  <2>4. Sound(t, {}, X)
    <3>1. Held(t, {})
      BY <2>3 DEF Sound, Held, Nowhere, Once, Busy, Back
    <3>2. Quiet(t)
      BY <2>3 DEF Sound, Quiet, Calm, Busy, Back
    <3>3. QED
      BY <2>3, <3>1, <3>2 DEF Sound, Owed, Waits, ColdInstances
  <2>5. QED
    BY <2>1, <2>3, <2>4 DEF StillOwed, Aside, Answers
<1>2. CASE ~(s.warm \/ s.owed > 0)
  <2> DEFINE list == s.cold
             n == Len(list)
             base == [s EXCEPT !.asked = TRUE, !.warm = TRUE, !.cold = <<>>]
             J == [m \in 0..n |-> {t \in Loop : Sound(t, Rest(list, m), X) /\ StillOwed(s, t)}]
             Step(t, k) == IF t.calls[k] = None THEN t
                           ELSE Send([t EXCEPT !.calls[k] = None], k, t.calls[k].fan, t.calls[k].wfr)
  <2>1. s \in Loop /\ Held(s, {}) /\ \A x \in DOMAIN list : list[x] \in Instances
    BY DEF Sound, ColdInstances
  <2>2. /\ base \in Loop /\ base.calls = s.calls /\ base.worker = s.worker /\ base.results = s.results
        /\ base.cold = <<>> /\ base.pending = s.pending /\ base.waiting = s.waiting
        /\ base.owed = s.owed /\ base.warm = TRUE /\ StillOwed(s, base)
    <3>1. <<>> \in Seq(Keys)
      OBVIOUS
    <3>2. QED
      BY <2>1, <3>1 DEF Loop, StillOwed, Aside, Answers
  <2> HIDE DEF base
  <2>3. list \in Seq(Keys) /\ Distinct(list) /\ Held(base, Rest(list, 0))
    BY <2>1, <2>2, TakenUp
  <2>4. n \in Nat /\ list \in [1..n -> Keys] /\ Rest(list, n) = {}
    BY <2>3 DEF Rest
  <2>5. Sound(base, Rest(list, 0), X) /\ StillOwed(s, base)
    BY <2>2, <2>3 DEF Sound, Owed, Waits, ColdInstances, StillOwed, Aside, Quiet
  <2>6. base \in J[0]
    BY <2>2, <2>4, <2>5
  <2>7. \A m \in 1..n : \A t \in J[m - 1] : Step(t, list[m]) \in J[m]
    <3> SUFFICES ASSUME NEW m \in 1..n, NEW t \in J[m - 1]
                 PROVE  Step(t, list[m]) \in J[m]
      OBVIOUS
    <3> DEFINE R == Rest(list, m - 1)
               k == list[m]
               u == Send([t EXCEPT !.calls[k] = None], k, t.calls[k].fan, t.calls[k].wfr)
    <3>1. m \in 0..n /\ m - 1 \in 0..n /\ k \in Instances /\ k \in Keys
      BY <2>1, <2>4 DEF Keys
    <3>2. Sound(t, R, X) /\ StillOwed(s, t)
      BY <3>1
    <3>3. k \in R /\ R \ {k} = Rest(list, m)
      BY <2>3, RestStep
    <3>4. t.calls[k] # None
      BY <3>1, <3>2, <3>3 DEF Sound, Held
    <3>5. Step(t, k) = u
      BY <3>4
    <3>6. Sound(u, R \ {k}, X) /\ StillOwed(t, u)
      <4> HIDE DEF R, k, u
      <4>1. QED
        BY <3>1, <3>2, <3>3, ResendSound DEF u
    <3> HIDE DEF R, k, u, Step
    <3>7. Sound(u, Rest(list, m), X) /\ StillOwed(s, u) /\ u \in Loop
      BY <3>2, <3>3, <3>6, StillOwedTrans DEF Sound
    <3>8. QED
      BY <3>1, <3>5, <3>7 DEF k
  <2>8. J[n] = {t \in Loop : Sound(t, {}, X) /\ StillOwed(s, t)}
    BY <2>4
  <2>9. \A t \in Loop, k \in Keys : Step(t, k) \in Loop
    <3> SUFFICES ASSUME NEW t \in Loop, NEW k \in Keys, t.calls[k] # None
                 PROVE  Send([t EXCEPT !.calls[k] = None], k, t.calls[k].fan, t.calls[k].wfr) \in Loop
      OBVIOUS
    <3> DEFINE v == [t EXCEPT !.calls[k] = None]
               fan == t.calls[k].fan
               wfr == t.calls[k].wfr
    <3>1. fan \in BOOLEAN /\ wfr \in BOOLEAN
      BY DEF Loop, Call
    <3>2. [t.calls EXCEPT ![k] = None] \in [Keys -> Call \union {None}]
      BY DEF Loop
    <3>3. v \in Loop
      BY <3>2 DEF Loop
    <3> HIDE DEF v, fan, wfr
    <3>4. Send(v, k, fan, wfr) \in Loop
      BY <3>1, <3>3, SendType
    <3>5. QED
      BY <3>4 DEF v, fan, wfr
  <2> HIDE DEF J, list, n
  <2>10. FlushEach(base, list) \in J[n]
    BY <2>2, <2>4, <2>6, <2>7, <2>9, FlushFold
  <2>11. Flush(s) = FlushEach(base, list)
    BY <1>2 DEF Flush, FlushEach, base, list
  <2>12. s.calls[Prj] = None
    BY <1>2 DEF Sound, Owed
  <2>13. QED
    BY <2>8, <2>10, <2>11, <2>12
<1>3. QED
  BY <1>1, <1>2

(* What waits for an instance waits for no other key. *)
LEMMA NoInstanceWaits ==
    ASSUME NEW s, NEW X, NEW R, Sound(s, R, X), X \intersect Instances = {}
    PROVE  Sound(s, R, {})
BY DEF Sound, Waits

(* A read answered is owed no more, and the last of the projects' lets go  *)
(* of what waited for it.                                                  *)
LEMMA DoneSound ==
    ASSUME NEW s, NEW k \in Keys, Sound(s, {k}, {})
    PROVE  /\ Sound(Done(s, k), {}, {k}) /\ Aside(s, Done(s, k))
           /\ k # Prj => Done(s, k).warm = s.warm
           /\ \A x \in Keys \ {k} : s.calls[x] # None => Done(s, k).calls[x] # None
<1> DEFINE d == [s EXCEPT !.calls[k] = None, !.owed = @ - IF k = Prj THEN 1 ELSE 0]
           f == IF d.asked THEN Flush(d) ELSE d
           list == f.pending
           n == Len(list)
           base == [f EXCEPT !.pending = <<>>]
           Like(t) == /\ Aside(s, t) /\ t.warm = f.warm
                      /\ \A x \in Keys \ {k} : s.calls[x] # None => t.calls[x] # None
           J == [m \in 0..n |-> {t \in Loop : Sound(t, Rest(list, m), {k}) /\ Like(t)}]
<1>1. /\ s \in Loop /\ s.calls \in [Keys -> Call \union {None}] /\ s.owed \in Int
      /\ s.calls[k] # None /\ Nowhere(s, k)
  BY DEF Sound, Loop, Held
<1>2. /\ d \in Loop /\ d.q = s.q /\ d.calls = [s.calls EXCEPT ![k] = None]
      /\ d.owed = s.owed - (IF k = Prj THEN 1 ELSE 0) /\ d.cold = s.cold
      /\ d.pending = s.pending /\ d.waiting = s.waiting /\ d.worker = s.worker
      /\ d.results = s.results /\ d.warm = s.warm /\ Aside(s, d)
  <2>1. [s.calls EXCEPT ![k] = None] \in [Keys -> Call \union {None}]
    BY <1>1
  <2>2. s.owed - (IF k = Prj THEN 1 ELSE 0) \in Int
    BY <1>1
  <2>3. QED
    BY <1>1, <2>1, <2>2 DEF Loop, Aside, Answers
<1>3. Done(s, k) = IF k # Prj THEN d ELSE OwedEach(base, list)
  BY DEF Done, OwedEach
<1> HIDE DEF d
<1>4. \A x \in Keys : (Nowhere(d, x) <=> Nowhere(s, x)) /\ (Once(d, x) <=> Once(s, x))
  BY <1>2 DEF Nowhere, Once, Busy, Back
<1>5. \A x \in Keys : d.calls[x] = IF x = k THEN None ELSE s.calls[x]
  BY <1>1, <1>2
<1>6. Held(d, {})
  BY <1>1, <1>4, <1>5 DEF Held, Sound
<1>7. Owed(d)
  <2>1. Prj \in Keys
    BY DEF Keys
  <2>2. CASE k = Prj
    BY <1>1, <1>2, <1>5, <2>1, <2>2 DEF Owed, Sound
  <2>3. CASE k # Prj
    BY <1>1, <1>2, <1>5, <2>1, <2>3 DEF Owed, Sound
  <2>4. QED
    BY <2>2, <2>3
<1>8. Waits(d, {k}) /\ ColdInstances(d) /\ Quiet(d)
  <2>1. Waits(d, {k}) /\ ColdInstances(d)
    BY <1>2, <1>5 DEF Waits, ColdInstances, Sound, Keys
  <2>2. Quiet(d)
    BY <1>2 DEF Sound, Quiet, Calm, Busy, Back
  <2>3. QED
    BY <2>1, <2>2
<1>9. Sound(d, {}, {k})
  BY <1>2, <1>6, <1>7, <1>8 DEF Sound
<1>10. CASE k # Prj
  BY <1>2, <1>3, <1>5, <1>9, <1>10
<1>11. CASE k = Prj
  <2>1. Sound(f, {}, {k}) /\ Like(f)
    <3>1. \A x \in Keys \ {k} : s.calls[x] # None => d.calls[x] # None
      BY <1>5
    <3>2. Sound(f, {}, {k}) /\ (f = d \/ StillOwed(d, f))
      BY <1>9, FlushSound
    <3> HIDE DEF f
    <3>3. Aside(s, f)
      BY <1>2, <3>2, AsideTrans DEF StillOwed
    <3>4. QED
      BY <3>1, <3>2, <3>3 DEF StillOwed
  <2> HIDE DEF f
  <2>2. f \in Loop /\ Held(f, {}) /\ Quiet(f)
    BY <2>1 DEF Sound
  <2>3. /\ base \in Loop /\ base.calls = f.calls /\ base.worker = f.worker /\ base.results = f.results
        /\ base.cold = f.cold /\ base.pending = <<>> /\ base.waiting = f.waiting
        /\ base.q = f.q /\ base.owed = f.owed /\ base.warm = f.warm /\ StillOwed(f, base)
    <3>1. <<>> \in Seq(Keys)
      OBVIOUS
    <3>2. QED
      BY <2>2, <3>1 DEF Loop, StillOwed, Aside, Answers
  <2> HIDE DEF base
  <2>4. list \in Seq(Keys) /\ Distinct(list) /\ Held(base, Rest(list, 0))
    BY <2>2, <2>3, TakenUp
  <2>5. n \in Nat /\ list \in [1..n -> Keys] /\ Rest(list, n) = {}
    BY <2>4 DEF Rest
  <2>6. Sound(base, Rest(list, 0), {k}) /\ Like(base)
    <3>1. Quiet(base)
      BY <2>2, <2>3 DEF Quiet, Calm, Busy, Back, Positions
    <3>2. Sound(base, Rest(list, 0), {k})
      BY <2>1, <2>3, <2>4, <3>1 DEF Sound, Owed, Waits, ColdInstances
    <3>3. Aside(s, base)
      BY <2>1, <2>3, AsideTrans DEF StillOwed
    <3>4. QED
      BY <2>1, <2>3, <3>2, <3>3
  <2>7. base \in J[0]
    BY <2>3, <2>5, <2>6
  <2>8. \A m \in 1..n : \A t \in J[m - 1] :
            (IF t.calls[list[m]] = None THEN t ELSE Offer(t, list[m])) \in J[m]
    <3> SUFFICES ASSUME NEW m \in 1..n, NEW t \in J[m - 1]
                 PROVE  (IF t.calls[list[m]] = None THEN t ELSE Offer(t, list[m])) \in J[m]
      OBVIOUS
    <3> DEFINE R == Rest(list, m - 1)
               x == list[m]
               u == Offer(t, x)
               X == {k}
    <3>1. m \in 0..n /\ m - 1 \in 0..n /\ x \in Keys
      BY <2>5
    <3>2. Sound(t, R, X) /\ Like(t)
      BY <3>1
    <3>3. x \in R /\ R \ {x} = Rest(list, m)
      BY <2>4, RestStep
    <3>4. t.calls[x] # None
      BY <3>1, <3>2, <3>3 DEF Sound, Held
    <3>5. x \in Instances => t.warm
      <4>1. m \in Positions(f.pending, x)
        BY <2>5 DEF Positions
      <4>2. QED
        BY <2>2, <3>2, <4>1 DEF Quiet, Calm
    <3> HIDE DEF R, x, X
    <3>6. Sound(u, R \ {x}, X) /\ StillOwed(t, u) /\ u.warm = t.warm
      BY <3>1, <3>2, <3>3, <3>5, OfferSound
    <3> HIDE DEF u
    <3>7. Sound(u, Rest(list, m), {k}) /\ Like(u) /\ u \in Loop
      <4>1. Aside(s, u)
        BY <3>2, <3>6, AsideTrans DEF StillOwed
      <4>2. QED
        BY <3>2, <3>3, <3>6, <4>1 DEF Sound, X, StillOwed
    <3>8. (IF t.calls[list[m]] = None THEN t ELSE Offer(t, list[m])) = u
      BY <3>4 DEF u, x
    <3> HIDE DEF Like
    <3>9. QED
      BY <3>1, <3>7, <3>8
  <2>9. J[n] = {t \in Loop : Sound(t, {}, {k}) /\ Like(t)}
    <3> HIDE DEF Like
    <3> DEFINE Good(m) == {t \in Loop : Sound(t, Rest(list, m), {k}) /\ Like(t)}
    <3>1. J[n] = Good(n)
      <4>1. J = [m \in 0..n |-> Good(m)]
        OBVIOUS
      <4>2. n \in 0..n
        BY <2>5
      <4> HIDE DEF Good, J, n
      <4>3. QED
        BY <4>1, <4>2
    <3> HIDE DEF J, list, n
    <3>2. QED
      BY <2>5, <3>1
  <2>10. \A t \in Loop, x \in Keys : (IF t.calls[x] = None THEN t ELSE Offer(t, x)) \in Loop
    BY OfferType
  <2> HIDE DEF J, list, n
  <2>11. OwedEach(base, list) \in J[n]
    BY <2>3, <2>5, <2>7, <2>8, <2>10, OwedFold
  <2>12. QED
    BY <1>3, <1>11, <2>9, <2>11
<1>12. QED
  BY <1>10, <1>11

-----------------------------------------------------------------------------
(* What leaves the reads alone: only who waits in the line is to be shown. *)

SameReads(s, t) ==
    /\ t.calls = s.calls /\ t.cold = s.cold /\ t.pending = s.pending /\ t.waiting = s.waiting
    /\ t.worker = s.worker /\ t.results = s.results /\ t.owed = s.owed /\ t.warm = s.warm

(* The reads stay sound when only the line or what is held changes.        *)
LEMMA SameReadsSound ==
    ASSUME NEW s, NEW t \in Loop, NEW R, NEW X, NEW Y, Sound(s, R, X), SameReads(s, t), Waits(t, Y)
    PROVE  Sound(t, R, Y)
<1>1. \A k : (Nowhere(t, k) <=> Nowhere(s, k)) /\ (Once(t, k) <=> Once(s, k))
  BY DEF SameReads, Nowhere, Once, Busy, Back
<1>2. Held(t, R)
  BY <1>1 DEF Held, Sound, SameReads
<1>3. Quiet(t)
  BY DEF Sound, SameReads, Quiet, Calm, Busy, Back
<1>4. QED
  BY <1>2, <1>3 DEF Sound, SameReads, Owed, ColdInstances

(* Nor what is done about what is due, filed, or to be said at the end. *)
SameSaid(s, t) == t.q = s.q /\ t.held = s.held /\ t.proj = s.proj

(* Nor what is filed, and what is known of the networks and the round.     *)
SameRest(s, t) == t.arch = s.arch /\ t.net = s.net /\ t.ending = s.ending

(* What is neither about reads nor about what is said. *)
LEMMA SameFits ==
    ASSUME NEW s, NEW t, SameReads(s, t), SameSaid(s, t)
    PROVE  Fits(s, t)
  BY DEF SameReads, SameSaid, Fits, Fit, Asked

(* An event that is taken in, of the kinds there are: one about an         *)
(* instance names it, and none says anything yet.                          *)
Proper(ev) ==
    /\ ev \in Event /\ ev.data = None /\ ~ev.failed
    /\ ev.act \in {"updated", "started", "deleted"} => ev.who \in Instances

(* Pushed is appended, with the reads and what is held left alone.         *)
LEMMA PushType ==
    ASSUME NEW s \in Loop, NEW ev \in Event, NEW st \in {"wait", "go", "skip"}
    PROVE  /\ Push(s, ev, st) \in Loop /\ SameReads(s, Push(s, ev, st))
           /\ \A j \in DOMAIN Push(s, ev, st).q :
                 \/ j \in DOMAIN s.q /\ Push(s, ev, st).q[j] = s.q[j]
                 \/ Push(s, ev, st).q[j] = [ev |-> ev, st |-> st]
           /\ Push(s, ev, st).held = s.held /\ Push(s, ev, st).proj = s.proj
           /\ SameRest(s, Push(s, ev, st)) /\ Push(s, ev, st).q = Append(s.q, [ev |-> ev, st |-> st])
<1> DEFINE it == [ev |-> ev, st |-> st]
           q == Append(s.q, it)
           t == Push(s, ev, st)
<1>1. it \in Item
  BY DEF Item
<1>2. s.q \in Seq(Item)
  BY DEF Loop
<1>3. t = [s EXCEPT !.q = q]
  BY DEF Push, Loop
<1> HIDE DEF it, t
<1>4. q \in Seq(Item)
  BY <1>1, <1>2
<1>5. \A j \in DOMAIN q : (j \in DOMAIN s.q /\ q[j] = s.q[j]) \/ q[j] = it
  BY <1>1, <1>2
<1>6. q = Append(s.q, it)
  OBVIOUS
<1> HIDE DEF q
<1>7. t \in Loop /\ SameReads(s, t) /\ t.q = q /\ t.held = s.held /\ t.proj = s.proj
      /\ SameRest(s, t)
  BY <1>3, <1>4 DEF Loop, SameReads, SameRest
<1>8. QED
  BY <1>5, <1>6, <1>7 DEF t, it

(* An event put in the line that does not wait, or waits for what the loop *)
(* has in hand.                                                            *)
LEMMA PushSound ==
    ASSUME NEW s, NEW R, NEW X, Sound(s, R, X), NEW ev \in Event, NEW st \in {"wait", "go", "skip"},
           st = "wait" => ev.who \in Instances /\ ev.who \in X
    PROVE  /\ Sound(Push(s, ev, st), R, X)
           /\ (Fit(s) /\ ev.data # None => ev.data.proj) => Fits(s, Push(s, ev, st))
<1> DEFINE t == Push(s, ev, st)
<1>1. s \in Loop /\ Waits(s, X)
  BY DEF Sound
<1>2. /\ t \in Loop /\ SameReads(s, t)
      /\ \A j \in DOMAIN t.q : (j \in DOMAIN s.q /\ t.q[j] = s.q[j]) \/ t.q[j] = [ev |-> ev, st |-> st]
      /\ t.held = s.held /\ t.proj = s.proj
  BY <1>1, PushType
<1> HIDE DEF t
<1>3. Waits(t, X)
  BY <1>1, <1>2 DEF Waits, SameReads
<1>4. Sound(t, R, X)
  BY <1>2, <1>3, SameReadsSound
<1>5. ASSUME Fit(s) /\ ev.data # None => ev.data.proj PROVE Fits(s, t)
  BY <1>2, <1>5 DEF SameReads, Fits, Fit, Asked
<1>6. QED
  BY <1>4, <1>5 DEF t

(* An event put in the line keeps the round whole, unless it is one that   *)
(* may not come now.                                                       *)
LEMMA PushKeeps ==
    ASSUME NEW s \in Loop, NEW ev \in Event, NEW st \in {"wait", "go", "skip"},
           NEW i, NEW b,
           ~(ev.act = "deleted" /\ ev.who = i), ev.act = "sweep-end" => Safe(s, i, b),
           st = "wait" => ~ev.failed /\ ev.act \in {"updated", "started"}
    PROVE  /\ Keeps(s, Push(s, ev, st), i, b)
           /\ st = "wait" /\ ev.who = i =>
                 \E r \in DOMAIN Push(s, ev, st).q : Tells(Push(s, ev, st).q[r], i)
<1> DEFINE it == [ev |-> ev, st |-> st]
           n == Len(s.q)
<1>1. PICK t : t = Push(s, ev, st)
  OBVIOUS
<1>2. /\ t \in Loop /\ SameReads(s, t) /\ SameRest(s, t) /\ t.q = Append(s.q, it)
  BY <1>1, PushType
<1>3. /\ n \in Nat /\ DOMAIN s.q = 1..n /\ DOMAIN t.q = 1..(n + 1) /\ t.q[n + 1] = it
      /\ \A j \in 1..n : t.q[j] = s.q[j]
  BY <1>2 DEF Loop
<1>4. it.ev = ev /\ it.st = st
  OBVIOUS
<1> HIDE DEF it, n
<1>5. ASSUME EndsAfter(s, i, b) PROVE EndsAfter(t, i, b)
  <2> SUFFICES ASSUME NEW p \in DOMAIN t.q, t.q[p].ev.act = "sweep-end"
               PROVE  t.net # 0 /\ (b \/ \E r \in DOMAIN t.q : r < p /\ Tells(t.q[r], i))
    BY DEF EndsAfter
  <2>1. CASE p = n + 1
    <3>1. Safe(s, i, b)
      BY <1>3, <1>4, <2>1
    <3>2. CASE b
      BY <1>2, <3>1, <3>2 DEF SameRest, Safe
    <3>3. CASE ~b
      <4>1. PICK r \in DOMAIN s.q : Tells(s.q[r], i)
        BY <3>1, <3>3 DEF Safe
      <4>2. r \in DOMAIN t.q /\ r < p /\ t.q[r] = s.q[r]
        BY <1>3, <2>1, <4>1
      <4>3. QED
        BY <1>2, <3>1, <4>1, <4>2 DEF SameRest, Safe
    <3>4. QED
      BY <3>2, <3>3
  <2>2. CASE p \in 1..n
    <3>1. s.net # 0 /\ (b \/ \E r \in DOMAIN s.q : r < p /\ Tells(s.q[r], i))
      BY <1>3, <1>5, <2>2 DEF EndsAfter
    <3>2. QED
      BY <1>2, <1>3, <3>1 DEF SameRest
  <2>3. QED
    BY <1>3, <2>1, <2>2
<1>6. ASSUME FiledTold(s, i, b) PROVE FiledTold(t, i, b)
  <2> SUFFICES ASSUME t.arch[i] # None, ~b
               PROVE  \E r \in DOMAIN t.q :
                         /\ Spoken(t.q[r], i)
                         /\ \A x \in DOMAIN t.q : t.q[x].st = "wait" /\ t.q[x].ev.who = i => r < x
    BY DEF FiledTold
  <2>1. PICK r \in DOMAIN s.q :
           /\ Spoken(s.q[r], i)
           /\ \A x \in DOMAIN s.q : s.q[x].st = "wait" /\ s.q[x].ev.who = i => r < x
    BY <1>2, <1>6 DEF FiledTold, SameRest
  <2>2. r \in DOMAIN t.q /\ Spoken(t.q[r], i)
    BY <1>3, <2>1
  <2>3. ASSUME NEW x \in DOMAIN t.q, t.q[x].st = "wait" /\ t.q[x].ev.who = i PROVE r < x
    BY <1>3, <2>1, <2>3
  <2>4. QED
    BY <2>2, <2>3
<1>7. ASSUME Stays(s, i) PROVE Stays(t, i)
  <2>1. \A p \in DOMAIN t.q : (p \in DOMAIN s.q /\ t.q[p] = s.q[p]) \/ t.q[p] = it
    BY <1>3
  <2>2. QED
    BY <1>2, <1>4, <1>7, <2>1 DEF Stays, SameReads
<1>8. ASSUME Safe(s, i, b) PROVE Safe(t, i, b)
  BY <1>2, <1>3, <1>8 DEF Safe, SameRest
<1>9. st = "wait" /\ ev.who = i => \E r \in DOMAIN t.q : Tells(t.q[r], i)
  <2>1. n + 1 \in DOMAIN t.q
    BY <1>3
  <2>2. QED
    BY <1>3, <1>4, <2>1 DEF Tells
<1>10. QED
  BY <1>1, <1>2, <1>5, <1>6, <1>7, <1>8, <1>9 DEF Keeps, Stands, Whole, SameRest

(* What is rewritten of what is held, filed and due is none of the reads.  *)
LEMMA BookType ==
    ASSUME NEW s \in Loop, NEW i \in Instances
    PROVE  /\ Forgotten(s, i) \in Loop /\ SameReads(s, Forgotten(s, i)) /\ Forgotten(s, i).q = s.q
           /\ Fits(s, Forgotten(s, i))
           /\ \A x \in Instances \ {i} : SameLine(s, Forgotten(s, i), x)
           /\ Soon(s, i) \in Loop /\ SameReads(s, Soon(s, i)) /\ SameSaid(s, Soon(s, i))
           /\ SameRest(s, Soon(s, i))
           /\ \A ev \in Event : ev.who = i =>
                 /\ Filed(s, ev) \in Loop /\ SameReads(s, Filed(s, ev)) /\ SameSaid(s, Filed(s, ev))
                 /\ Filed(s, ev).net = s.net /\ Filed(s, ev).ending = s.ending
                 /\ Filed(s, ev).arch[i] = ev
                 /\ \A x \in Instances \ {i} : SameLine(s, Filed(s, ev), x)
           /\ \A ans \in Answer : /\ SetInstance(s, i, ans) \in Loop
                                  /\ SameReads(s, SetInstance(s, i, ans))
                                  /\ SetInstance(s, i, ans).q = s.q
                                  /\ SameRest(s, SetInstance(s, i, ans))
                                  /\ SetInstance(s, i, ans).held[i] # None
                                  /\ s.proj => Fits(s, SetInstance(s, i, ans))
<1>1. /\ s.held \in [Instances -> Said \union {None}] /\ s.arch \in [Instances -> Event \union {None}]
      /\ s.due \in [Instances -> 0..DueCap] /\ s.net \in Nat /\ s.proj \in BOOLEAN
  BY DEF Loop
<1>2. /\ Forgotten(s, i) \in Loop /\ SameReads(s, Forgotten(s, i)) /\ Forgotten(s, i).q = s.q
      /\ Fits(s, Forgotten(s, i))
      /\ \A x \in Instances \ {i} : SameLine(s, Forgotten(s, i), x)
  <2> DEFINE held == [s.held EXCEPT ![i] = None]
             arch == [s.arch EXCEPT ![i] = None]
  <2>1. held \in [Instances -> Said \union {None}] /\ arch \in [Instances -> Event \union {None}]
    BY <1>1
  <2>2. Forgotten(s, i) = [s EXCEPT !.held = held, !.arch = arch]
    BY DEF Forgotten, Loop
  <2>3. /\ \A x \in Instances : held[x] # None => s.held[x] # None /\ held[x] = s.held[x]
        /\ \A x \in Instances \ {i} : arch[x] = s.arch[x]
    BY <1>1
  <2> HIDE DEF held, arch
  <2>4. /\ Forgotten(s, i) \in Loop /\ SameReads(s, Forgotten(s, i)) /\ Forgotten(s, i).q = s.q
        /\ Forgotten(s, i).held = held /\ Forgotten(s, i).proj = s.proj
        /\ Forgotten(s, i).arch = arch /\ Forgotten(s, i).net = s.net
        /\ Forgotten(s, i).ending = s.ending
    BY <2>1, <2>2 DEF Loop, SameReads
  <2>5. \A x \in Instances \ {i} : SameLine(s, Forgotten(s, i), x)
    BY <2>3, <2>4 DEF SameReads, SameLine, Answers
  <2>6. QED
    BY <2>3, <2>4, <2>5 DEF SameReads, Fits, Fit, Asked
<1>3. /\ Soon(s, i) \in Loop /\ SameReads(s, Soon(s, i)) /\ SameSaid(s, Soon(s, i))
      /\ SameRest(s, Soon(s, i))
  <2> DEFINE due == [s.due EXCEPT ![i] = IF @ = DueCap THEN @ ELSE @ + 1]
  <2>1. due \in [Instances -> 0..DueCap]
    BY <1>1, ChainAssumption
  <2>2. Soon(s, i) = [s EXCEPT !.due = due]
    BY DEF Soon, Loop
  <2> HIDE DEF due
  <2>3. QED
    BY <2>1, <2>2 DEF Loop, SameReads, SameSaid, SameRest
<1>4. ASSUME NEW ev \in Event, ev.who = i
      PROVE  /\ Filed(s, ev) \in Loop /\ SameReads(s, Filed(s, ev)) /\ SameSaid(s, Filed(s, ev))
             /\ Filed(s, ev).net = s.net /\ Filed(s, ev).ending = s.ending
             /\ Filed(s, ev).arch[i] = ev
             /\ \A x \in Instances \ {i} : SameLine(s, Filed(s, ev), x)
  <2> DEFINE arch == [s.arch EXCEPT ![i] = ev]
             t == Filed(s, ev)
  <2>1. /\ arch \in [Instances -> Event \union {None}] /\ arch[i] = ev
        /\ \A x \in Instances \ {i} : arch[x] = s.arch[x]
    BY <1>1
  <2>2. Filed(s, ev) = [s EXCEPT !.arch = arch]
    BY <1>4 DEF Filed, Loop
  <2> HIDE DEF arch
  <2>3. /\ t \in Loop /\ SameReads(s, t) /\ SameSaid(s, t)
        /\ t.net = s.net /\ t.ending = s.ending /\ t.arch = arch
    BY <2>1, <2>2 DEF Loop, SameReads, SameSaid
  <2>4. \A x \in Instances \ {i} : SameLine(s, t, x)
    BY <2>1, <2>3 DEF SameReads, SameSaid, SameLine, Answers
  <2>5. QED
    BY <2>1, <2>3, <2>4
<1>5. ASSUME NEW ans \in Answer
      PROVE  /\ SetInstance(s, i, ans) \in Loop /\ SameReads(s, SetInstance(s, i, ans))
             /\ SetInstance(s, i, ans).q = s.q
             /\ SameRest(s, SetInstance(s, i, ans))
             /\ SetInstance(s, i, ans).held[i] # None
             /\ s.proj => Fits(s, SetInstance(s, i, ans))
  <2> DEFINE said == [c |-> ans.c, up |-> ans.up, net |-> s.net, proj |-> s.proj]
             held == [s.held EXCEPT ![i] = said]
  <2>1. said \in Said /\ said.proj = s.proj /\ said # None
    <3>1. said \in Said /\ said.proj = s.proj
      BY <1>1 DEF Said, Answer
    <3> HIDE DEF said
    <3>2. QED
      BY <3>1, ChainAssumption
  <2>2. SetInstance(s, i, ans) = [s EXCEPT !.held = held]
    BY DEF SetInstance, Loop
  <2> HIDE DEF said
  <2>3. /\ held \in [Instances -> Said \union {None}]
        /\ \A x \in Instances : held[x] = said \/ held[x] = s.held[x]
        /\ held[i] = said
    BY <1>1, <2>1
  <2> HIDE DEF held
  <2>4. LET t == SetInstance(s, i, ans)
        IN  /\ t \in Loop /\ SameReads(s, t) /\ t.q = s.q /\ t.held = held /\ t.proj = s.proj
            /\ SameRest(s, t)
    BY <2>2, <2>3 DEF Loop, SameReads, SameRest
  <2>5. QED
    BY <2>1, <2>3, <2>4 DEF SameReads, Fits, Fit, Asked
<1>6. QED
  BY <1>2, <1>3, <1>4, <1>5

(* What leaves the line and the rest alone leaves the round alone.         *)
LEMMA RestSameLine ==
    ASSUME NEW s, NEW t, SameReads(s, t), t.q = s.q, SameRest(s, t), NEW i
    PROVE  SameLine(s, t, i)
  BY DEF SameReads, SameRest, SameLine, Answers

(* Settling one place of the line: it waits no more, and the rest stands.  *)
LEMMA SettleItemType ==
    ASSUME NEW s \in Loop, NEW j \in DOMAIN s.q, s.q[j].ev.who \in Instances, NEW landed \in BOOLEAN
    PROVE  LET t == SettleItem(s, j, landed)
           IN  /\ t \in Loop /\ SameReads(s, t) /\ DOMAIN t.q = DOMAIN s.q
               /\ t.q[j].st # "wait" /\ t.q[j].ev.who = s.q[j].ev.who
               /\ \A x \in DOMAIN s.q : x # j => t.q[x] = s.q[x]
               /\ t.held = s.held /\ t.proj = s.proj /\ Fits(s, t)
               /\ t.net = s.net /\ t.ending = s.ending /\ t.q[j].ev.act = s.q[j].ev.act
               /\ \A x \in Instances : ~landed \/ x # s.q[j].ev.who => t.arch[x] = s.arch[x]
               /\ landed => /\ t.arch[s.q[j].ev.who] = t.q[j].ev
                            /\ t.q[j].ev.data = s.held[s.q[j].ev.who]
                            /\ t.q[j].ev.failed = s.q[j].ev.failed
                            /\ t.q[j].st = "go" \/ s.arch[s.q[j].ev.who] = t.q[j].ev
<1> DEFINE who == s.q[j].ev.who
           failed == [s.q[j].ev EXCEPT !.failed = TRUE]
           ev == [s.q[j].ev EXCEPT !.data = s.held[who]]
<1>1. s.q \in Seq(Item) /\ s.held \in [Instances -> Said \union {None}]
  BY DEF Loop
<1>2. s.q[j] \in Item /\ DOMAIN s.q = 1..Len(s.q)
  BY <1>1
<1>3. /\ failed \in Event /\ ev \in Event /\ ev.who = who /\ failed.who = who
      /\ failed.data = s.q[j].ev.data /\ ev.data = s.held[who]
      /\ failed.act = s.q[j].ev.act /\ ev.act = s.q[j].ev.act /\ ev.failed = s.q[j].ev.failed
  BY <1>1, <1>2 DEF Item, Event
<1>4. ASSUME NEW it \in Item, NEW r \in Loop, r.q = s.q, SameReads(s, r), r.held = s.held, r.proj = s.proj,
             it.st # "wait", it.ev.who = who, it.ev.data \in {s.q[j].ev.data, s.held[who]},
             r.net = s.net, r.ending = s.ending
      PROVE  LET t == [r EXCEPT !.q[j] = it]
             IN  /\ t \in Loop /\ SameReads(s, t) /\ DOMAIN t.q = DOMAIN s.q
                 /\ t.q[j].st # "wait" /\ t.q[j].ev.who = who
                 /\ \A x \in DOMAIN s.q : x # j => t.q[x] = s.q[x]
                 /\ t.held = s.held /\ t.proj = s.proj /\ Fits(s, t)
                 /\ t.net = s.net /\ t.ending = s.ending /\ t.arch = r.arch /\ t.q[j] = it
  <2> DEFINE q == [s.q EXCEPT ![j] = it]
  <2>1. /\ q \in Seq(Item) /\ DOMAIN q = DOMAIN s.q /\ q[j] = it
        /\ \A x \in DOMAIN s.q : x # j => q[x] = s.q[x]
    BY <1>1, <1>2
  <2>2. [r EXCEPT !.q[j] = it] = [r EXCEPT !.q = q]
    BY <1>4 DEF Loop
  <2> HIDE DEF q
  <2>3. [r EXCEPT !.q = q] \in Loop /\ SameReads(s, [r EXCEPT !.q = q]) /\ [r EXCEPT !.q = q].q = q
        /\ [r EXCEPT !.q = q].held = s.held /\ [r EXCEPT !.q = q].proj = s.proj
        /\ [r EXCEPT !.q = q].net = s.net /\ [r EXCEPT !.q = q].ending = s.ending
        /\ [r EXCEPT !.q = q].arch = r.arch
    BY <1>4, <2>1 DEF Loop, SameReads
  <2>4. PICK t : t = [r EXCEPT !.q = q]
    OBVIOUS
  <2>5. Fits(s, t)
    BY <1>4, <2>1, <2>3, <2>4 DEF SameReads, Fits, Fit, Asked
  <2>6. QED
    BY <1>4, <2>1, <2>2, <2>3, <2>4, <2>5
<1> HIDE DEF failed, ev
<1>5. CASE ~landed
  <2> DEFINE it == [ev |-> failed, st |-> "go"]
  <2>1. /\ it \in Item /\ it.st # "wait" /\ it.ev.who = who /\ it.ev.data = s.q[j].ev.data
        /\ it.ev.act = s.q[j].ev.act
    BY <1>3 DEF Item
  <2>2. SettleItem(s, j, landed) = [s EXCEPT !.q[j] = it]
    BY <1>5 DEF SettleItem, failed
  <2> HIDE DEF it
  <2>3. SameReads(s, s)
    BY DEF SameReads
  <2>4. QED
    BY <1>4, <1>5, <2>1, <2>2, <2>3
<1>6. CASE landed
  <2> DEFINE r == Filed(s, ev)
             it == [ev |-> ev, st |-> IF News(s, ev) THEN "go" ELSE "skip"]
  <2>1. /\ it \in Item /\ it.st # "wait" /\ it.ev.who = who /\ it.ev.data = s.held[who]
        /\ it.ev.act = s.q[j].ev.act /\ it.ev = ev /\ it.ev.failed = s.q[j].ev.failed
        /\ it.st = "go" \/ s.arch[who] = ev
    <3>1. it.st = "go" \/ s.arch[who] = ev
      BY <1>3 DEF News
    <3>2. QED
      BY <1>3, <3>1 DEF Item
  <2>2. SettleItem(s, j, landed) = [r EXCEPT !.q[j] = it]
    BY <1>6 DEF SettleItem, ev
  <2>3. r \in Loop /\ SameReads(s, r) /\ r.q = s.q
    BY <1>3, BookType DEF SameSaid
  <2>4. /\ r.held = s.held /\ r.proj = s.proj /\ r.net = s.net /\ r.ending = s.ending
        /\ r.arch[who] = ev
        /\ \A x \in Instances \ {who} : r.arch[x] = s.arch[x]
    <3>1. \A x \in Instances \ {who} : SameLine(s, r, x)
      BY <1>3, BookType
    <3> HIDE DEF who
    <3>2. \A x \in Instances \ {who} : r.arch[x] = s.arch[x]
      BY <3>1 DEF SameLine
    <3> USE DEF who
    <3>3. QED
      BY <1>3, <3>2, BookType DEF SameSaid
  <2> HIDE DEF it, r
  <2>5. PICK t : t = [r EXCEPT !.q[j] = it]
    OBVIOUS
  <2>6. it.ev.data \in {s.q[j].ev.data, s.held[who]}
    BY <2>1
  <2>7. /\ t \in Loop /\ SameReads(s, t) /\ DOMAIN t.q = DOMAIN s.q
        /\ t.q[j].st # "wait" /\ t.q[j].ev.who = who
        /\ \A x \in DOMAIN s.q : x # j => t.q[x] = s.q[x]
        /\ t.held = s.held /\ t.proj = s.proj /\ Fits(s, t)
        /\ t.net = s.net /\ t.ending = s.ending /\ t.arch = r.arch /\ t.q[j] = it
    <3> HIDE DEF who
    <3>1. PICK u, v : u = it /\ v = r
      OBVIOUS
    <3>2. /\ u \in Item /\ v \in Loop /\ v.q = s.q /\ SameReads(s, v) /\ v.held = s.held
          /\ v.proj = s.proj /\ u.st # "wait" /\ u.ev.who = who
          /\ u.ev.data \in {s.q[j].ev.data, s.held[who]} /\ v.net = s.net /\ v.ending = s.ending
      BY <2>1, <2>3, <2>4, <2>6, <3>1
    <3>3. LET w == [v EXCEPT !.q[j] = u]
          IN  /\ w \in Loop /\ SameReads(s, w) /\ DOMAIN w.q = DOMAIN s.q
              /\ w.q[j].st # "wait" /\ w.q[j].ev.who = who
              /\ \A x \in DOMAIN s.q : x # j => w.q[x] = s.q[x]
              /\ w.held = s.held /\ w.proj = s.proj /\ Fits(s, w)
              /\ w.net = s.net /\ w.ending = s.ending /\ w.arch = v.arch /\ w.q[j] = u
      BY <1>4, <3>2
    <3>4. QED
      BY <2>5, <3>1, <3>3
  <2>8. t = SettleItem(s, j, landed)
    BY <2>2, <2>5
  <2>9. QED
    BY <1>6, <2>1, <2>4, <2>7, <2>8
<1>7. QED
  BY <1>5, <1>6

(* The answer about k is not about i; or it found i, or its network is not *)
(* known yet.                                                              *)
Meant(s, k, i, landed) == k # i \/ (landed /\ s.held[i] # None) \/ (~landed /\ s.net = 0)
AllKept(s, t, k, landed) ==
    \A i \in Instances, b \in BOOLEAN : Meant(s, k, i, landed) => Keeps(s, t, i, b)

(* Settling the first place that waits for an instance's read keeps the    *)
(* round: what was whole is told of, or has been, and is not passed over.  *)
LEMMA SettleItemKeeps ==
    ASSUME NEW s \in Loop, NEW j \in DOMAIN s.q, NEW k \in Instances, NEW landed \in BOOLEAN,
           s.q[j].st = "wait", s.q[j].ev.who = k,
           \A x \in DOMAIN s.q : s.q[x].st = "wait" /\ s.q[x].ev.who = k => j <= x,
           NEW i \in Instances, NEW b,
           Meant(s, k, i, landed)
    PROVE  Keeps(s, SettleItem(s, j, landed), i, b)
<1>1. PICK t : t = SettleItem(s, j, landed)
  OBVIOUS
<1>2. /\ t \in Loop /\ SameReads(s, t) /\ DOMAIN t.q = DOMAIN s.q
      /\ t.q[j].st # "wait" /\ t.q[j].ev.who = k
      /\ \A x \in DOMAIN s.q : x # j => t.q[x] = s.q[x]
      /\ t.net = s.net /\ t.ending = s.ending /\ t.q[j].ev.act = s.q[j].ev.act
      /\ \A x \in Instances : ~landed \/ x # k => t.arch[x] = s.arch[x]
      /\ landed => /\ t.arch[k] = t.q[j].ev /\ t.q[j].ev.data = s.held[k]
                   /\ t.q[j].ev.failed = s.q[j].ev.failed
                   /\ t.q[j].st = "go" \/ s.arch[k] = t.q[j].ev
  BY <1>1, SettleItemType
<1>3. DOMAIN s.q \subseteq Nat /\ \A x \in DOMAIN t.q : t.q[x] \in Item
  BY <1>2 DEF Loop
<1> SUFFICES ASSUME Whole(s, i, b)
             PROVE  Whole(t, i, b) /\ (Safe(s, i, b) => Safe(t, i, b))
  BY <1>1, <1>2 DEF Keeps, Stands
<1>4. EndsAfter(s, i, b) /\ FiledTold(s, i, b) /\ Stays(s, i)
  BY DEF Whole
<1>5. Stays(t, i)
  <2>1. \A x \in DOMAIN t.q : t.q[x].ev.who = s.q[x].ev.who /\ t.q[x].ev.act = s.q[x].ev.act
    BY <1>2
  <2>2. \A x \in DOMAIN t.q : t.q[x].st = "wait" => t.q[x] = s.q[x]
    BY <1>2
  <2>3. t.results = s.results
    BY <1>2 DEF SameReads
  <2>4. QED
    BY <1>2, <1>4, <2>1, <2>2, <2>3 DEF Stays
<1>6. ~s.q[j].ev.failed /\ s.q[j].ev.act \in {"updated", "started"}
  BY <1>4 DEF Stays
<1>7. \A x \in DOMAIN t.q : t.q[x].ev.act = "sweep-end" =>
         x \in DOMAIN s.q /\ s.q[x].ev.act = "sweep-end"
  BY <1>2
<1>8. k = i /\ landed => (t.q[j].st = "go" => Spoken(t.q[j], i))
  BY <1>2, <1>6 DEF Spoken, Meant
<1>9. CASE ~landed /\ s.net = 0 /\ k = i
  <2>1. EndsAfter(t, i, b)
    BY <1>4, <1>7, <1>9 DEF EndsAfter
  <2>2. FiledTold(t, i, b)
    <3> SUFFICES ASSUME t.arch[i] # None, ~b
                 PROVE  \E r \in DOMAIN t.q :
                           /\ Spoken(t.q[r], i)
                           /\ \A x \in DOMAIN t.q : t.q[x].st = "wait" /\ t.q[x].ev.who = i => r < x
      BY DEF FiledTold
    <3>1. PICK r \in DOMAIN s.q :
             /\ Spoken(s.q[r], i)
             /\ \A x \in DOMAIN s.q : s.q[x].st = "wait" /\ s.q[x].ev.who = i => r < x
      BY <1>2, <1>4, <1>9 DEF FiledTold
    <3>2. r # j
      BY <3>1 DEF Spoken
    <3>3. QED
      BY <1>2, <3>1, <3>2
  <2>3. ~Safe(s, i, b)
    BY <1>9 DEF Safe
  <2>4. QED
    BY <1>5, <2>1, <2>2, <2>3 DEF Whole
<1>10. CASE k # i \/ (landed /\ s.held[i] # None)
  <2> DEFINE Soonest == \A r \in DOMAIN s.q : Tells(s.q[r], i) =>
                           \E y \in DOMAIN t.q : y <= r /\ Tells(t.q[y], i)
  <2>1. b \/ (FiledTold(t, i, b) /\ Soonest)
    <3>1. CASE k # i
      <4>1. /\ \A x \in DOMAIN s.q : (Spoken(t.q[x], i) <=> Spoken(s.q[x], i))
                                     /\ (Tells(t.q[x], i) <=> Tells(s.q[x], i))
            /\ t.arch[i] = s.arch[i]
            /\ \A x \in DOMAIN t.q : t.q[x].st = "wait" => t.q[x] = s.q[x]
        BY <1>2, <3>1 DEF Spoken, Tells
      <4>2. FiledTold(t, i, b)
        BY <1>2, <1>4, <4>1 DEF FiledTold
      <4>3. \A r \in DOMAIN s.q : r <= r
        BY <1>3
      <4>4. QED
        BY <1>2, <4>1, <4>2, <4>3
    <3>2. CASE k = i /\ landed /\ t.q[j].st = "go"
      <4>1. Spoken(t.q[j], i) /\ Tells(t.q[j], i) /\ j \in DOMAIN t.q
        BY <1>2, <1>8, <3>2 DEF Tells
      <4>2. \A x \in DOMAIN t.q : t.q[x].st = "wait" /\ t.q[x].ev.who = i => j < x
        BY <1>2, <1>3, <3>2
      <4>3. FiledTold(t, i, b)
        BY <4>1, <4>2 DEF FiledTold
      <4>4. ASSUME NEW r \in DOMAIN s.q, Tells(s.q[r], i) PROVE Tells(t.q[r], i) /\ r <= r
        BY <1>2, <1>3, <4>1, <4>4
      <4>5. QED
        BY <1>2, <4>3, <4>4
    <3>3. CASE k = i /\ landed /\ t.q[j].st # "go"
      <4>1. s.arch[i] # None
        <5>1. t.q[j].ev \in Event
          BY <1>2, <1>3 DEF Item
        <5>2. QED
          BY <1>2, <3>3, <5>1, ChainAssumption
      <4> HIDE DEF Soonest
      <4> SUFFICES ASSUME ~b PROVE FiledTold(t, i, b) /\ Soonest
        OBVIOUS
      <4>2. PICK r \in DOMAIN s.q :
               /\ Spoken(s.q[r], i)
               /\ \A x \in DOMAIN s.q : s.q[x].st = "wait" /\ s.q[x].ev.who = i => r < x
        BY <1>4, <4>1 DEF FiledTold
      <4>3. r < j /\ r # j
        BY <1>3, <3>3, <4>2 DEF Spoken
      <4>4. r \in DOMAIN t.q /\ Spoken(t.q[r], i) /\ Tells(t.q[r], i)
        BY <1>2, <4>2, <4>3 DEF Tells
      <4>5. FiledTold(t, i, b)
        BY <1>2, <4>2, <4>4 DEF FiledTold
      <4>6. ASSUME NEW x \in DOMAIN s.q, Tells(s.q[x], i)
            PROVE  \E y \in DOMAIN t.q : y <= x /\ Tells(t.q[y], i)
        <5>1. CASE x = j
          BY <1>3, <4>3, <4>4, <5>1
        <5>2. CASE x # j
          BY <1>2, <1>3, <4>6, <5>2
        <5>3. QED
          BY <5>1, <5>2
      <4>7. QED
        BY <4>5, <4>6 DEF Soonest
    <3>4. QED
      BY <1>10, <3>1, <3>2, <3>3
  <2>2. FiledTold(t, i, b)
    BY <2>1 DEF FiledTold
  <2>3. EndsAfter(t, i, b)
    <3> SUFFICES ASSUME NEW p \in DOMAIN t.q, t.q[p].ev.act = "sweep-end"
                 PROVE  t.net # 0 /\ (b \/ \E r \in DOMAIN t.q : r < p /\ Tells(t.q[r], i))
      BY DEF EndsAfter
    <3>1. p \in DOMAIN s.q /\ s.net # 0 /\ (b \/ \E r \in DOMAIN s.q : r < p /\ Tells(s.q[r], i))
      BY <1>4, <1>7 DEF EndsAfter
    <3>2. CASE b
      BY <1>2, <3>1, <3>2
    <3>3. CASE ~b
      <4>1. PICK r \in DOMAIN s.q : r < p /\ Tells(s.q[r], i)
        BY <3>1, <3>3
      <4>2. PICK y \in DOMAIN t.q : y <= r /\ Tells(t.q[y], i)
        BY <2>1, <3>3, <4>1
      <4>3. y < p
        BY <1>2, <1>3, <3>1, <4>1, <4>2
      <4>4. QED
        BY <1>2, <3>1, <4>2, <4>3
    <3>4. QED
      BY <3>2, <3>3
  <2>4. Safe(s, i, b) => Safe(t, i, b)
    BY <1>2, <2>1 DEF Safe
  <2>5. QED
    BY <1>5, <2>2, <2>3, <2>4 DEF Whole
<1>11. QED
  BY <1>9, <1>10 DEF Meant

(* When an instance's read is answered nobody waits for it any more. *)
LEMMA SettleWaitingSound ==
    ASSUME NEW s, NEW i \in Instances, Sound(s, {}, {i}), NEW landed \in BOOLEAN
    PROVE  /\ Sound(SettleWaiting(s, i, landed), {}, {})
           /\ SettleWaiting(s, i, landed).held = s.held
           /\ Fits(s, SettleWaiting(s, i, landed))
           /\ AllKept(s, SettleWaiting(s, i, landed), i, landed)
           /\ \A x \in DOMAIN SettleWaiting(s, i, landed).q :
                 ~(SettleWaiting(s, i, landed).q[x].st = "wait"
                   /\ SettleWaiting(s, i, landed).q[x].ev.who = i)
<1> DEFINE n == Len(s.q)
           seq == [x \in DOMAIN s.q |-> x]
           Good(t, m) ==
               /\ SameReads(s, t) /\ DOMAIN t.q = DOMAIN s.q /\ t.held = s.held
               /\ Fits(s, t) /\ AllKept(s, t, i, landed) /\ t.net = s.net
               /\ \A x \in DOMAIN s.q : t.q[x].st = "wait" => t.q[x] = s.q[x]
               /\ \A x \in 1..m : ~(t.q[x].st = "wait" /\ t.q[x].ev.who = i)
           J == [m \in 0..n |-> {t \in Loop : Good(t, m)}]
           S == {t \in Loop : DOMAIN t.q = DOMAIN s.q}
           Step(t, x) == IF t.q[x].st = "wait" /\ t.q[x].ev.who = i THEN SettleItem(t, x, landed) ELSE t
<1>1. s \in Loop /\ Waits(s, {i}) /\ s.q \in Seq(Item)
  BY DEF Sound, Loop
<1>2. n \in Nat /\ DOMAIN s.q = 1..n /\ seq \in [1..n -> 1..n] /\ \A m \in 1..n : seq[m] = m
  BY <1>1
<1>3. s \in S /\ s \in J[0]
  <2>1. Good(s, 0)
    BY <1>1 DEF SameReads, Fits, AllKept, Keeps, Stands
  <2> HIDE DEF Good
  <2>2. QED
    BY <1>1, <1>2, <2>1
<1>4. ASSUME NEW t \in S, NEW x \in 1..n
      PROVE  Step(t, x) \in S
  <2>1. CASE t.q[x].st = "wait" /\ t.q[x].ev.who = i
    BY <1>2, <2>1, SettleItemType
  <2>2. CASE ~(t.q[x].st = "wait" /\ t.q[x].ev.who = i)
    BY <2>2
  <2>3. QED
    BY <2>1, <2>2
<1>5. ASSUME NEW m \in 1..n, NEW t \in J[m - 1]
      PROVE  Step(t, seq[m]) \in J[m]
  <2>0. m \in 0..n /\ m - 1 \in 0..n
    BY <1>2
  <2>1. t \in Loop /\ Good(t, m - 1) /\ seq[m] = m /\ m \in DOMAIN t.q
    <3> HIDE DEF Good
    <3>1. t \in Loop /\ Good(t, m - 1)
      BY <2>0
    <3>2. QED
      BY <1>2, <3>1 DEF Good
  <2>2. CASE t.q[m].st = "wait" /\ t.q[m].ev.who = i
    <3> DEFINE u == SettleItem(t, m, landed)
    <3>1. /\ u \in Loop /\ SameReads(t, u) /\ DOMAIN u.q = DOMAIN t.q
          /\ u.q[m].st # "wait" /\ \A x \in DOMAIN t.q : x # m => u.q[x] = t.q[x]
          /\ u.held = t.held /\ Fits(t, u) /\ u.net = t.net
      BY <2>1, <2>2, SettleItemType
    <3>2. Step(t, seq[m]) = u
      BY <2>1, <2>2
    <3>8. AllKept(s, u, i, landed)
      <4> SUFFICES ASSUME NEW y \in Instances, NEW c \in BOOLEAN, Meant(s, i, y, landed)
                   PROVE  Keeps(s, u, y, c)
        BY DEF AllKept
      <4>1. Meant(t, i, y, landed) /\ Keeps(s, t, y, c)
        BY <2>1 DEF Meant, AllKept
      <4>2. \A x \in DOMAIN t.q : t.q[x].st = "wait" /\ t.q[x].ev.who = i => m <= x
        BY <1>2, <2>1
      <4> HIDE DEF Good
      <4>3. Keeps(t, u, y, c)
        BY <2>1, <2>2, <4>1, <4>2, SettleItemKeeps
      <4>4. QED
        BY <4>1, <4>3, KeepsTrans
    <3> HIDE DEF u, Step
    <3>3. /\ SameReads(s, u) /\ DOMAIN u.q = DOMAIN s.q /\ u.held = s.held /\ Fits(s, u)
          /\ u.net = s.net
      BY <2>1, <3>1, FitsTrans DEF SameReads
    <3>4. \A x \in DOMAIN s.q : u.q[x].st = "wait" => u.q[x] = s.q[x]
      BY <2>1, <3>1
    <3>5. ASSUME NEW x \in 1..m PROVE ~(u.q[x].st = "wait" /\ u.q[x].ev.who = i)
      <4>1. CASE x = m
        BY <3>1, <4>1
      <4>2. CASE x # m
        <5>1. x \in 1..(m - 1) /\ x \in DOMAIN t.q
          BY <1>2, <2>1, <4>2
        <5>2. u.q[x] = t.q[x]
          BY <3>1, <4>2, <5>1
        <5>3. QED
          BY <2>1, <5>1, <5>2
      <4>3. QED
        BY <4>1, <4>2
    <3>6. Good(u, m)
      BY <3>3, <3>4, <3>5, <3>8
    <3> HIDE DEF Good
    <3>7. QED
      BY <2>0, <3>1, <3>2, <3>6
  <2>3. CASE ~(t.q[m].st = "wait" /\ t.q[m].ev.who = i)
    <3>1. Step(t, seq[m]) = t
      BY <2>1, <2>3
    <3>2. ASSUME NEW x \in 1..m PROVE ~(t.q[x].st = "wait" /\ t.q[x].ev.who = i)
      <4>1. CASE x = m
        BY <2>3, <4>1
      <4>2. CASE x # m
        BY <1>2, <2>1, <4>2
      <4>3. QED
        BY <4>1, <4>2
    <3>3. Good(t, m)
      BY <2>1, <3>2
    <3> HIDE DEF Good, Step
    <3>4. QED
      BY <2>0, <2>1, <3>1, <3>3
  <2>4. QED
    BY <2>2, <2>3
<1> DEFINE u == SettleEach(s, seq, i, landed)
<1>6. u \in J[n]
  <2> HIDE DEF J, S, n, seq
  <2>1. \A t \in S, k \in 1..n : Step(t, k) \in S
    BY <1>4
  <2>2. \A m \in 1..n : \A t \in J[m - 1] : Step(t, seq[m]) \in J[m]
    BY <1>5
  <2>3. QED
    BY <1>2, <1>3, <2>1, <2>2, SettleFold
<1>7. u = SettleWaiting(s, i, landed)
  BY DEF SettleWaiting, FoldLeftDomain, SettleEach
<1> HIDE DEF u
<1>8. u \in Loop /\ Good(u, n)
  <2> HIDE DEF Good, n
  <2>1. QED
    BY <1>2, <1>6
<1>9. Waits(u, {})
  BY <1>1, <1>2, <1>8 DEF Waits, SameReads
<1>10. Sound(u, {}, {})
  BY <1>8, <1>9, SameReadsSound
<1>11. \A x \in DOMAIN u.q : ~(u.q[x].st = "wait" /\ u.q[x].ev.who = i)
  BY <1>2, <1>8
<1>12. QED
  BY <1>7, <1>8, <1>10, <1>11

(* What may leave is a part of the line from its front. *)
LEMMA ReadyLenType ==
    ASSUME NEW s \in Loop
    PROVE  ReadyLen(s) \in 0..Len(s.q) /\ \A x \in 1..ReadyLen(s) : s.q[x].st # "wait"
<1> DEFINE wait == {j \in DOMAIN s.q : s.q[j].st = "wait"}
<1>1. Len(s.q) \in Nat /\ DOMAIN s.q = 1..Len(s.q)
  BY DEF Loop
<1>2. CASE wait = {}
  <2>1. ReadyLen(s) = Len(s.q)
    BY <1>2 DEF ReadyLen
  <2>2. QED
    BY <1>1, <1>2, <2>1
<1>3. CASE wait # {}
  <2>1. wait \in SUBSET Nat
    BY <1>1
  <2> HIDE DEF wait
  <2>2. PICK x \in wait : \A y \in wait : x <= y
    BY <1>3, <2>1, LeastNat
  <2>4. Min(wait) \in wait /\ \A y \in wait : Min(wait) <= y
    BY <2>2 DEF Min
  <2> DEFINE m == Min(wait)
  <2>5. ReadyLen(s) = m - 1
    BY <1>3 DEF ReadyLen, wait
  <2> HIDE DEF m
  <2>6. m \in DOMAIN s.q /\ \A y \in DOMAIN s.q : s.q[y].st = "wait" => m <= y
    BY <2>4 DEF wait, m
  <2>7. QED
    BY <1>1, <2>5, <2>6
<1>4. QED
  BY <1>2, <1>3

(* What leaves is a part of the line, and so is what stays.                *)
LEMMA ReleasedSound ==
    ASSUME NEW s, Sound(s, {}, {})
    PROVE  /\ Sound(Released(s), {}, {})
           /\ Leaving(s) \in Seq(Item)
           /\ \A j \in DOMAIN Leaving(s) : \E x \in DOMAIN s.q : Leaving(s)[j] = s.q[x]
           /\ \A j \in DOMAIN Released(s).q : \E x \in DOMAIN s.q : Released(s).q[j] = s.q[x]
           /\ Released(s).held = s.held /\ Released(s).proj = s.proj /\ Released(s).warm = s.warm
           /\ SameReads(s, Released(s)) /\ Fits(s, Released(s))
           /\ Fit(s) => \A j \in DOMAIN Leaving(s) : Leaving(s)[j].ev.data # None => Leaving(s)[j].ev.data.proj
<1> DEFINE r == ReadyLen(s)
           q == SubSeq(s.q, r + 1, Len(s.q))
           t == Released(s)
<1>1. s \in Loop /\ s.q \in Seq(Item) /\ Waits(s, {})
  BY DEF Sound, Loop
<1>2. r \in 0..Len(s.q) /\ Len(s.q) \in Nat
  BY <1>1, ReadyLenType
<1> HIDE DEF r
<1>3. /\ q \in Seq(Item) /\ \A j \in DOMAIN q : j + r \in DOMAIN s.q /\ q[j] = s.q[j + r]
  BY <1>1, <1>2
<1>4. /\ Leaving(s) \in Seq(Item)
      /\ \A j \in DOMAIN Leaving(s) : j \in DOMAIN s.q /\ Leaving(s)[j] = s.q[j]
  BY <1>1, <1>2 DEF Leaving, r
<1>5. t = [s EXCEPT !.q = q]
  BY <1>1 DEF Released, Loop, r
<1> HIDE DEF q, t
<1>6. /\ t \in Loop /\ t.q = q /\ SameReads(s, t) /\ t.held = s.held /\ t.proj = s.proj
      /\ t.warm = s.warm
  BY <1>1, <1>3, <1>5 DEF Loop, SameReads
<1>7. Waits(t, {})
  BY <1>1, <1>3, <1>6 DEF Waits, SameReads
<1>8. Sound(t, {}, {})
  BY <1>6, <1>7, SameReadsSound
<1>9. \A j \in DOMAIN t.q : \E x \in DOMAIN s.q : t.q[j] = s.q[x]
  BY <1>3, <1>6
<1>10. Fits(s, t)
  BY <1>6, <1>9 DEF SameReads, Fits, Fit, Asked
<1>11. QED
  BY <1>4, <1>6, <1>8, <1>9, <1>10 DEF t, Fit

(* The line in two: what leaves, of which nothing waits, and the rest.     *)
Parts(s, list, t, r) ==
    /\ r \in 0..Len(s.q) /\ \A x \in 1..r : s.q[x].st # "wait"
    /\ DOMAIN list = 1..r /\ \A x \in 1..r : list[x] = s.q[x]
    /\ DOMAIN t.q = 1..(Len(s.q) - r) /\ \A x \in DOMAIN t.q : t.q[x] = s.q[x + r]

(* That is how the line is handed on. *)
LEMMA ReleasedParts ==
    ASSUME NEW s \in Loop
    PROVE  /\ Parts(s, Leaving(s), Released(s), ReadyLen(s))
           /\ SameRest(s, Released(s)) /\ Released(s).results = s.results
<1> DEFINE r == ReadyLen(s)
           q == SubSeq(s.q, r + 1, Len(s.q))
<1>1. /\ s.q \in Seq(Item) /\ r \in 0..Len(s.q) /\ Len(s.q) \in Nat
      /\ \A x \in 1..r : s.q[x].st # "wait"
  <2>1. s.q \in Seq(Item)
    BY DEF Loop
  <2>2. ReadyLen(s) \in 0..Len(s.q) /\ \A x \in 1..ReadyLen(s) : s.q[x].st # "wait"
    BY ReadyLenType
  <2>3. QED
    BY <2>1, <2>2
<1> HIDE DEF r
<1>2. DOMAIN q = 1..(Len(s.q) - r) /\ \A x \in DOMAIN q : q[x] = s.q[x + r]
  BY <1>1
<1>3. DOMAIN Leaving(s) = 1..r /\ \A x \in 1..r : Leaving(s)[x] = s.q[x]
  BY <1>1 DEF Leaving, r
<1>4. Released(s) = [s EXCEPT !.q = q]
  BY <1>1 DEF Released, Loop, r
<1> HIDE DEF q
<1>5. Released(s).q = q /\ SameRest(s, Released(s)) /\ Released(s).results = s.results
  BY <1>4 DEF Loop, SameRest
<1>6. QED
  BY <1>1, <1>2, <1>3, <1>5 DEF Parts, r

(* What an answer about i patches in: what is held and due, and the read   *)
(* of a network that nobody has read.                                      *)
LEMMA PatchedSound ==
    ASSUME NEW s, NEW i \in Instances, Sound(s, {}, {i}), NEW ans \in Answer
    PROVE  /\ Sound(Patched(s, i, ans), {}, {i})
           /\ s.proj => Fits(s, Patched(s, i, ans))
           /\ \A y \in Instances : (y = i => ans.is = "ok") =>
                 /\ SameLine(s, Patched(s, i, ans), y)
                 /\ Meant(Patched(s, i, ans), i, y, Landed(s, ans))
<1> DEFINE p == Patched(s, i, ans)
<1>0. s \in Loop /\ Waits(s, {i})
  BY DEF Sound
<1> DEFINE u == Send(s, Net, FALSE, FALSE)
           R == {}
           no == FALSE
<1>1. Sound(u, {}, {i}) /\ StillOwed(s, u) /\ u.warm = s.warm
  <2>1. Sound(s, R, {i}) /\ Net \notin R /\ Net \in Keys /\ no \in BOOLEAN
    BY DEF Keys
  <2> HIDE DEF R, no, u
  <2>2. LET v == Send(s, Net, no, no) IN Sound(v, R, {i}) /\ StillOwed(s, v) /\ v.warm = s.warm
    BY <2>1, SendSound
  <2>3. QED
    BY <2>2 DEF R, no, u
<1> HIDE DEF u, R, no
<1>2. \A r \in {s, u, SetInstance(s, i, ans)} : Sound(r, {}, {i}) => Sound(Soon(r, i), {}, {i}) /\ Fits(r, Soon(r, i))
  <2> SUFFICES ASSUME NEW r, Sound(r, {}, {i}) PROVE Sound(Soon(r, i), {}, {i}) /\ Fits(r, Soon(r, i))
    OBVIOUS
  <2>1. r \in Loop /\ Waits(r, {i})
    BY DEF Sound
  <2>2. Soon(r, i) \in Loop /\ SameReads(r, Soon(r, i)) /\ SameSaid(r, Soon(r, i))
    BY <2>1, BookType
  <2>3. Waits(Soon(r, i), {i})
    BY <2>1, <2>2 DEF Waits, SameReads, SameSaid
  <2>4. QED
    BY <2>2, <2>3, SameReadsSound, SameFits
<1>3. Sound(SetInstance(s, i, ans), {}, {i}) /\ (s.proj => Fits(s, SetInstance(s, i, ans)))
  <2>1. /\ SetInstance(s, i, ans) \in Loop /\ SameReads(s, SetInstance(s, i, ans))
        /\ SetInstance(s, i, ans).q = s.q /\ (s.proj => Fits(s, SetInstance(s, i, ans)))
    BY <1>0, BookType
  <2>2. Waits(SetInstance(s, i, ans), {i})
    BY <1>0, <2>1 DEF Waits, SameReads
  <2>3. QED
    BY <2>1, <2>2, SameReadsSound
<1>4. Sound(Forgotten(s, i), {}, {i}) /\ Fits(s, Forgotten(s, i))
  <2>1. /\ Forgotten(s, i) \in Loop /\ SameReads(s, Forgotten(s, i)) /\ Forgotten(s, i).q = s.q
        /\ Fits(s, Forgotten(s, i))
    BY <1>0, BookType
  <2>2. Waits(Forgotten(s, i), {i})
    BY <1>0, <2>1 DEF Waits, SameReads
  <2>3. QED
    BY <2>1, <2>2, SameReadsSound
<1>5. p \in {Forgotten(s, i), Soon(s, i), Soon(u, i), SetInstance(s, i, ans), Soon(SetInstance(s, i, ans), i)}
  BY DEF Patched, u
<1> HIDE DEF p
<1>6. Sound(p, {}, {i})
  BY <1>1, <1>2, <1>3, <1>4, <1>5
<1>7. ASSUME s.proj PROVE Fits(s, p)
  <2>1. Fits(s, u)
    BY <1>1, AsideFits
  <2>2. \A r \in {s, u, SetInstance(s, i, ans)} : Fits(s, r) /\ Sound(r, {}, {i})
    BY <1>1, <1>3, <1>7, <2>1 DEF Fits
  <2>3. \A r \in {s, u, SetInstance(s, i, ans)} : Fits(s, Soon(r, i))
    BY <1>2, <2>2, FitsTrans
  <2>4. QED
    BY <1>4, <1>5, <2>2, <2>3
<1> HIDE DEF p
<1>8. \A y : SameLine(s, u, y) /\ SameLine(s, s, y)
  BY <1>1 DEF StillOwed, Aside, SameLine, Answers
<1>9. /\ \A y : SameLine(s, SetInstance(s, i, ans), y)
      /\ SetInstance(s, i, ans).held[i] # None
  BY <1>0, BookType, RestSameLine
<1>10. ASSUME NEW r \in {s, u, SetInstance(s, i, ans)}, NEW y
       PROVE  SameLine(s, Soon(r, i), y) /\ Soon(r, i).held = r.held /\ Soon(r, i).net = r.net
  <2>1. r \in Loop /\ SameLine(s, r, y)
    BY <1>0, <1>1, <1>3, <1>8, <1>9 DEF Sound
  <2>2. SameReads(r, Soon(r, i)) /\ SameSaid(r, Soon(r, i)) /\ SameRest(r, Soon(r, i))
    BY <2>1, BookType
  <2>3. SameLine(r, Soon(r, i), y)
    BY <2>2, RestSameLine DEF SameSaid
  <2>4. QED
    BY <2>1, <2>2, <2>3 DEF SameLine, Answers, SameSaid, SameRest
<1>11. \A y \in Instances \ {i} : SameLine(s, Forgotten(s, i), y)
  BY <1>0, BookType
<1>12. ASSUME NEW y \in Instances, y # i PROVE SameLine(s, p, y)
  BY <1>5, <1>8, <1>9, <1>10, <1>11, <1>12
<1>13. ASSUME ans.is = "ok"
       PROVE  SameLine(s, p, i) /\ Meant(p, i, i, Landed(s, ans))
  <2>1. CASE s.net = 0
    <3>1. p = Soon(u, i) /\ ~Landed(s, ans)
      BY <1>13, <2>1 DEF p, Patched, Landed, u
    <3>2. u.net = s.net
      BY <1>8 DEF SameLine
    <3>3. QED
      BY <1>10, <2>1, <3>1, <3>2 DEF Meant
  <2>2. CASE s.net # 0
    <3>1. p \in {SetInstance(s, i, ans), Soon(SetInstance(s, i, ans), i)} /\ Landed(s, ans)
      BY <1>13, <2>2 DEF p, Patched, Landed
    <3>2. SameLine(s, p, i) /\ p.held[i] # None
      BY <1>9, <1>10, <3>1
    <3>3. QED
      BY <3>1, <3>2 DEF Meant
  <2>3. QED
    BY <2>1, <2>2
<1>14. QED
  BY <1>6, <1>7, <1>12, <1>13 DEF Meant, p

(* One instance's read answered. *)
LEMMA SettleInstanceSound ==
    ASSUME NEW s, NEW i \in Instances, Sound(s, {}, {i}), NEW ans \in Answer, NEW fan \in BOOLEAN
    PROVE  /\ Sound(SettleInstance(s, i, ans, fan), {}, {})
           /\ s.proj => Fits(s, SettleInstance(s, i, ans, fan))
<1> DEFINE landed == Landed(s, ans)
           p == Patched(s, i, ans)
           t == SettleWaiting(p, i, landed)
           syn == [NewEvent("updated", i) EXCEPT !.data = t.held[i]]
           said == Filed(t, syn)
<1>1. s \in Loop /\ Waits(s, {i}) /\ landed \in BOOLEAN
  BY DEF Sound, Landed
<1>2. Sound(p, {}, {i}) /\ (s.proj => Fits(s, p))
  BY PatchedSound
<1> HIDE DEF p, landed
<1>3. Sound(t, {}, {}) /\ Fits(p, t)
  BY <1>1, <1>2, SettleWaitingSound
<1>4. t \in Loop /\ t.held[i] \in Said \union {None}
  BY <1>3 DEF Sound, Loop
<1> HIDE DEF t
<1>5. syn \in Event /\ syn.who = i /\ syn.data = t.held[i]
  BY <1>4 DEF NewEvent, Event
<1> HIDE DEF syn
<1>6. Sound(said, {}, {}) /\ Fits(t, said) /\ said.held = t.held
  <2>1. said \in Loop /\ SameReads(t, said) /\ SameSaid(t, said)
    BY <1>4, <1>5, BookType
  <2>2. Waits(said, {})
    BY <1>3, <2>1 DEF Waits, SameReads, SameSaid, Sound
  <2>3. QED
    BY <1>3, <2>1, <2>2, SameReadsSound, SameFits DEF SameSaid
<1> HIDE DEF said
<1>7. Sound(Push(said, syn, "go"), {}, {}) /\ Fits(said, Push(said, syn, "go"))
  <2>1. Fit(said) /\ syn.data # None => syn.data.proj
    BY <1>5, <1>6 DEF Fit
  <2>2. QED
    BY <1>5, <1>6, <2>1, PushSound
<1>8. SettleInstance(s, i, ans, fan) \in {t, said, Push(said, syn, "go")}
  BY DEF SettleInstance, t, said, syn, p, landed
<1>9. ASSUME s.proj PROVE \A r \in {t, said, Push(said, syn, "go")} : Fits(s, r)
  <2>1. Fits(s, t)
    BY <1>2, <1>3, <1>9, FitsTrans
  <2>2. Fits(s, said)
    BY <1>6, <2>1, FitsTrans
  <2>3. QED
    BY <1>7, <2>1, <2>2, FitsTrans
<1>10. QED
  BY <1>3, <1>6, <1>7, <1>8, <1>9

(* One instance's read answered, of i or of another: with nothing of i     *)
(* passed over that its plugin was not told.                               *)
LEMMA SettleInstanceKeeps ==
    ASSUME NEW s, NEW k \in Instances, Sound(s, {}, {k}), NEW ans \in Answer, NEW fan \in BOOLEAN,
           NEW i \in Instances, NEW b \in BOOLEAN, k = i => ans.is = "ok"
    PROVE  Keeps(s, SettleInstance(s, k, ans, fan), i, b)
<1> DEFINE landed == Landed(s, ans)
           p == Patched(s, k, ans)
           t == SettleWaiting(p, k, landed)
           syn == [NewEvent("updated", k) EXCEPT !.data = t.held[k]]
           said == Filed(t, syn)
           v == Push(said, syn, "go")
<1>1. landed \in BOOLEAN
  BY DEF Landed
<1>2. Sound(p, {}, {k}) /\ SameLine(s, p, i) /\ Meant(p, k, i, landed)
  BY PatchedSound
<1>3. SettleInstance(s, k, ans, fan) \in {t, said, v}
  BY DEF SettleInstance
<1>4. /\ SettleInstance(s, k, ans, fan) # t => landed
      /\ SettleInstance(s, k, ans, fan) = v \/ SettleInstance(s, k, ans, fan) = t
         \/ (SettleInstance(s, k, ans, fan) = said /\ t.arch[k] = syn)
  <2>1. syn.who = k
    BY DEF NewEvent
  <2>2. QED
    BY <2>1 DEF SettleInstance, News
<1> HIDE DEF p, landed
<1>5. /\ Sound(t, {}, {}) /\ t.held = p.held
      /\ AllKept(p, t, k, landed)
      /\ \A x \in DOMAIN t.q : ~(t.q[x].st = "wait" /\ t.q[x].ev.who = k)
  BY <1>1, <1>2, SettleWaitingSound
<1>6. t \in Loop /\ t.held[k] \in Said \union {None}
  BY <1>5 DEF Sound, Loop
<1>7. Keeps(s, p, i, b) /\ Keeps(p, t, i, b)
  BY <1>2, <1>5, LineKeeps DEF AllKept
<1> HIDE DEF t
<1>8. Keeps(s, t, i, b)
  BY <1>7, KeepsTrans
<1>9. /\ syn \in Event /\ syn.who = k /\ syn.data = t.held[k] /\ syn.act = "updated" /\ ~syn.failed
  BY <1>6 DEF NewEvent, Event
<1> HIDE DEF syn
<1>10. /\ said \in Loop /\ SameReads(t, said) /\ SameSaid(t, said)
       /\ said.net = t.net /\ said.ending = t.ending /\ said.arch[k] = syn
       /\ \A x \in Instances \ {k} : SameLine(t, said, x)
  BY <1>6, <1>9, BookType
<1>11. said.arch[i] = t.arch[i] => SameLine(t, said, i)
  BY <1>10 DEF SameReads, SameSaid, SameLine, Answers
<1> HIDE DEF said
<1>12. ASSUME SameLine(t, said, i) PROVE Keeps(t, said, i, b) /\ Keeps(t, v, i, b)
  <2>1. Keeps(t, said, i, b)
    BY <1>12, LineKeeps
  <2>2. PICK go \in {"wait", "go", "skip"} : go = "go"
    OBVIOUS
  <2>3. Keeps(said, Push(said, syn, go), i, b)
    BY <1>9, <1>10, <2>2, PushKeeps
  <2>4. QED
    BY <2>1, <2>2, <2>3, KeepsTrans
<1>13. ASSUME k = i, landed PROVE Keeps(t, v, i, b)
  <2>1. t.held[i] # None
    BY <1>2, <1>5, <1>13 DEF Meant
  <2> DEFINE it == [ev |-> syn, st |-> "go"]
             n == Len(t.q)
  <2>2. v.q = Append(t.q, it) /\ SameReads(said, v) /\ SameRest(said, v) /\ it \in Item
    <3>1. PICK go \in {"wait", "go", "skip"} : go = "go"
      OBVIOUS
    <3>2. /\ SameReads(said, Push(said, syn, go)) /\ SameRest(said, Push(said, syn, go))
          /\ Push(said, syn, go).q = Append(said.q, [ev |-> syn, st |-> go])
      BY <1>9, <1>10, PushType
    <3>3. QED
      BY <1>9, <1>10, <3>1, <3>2 DEF SameSaid, Item
  <2> HIDE DEF v
  <2>3. /\ v.net = t.net /\ v.ending = t.ending /\ v.results = t.results
    BY <1>10, <2>2 DEF SameReads, SameRest
  <2>4. Spoken(it, i) /\ it.ev.act = "updated"
    BY <1>9, <1>13, <2>1 DEF Spoken
  <2> HIDE DEF it
  <2>5. /\ n \in Nat /\ DOMAIN t.q = 1..n /\ DOMAIN v.q = 1..(n + 1)
        /\ v.q[n + 1] = it /\ \A x \in 1..n : v.q[x] = t.q[x]
    BY <1>6, <2>2 DEF Loop
  <2> HIDE DEF n
  <2> SUFFICES ASSUME Whole(t, i, b)
               PROVE  Whole(v, i, b) /\ (Safe(t, i, b) => Safe(v, i, b))
    BY <2>3 DEF Keeps, Stands
  <2>6. EndsAfter(v, i, b)
    <3> SUFFICES ASSUME NEW x \in DOMAIN v.q, v.q[x].ev.act = "sweep-end"
                 PROVE  v.net # 0 /\ (b \/ \E r \in DOMAIN v.q : r < x /\ Tells(v.q[r], i))
      BY DEF EndsAfter
    <3>1. x \in 1..n
      BY <2>4, <2>5
    <3>2. t.net # 0 /\ (b \/ \E r \in DOMAIN t.q : r < x /\ Tells(t.q[r], i))
      BY <2>5, <3>1 DEF EndsAfter, Whole
    <3>3. QED
      BY <2>3, <2>5, <3>2
  <2>7. FiledTold(v, i, b)
    <3>1. n + 1 \in DOMAIN v.q /\ Spoken(v.q[n + 1], i)
      BY <2>4, <2>5
    <3>2. \A x \in DOMAIN v.q : ~(v.q[x].st = "wait" /\ v.q[x].ev.who = i)
      BY <1>5, <1>13, <2>4, <2>5 DEF Spoken
    <3>3. QED
      BY <3>1, <3>2 DEF FiledTold
  <2>8. Stays(v, i)
    <3>1. \A x \in DOMAIN v.q : (x \in DOMAIN t.q /\ v.q[x] = t.q[x]) \/ v.q[x] = it
      BY <2>5
    <3>2. QED
      BY <2>3, <2>4, <3>1 DEF Stays, Whole, Spoken
  <2>9. Safe(t, i, b) => Safe(v, i, b)
    BY <2>3, <2>5 DEF Safe
  <2>10. QED
    BY <2>6, <2>7, <2>8, <2>9 DEF Whole
<1> HIDE DEF v
<1>14. CASE k # i
  <2>1. SameLine(t, said, i)
    BY <1>10, <1>14
  <2>2. QED
    BY <1>3, <1>8, <1>12, <2>1, KeepsTrans
<1>15. CASE k = i
  <2>1. CASE SettleInstance(s, k, ans, fan) = said /\ t.arch[k] = syn
    <3>1. SameLine(t, said, i)
      BY <1>10, <1>11, <1>15, <2>1
    <3>2. QED
      BY <1>8, <1>12, <2>1, <3>1, KeepsTrans
  <2>2. CASE SettleInstance(s, k, ans, fan) = t
    BY <1>8, <2>2
  <2>3. CASE SettleInstance(s, k, ans, fan) = v /\ v # t
    <3>1. Keeps(t, v, i, b)
      BY <1>4, <1>13, <1>15, <2>3
    <3>2. QED
      BY <1>8, <2>3, <3>1, KeepsTrans
  <2>4. QED
    BY <1>4, <2>1, <2>2, <2>3
<1>16. QED
  BY <1>14, <1>15

(* One read answered. *)
LEMMA SettleReadSound ==
    ASSUME NEW s, NEW k \in Keys, Sound(s, {k}, {}), NEW ans \in Answer
    PROVE  /\ Sound(SettleRead(s, k, ans), {}, {})
           /\ Fit(s) /\ (k \in Instances => s.warm) /\ (k = Prj => ans.is # "error")
              => Fits(s, SettleRead(s, k, ans))
<1> DEFINE d == Done(s, k)
           net == [d EXCEPT !.net = ans.c]
           prj == [d EXCEPT !.proj = TRUE]
           Known == Fit(s) /\ (k \in Instances => s.warm) /\ (k = Prj => ans.is # "error")
<1>1. /\ Sound(d, {}, {k}) /\ Aside(s, d) /\ (k # Prj => d.warm = s.warm)
      /\ \A x \in Keys \ {k} : s.calls[x] # None => d.calls[x] # None
  BY DoneSound
<1> HIDE DEF d
<1>2. d \in Loop /\ Waits(d, {k}) /\ s.calls[k] \in Call
  BY <1>1, ChainAssumption DEF Sound, Loop, Held
<1>3. k # Prj => Fits(s, d)
  <2>1. Prj \in Keys
    BY DEF Keys
  <2>2. QED
    BY <1>1, <2>1 DEF Aside, Answers, Fits, Fit, Asked
<1>4. CASE k \in Instances
  <2>1. s.calls[k].fan \in BOOLEAN
    BY <1>2 DEF Call
  <2>2. k # Net /\ k # Prj
    BY <1>4, ChainAssumption
  <2> DEFINE fan == s.calls[k].fan
  <2> HIDE DEF fan
  <2>3. PICK t : /\ t = SettleInstance(d, k, ans, fan)
                 /\ Sound(t, {}, {}) /\ (d.proj => Fits(d, t))
    BY <1>1, <1>4, <2>1, SettleInstanceSound DEF fan
  <2>4. t = SettleRead(s, k, ans)
    BY <2>2, <2>3 DEF SettleRead, d, fan
  <2>5. ASSUME Known PROVE Fits(s, t)
    <3>1. Fits(s, d) /\ d.proj
      BY <1>1, <1>4, <1>3, <2>2, <2>5 DEF Aside, Fit
    <3>2. QED
      BY <2>3, <3>1, FitsTrans
  <2>6. QED
    BY <2>3, <2>4, <2>5
<1>5. CASE k \notin Instances
  <2>1. Sound(d, {}, {})
    BY <1>1, <1>5, NoInstanceWaits
  <2>2. /\ net \in Loop /\ SameReads(d, net) /\ net.q = d.q
        /\ net.held = d.held /\ net.proj = d.proj
        /\ prj \in Loop /\ SameReads(d, prj) /\ prj.q = d.q
        /\ prj.held = d.held /\ prj.proj = TRUE
    BY <1>2 DEF Loop, SameReads, Answer
  <2> HIDE DEF net, prj
  <2>3. Sound(net, {}, {}) /\ Sound(prj, {}, {})
    <3>1. Waits(net, {}) /\ Waits(prj, {})
      BY <2>1, <2>2 DEF Waits, SameReads, Sound
    <3>2. QED
      BY <2>1, <2>2, <3>1, SameReadsSound
  <2>4. PICK n, p : /\ n = FanOut(net, InState(net)) /\ p = FanOut(prj, InState(prj))
                    /\ Sound(n, {}, {}) /\ Sound(p, {}, {}) /\ Fits(net, n) /\ Fits(prj, p)
    <3>1. InState(net) \in SUBSET Instances /\ InState(prj) \in SUBSET Instances
      BY DEF InState
    <3>2. QED
      BY <2>3, <3>1, FanOutSound, AsideFits
  <2>5. k \in {Net, Prj}
    BY <1>5 DEF Keys
  <2>6. LET t == SettleRead(s, k, ans)
        IN  \/ t = d /\ (k # Prj \/ ans.is = "error")
            \/ t = n /\ k # Prj
            \/ t = p /\ k = Prj
    BY <2>4, <2>5, ChainAssumption DEF SettleRead, SettleNetwork, SettleProject, NetworkInstances, d, net, prj
  <2>7. ASSUME Known PROVE Fits(s, SettleRead(s, k, ans))
    <3>1. CASE k # Prj
      <4>1. Fits(s, d) /\ Fits(d, net) /\ Fits(net, n)
        BY <1>3, <2>2, <2>4, <3>1 DEF SameReads, Fits, Fit, Asked
      <4>2. QED
        BY <2>6, <2>7, <3>1, <4>1 DEF Fits
    <3>2. CASE k = Prj
      <4>1. Fit(prj) /\ Asked(prj)
        BY <1>1, <2>2, <2>7 DEF Aside, Answers, SameReads, Fit, Asked
      <4>2. QED
        BY <2>4, <2>6, <2>7, <3>2, <4>1 DEF Fits
    <3>3. QED
      BY <3>1, <3>2
  <2>8. QED
    BY <2>1, <2>4, <2>6, <2>7
<1>6. QED
  BY <1>4, <1>5

(* A network that is known now may be of the round.                        *)
LEMMA NetKeeps ==
    ASSUME NEW s, NEW t, t.q = s.q, t.arch = s.arch, t.ending = s.ending, t.results = s.results,
           t.net # 0, NEW i, NEW b
    PROVE  Keeps(s, t, i, b)
<1>1. EndsAfter(s, i, b) => EndsAfter(t, i, b)
  BY DEF EndsAfter
<1>2. FiledTold(s, i, b) => FiledTold(t, i, b)
  BY DEF FiledTold
<1>3. Stays(s, i) => Stays(t, i)
  BY DEF Stays
<1>4. Safe(s, i, b) => Safe(t, i, b)
  BY DEF Safe
<1>5. QED
  BY <1>1, <1>2, <1>3, <1>4 DEF Keeps, Stands, Whole

(* One read answered, that of i with i, and that of the network with one.  *)
LEMMA SettleReadKeeps ==
    ASSUME NEW s, NEW k \in Keys, Sound(s, {k}, {}), NEW ans \in Answer,
           NEW i \in Instances, NEW b \in BOOLEAN, k = i => ans.is = "ok", k = Net => ans.c # 0
    PROVE  Keeps(s, SettleRead(s, k, ans), i, b)
<1> DEFINE d == Done(s, k)
           net == [d EXCEPT !.net = ans.c]
           prj == [d EXCEPT !.proj = TRUE]
<1>1. Sound(d, {}, {k}) /\ Aside(s, d)
  BY DoneSound
<1> HIDE DEF d
<1>2. d \in Loop /\ Waits(d, {k}) /\ s.calls[k] \in Call
  BY <1>1, ChainAssumption DEF Sound, Loop, Held
<1>3. Keeps(s, d, i, b)
  BY <1>1, AsideKeeps
<1>4. CASE k \in Instances
  <2>1. s.calls[k].fan \in BOOLEAN
    BY <1>2 DEF Call
  <2>2. k # Net /\ k # Prj
    BY <1>4, ChainAssumption
  <2> DEFINE fan == s.calls[k].fan
  <2> HIDE DEF fan
  <2>3. PICK t : t = SettleInstance(d, k, ans, fan) /\ Keeps(d, t, i, b)
    BY <1>1, <1>4, <2>1, SettleInstanceKeeps DEF fan
  <2>4. t = SettleRead(s, k, ans)
    BY <2>2, <2>3 DEF SettleRead, d, fan
  <2>5. QED
    BY <1>3, <2>3, <2>4, KeepsTrans
<1>5. CASE k \notin Instances
  <2>1. Sound(d, {}, {})
    BY <1>1, <1>5, NoInstanceWaits
  <2>2. /\ net \in Loop /\ SameReads(d, net) /\ net.q = d.q
        /\ net.arch = d.arch /\ net.ending = d.ending /\ net.net = ans.c
        /\ prj \in Loop /\ SameReads(d, prj) /\ prj.q = d.q /\ SameRest(d, prj)
    BY <1>2 DEF Loop, SameReads, SameRest, Answer
  <2> HIDE DEF net, prj
  <2>3. Sound(net, {}, {}) /\ Sound(prj, {}, {})
    <3>1. Waits(net, {}) /\ Waits(prj, {})
      BY <2>1, <2>2 DEF Waits, SameReads, Sound
    <3>2. QED
      BY <2>1, <2>2, <3>1, SameReadsSound
  <2>4. PICK n, p : /\ n = FanOut(net, InState(net)) /\ p = FanOut(prj, InState(prj))
                    /\ Keeps(net, n, i, b) /\ Keeps(prj, p, i, b)
    <3>1. InState(net) \in SUBSET Instances /\ InState(prj) \in SUBSET Instances
      BY DEF InState
    <3>2. QED
      BY <2>3, <3>1, FanOutSound, AsideKeeps DEF StillOwed
  <2>5. k \in {Net, Prj}
    BY <1>5 DEF Keys
  <2>6. \/ SettleRead(s, k, ans) = d
        \/ SettleRead(s, k, ans) = n /\ k = Net
        \/ SettleRead(s, k, ans) = p
    BY <2>4, <2>5, ChainAssumption DEF SettleRead, SettleNetwork, SettleProject, NetworkInstances, d, net, prj
  <2>7. Keeps(d, prj, i, b)
    BY <2>2, RestSameLine, LineKeeps
  <2>8. k = Net => Keeps(d, net, i, b)
    BY <2>2, NetKeeps DEF SameReads
  <2>9. QED
    BY <1>3, <2>4, <2>6, <2>7, <2>8, KeepsTrans
<1>6. QED
  BY <1>4, <1>5

(* One event taken in. *)
LEMMA AcceptSound ==
    ASSUME NEW s, Sound(s, {}, {}), NEW ev, Proper(ev)
    PROVE  Sound(Accept(s, ev), {}, {}) /\ Fits(s, Accept(s, ev))
<1> DEFINE i == ev.who
           t == ReadProject(s, ev.act)
           go == Push(s, ev, "go")
           yes == TRUE
           no == FALSE
           R == {}
<1>1. ev \in Event /\ s \in Loop /\ ev.data = None
  BY DEF Proper, Sound
<1>2. yes \in BOOLEAN /\ no \in BOOLEAN /\ \A k : k \notin R
  OBVIOUS
<1>3. Sound(go, {}, {}) /\ Fits(s, go)
  BY <1>1, PushSound
<1> HIDE DEF go, R, yes, no
<1>4. CASE ev.act \in {"connected", "disconnected", "sweep-end"}
  BY <1>3, <1>4 DEF Accept, go
<1>5. CASE ev.act = "network"
  <2>1. LET v == Send(go, Net, no, no) IN Sound(v, R, {}) /\ Fits(go, v)
    <3>1. Net \in Keys /\ Sound(go, R, {})
      BY <1>3 DEF Keys, R
    <3>2. QED
      BY <1>2, <3>1, SendSound, AsideFits
  <2>2. QED
    BY <1>3, <1>5, <2>1, FitsTrans DEF Accept, AcceptNetwork, go, no, R
<1>6. CASE ev.act = "profile"
  <2>1. InState(s) \in SUBSET Instances
    BY DEF InState
  <2>2. LET v == FanOut(go, InState(s)) IN Sound(v, {}, {}) /\ Fits(go, v)
    BY <1>3, <2>1, FanOutSound, AsideFits
  <2>3. QED
    BY <1>3, <1>6, <2>2, FitsTrans DEF Accept, go
<1>7. CASE ev.act = "deleted"
  <2> DEFINE f == Forgotten(s, i)
  <2>1. i \in Instances
    BY <1>7 DEF Proper
  <2>2. f \in Loop /\ SameReads(s, f) /\ f.q = s.q /\ Fits(s, f)
    BY <1>1, <2>1, BookType
  <2> HIDE DEF f
  <2>3. Waits(f, {})
    BY <2>2 DEF Waits, SameReads, Sound
  <2>4. Sound(f, {}, {})
    BY <2>2, <2>3, SameReadsSound
  <2>5. Sound(Push(f, ev, "go"), {}, {}) /\ Fits(f, Push(f, ev, "go"))
    BY <1>1, <2>4, PushSound
  <2>6. QED
    BY <1>7, <2>2, <2>5, FitsTrans DEF Accept, f
<1>8. CASE ev.act \in {"updated", "started"}
  <2>1. i \in Instances /\ i \in Keys
    BY <1>8 DEF Proper, Keys
  <2>2. Sound(t, R, {}) /\ Fits(s, t)
    <3>1. Prj \in Keys /\ Sound(s, R, {})
      BY DEF Keys, R
    <3>2. LET v == Send(s, Prj, no, no) IN Sound(v, R, {}) /\ Fits(s, v)
      BY <1>2, <3>1, SendSound, AsideFits
    <3>3. QED
      BY <3>1, <3>2 DEF Fits, ReadProject, no
  <2> HIDE DEF t, i
  <2>3. Sound(t, R, {i})
    BY <2>2 DEF Sound, Waits
  <2> DEFINE w == Push(t, ev, "wait")
             X == {i}
  <2>4. Sound(w, R, X) /\ Fits(t, w)
    BY <1>1, <2>1, <2>3, PushSound DEF i
  <2>5. PICK wfr \in BOOLEAN : wfr = (ev.act = "started")
    OBVIOUS
  <2> HIDE DEF w
  <2> DEFINE u == Send(w, i, no, wfr)
  <2>6. Sound(u, R, X) /\ u.calls[i] # None /\ Fits(w, u)
    <3> HIDE DEF X
    <3>1. i \in Keys /\ i \notin R /\ no \in BOOLEAN /\ wfr \in BOOLEAN /\ Sound(w, R, X)
      BY <1>2, <2>1, <2>4
    <3> HIDE DEF u
    <3>2. /\ Sound(Send(w, i, no, wfr), R, X) /\ Fits(w, Send(w, i, no, wfr))
          /\ Send(w, i, no, wfr).calls[i] # None
      BY <3>1, SendSound, AsideFits
    <3>3. QED
      BY <3>2 DEF u
  <2>7. Sound(u, R, {})
    <3> HIDE DEF u
    <3>1. QED
      BY <2>6 DEF Sound, Waits
  <2>8. Accept(s, ev) = u
    BY <1>8, <2>5 DEF Accept, u, w, t, i, no
  <2>9. Fits(s, u)
    BY <2>2, <2>4, <2>6, FitsTrans
  <2>10. QED
    BY <2>7, <2>8, <2>9 DEF R
<1>9. QED
  BY <1>1, <1>4, <1>5, <1>6, <1>7, <1>8 DEF Event

(* The event is one about i that has it read. *)
Names(ev, i) == ev.who = i /\ ev.act \in {"updated", "started"}

(* What is taken in keeps the round whole, unless it takes i away or ends  *)
(* the round too soon; and what has i read will tell of it.                *)
LEMMA AcceptKeeps ==
    ASSUME NEW s, Sound(s, {}, {}), NEW ev, Proper(ev), NEW i \in Instances, NEW b \in BOOLEAN,
           ~(ev.act = "deleted" /\ ev.who = i), ev.act = "sweep-end" => Safe(s, i, b)
    PROVE  /\ Keeps(s, Accept(s, ev), i, b)
           /\ Names(ev, i) => \E r \in DOMAIN Accept(s, ev).q : Tells(Accept(s, ev).q[r], i)
<1> DEFINE k == ev.who
           t == ReadProject(s, ev.act)
           go == Push(s, ev, "go")
           yes == TRUE
           no == FALSE
           R == {}
<1>1. /\ ev \in Event /\ s \in Loop /\ ~ev.failed
      /\ ev.act \in {"updated", "started", "deleted"} => k \in Instances
  BY DEF Proper, Sound
<1>2. yes \in BOOLEAN /\ no \in BOOLEAN /\ \A x : x \notin R
  OBVIOUS
<1>3. Sound(go, {}, {}) /\ Keeps(s, go, i, b)
  <2>1. PICK st \in {"wait", "go", "skip"} : st = "go"
    OBVIOUS
  <2>2. Keeps(s, Push(s, ev, st), i, b)
    BY <1>1, <2>1, PushKeeps
  <2>3. Sound(go, {}, {})
    BY <1>1, PushSound
  <2>4. QED
    BY <2>1, <2>2, <2>3
<1> HIDE DEF go, R, yes, no
<1>4. CASE ev.act \in {"connected", "disconnected", "sweep-end"}
  BY <1>3, <1>4 DEF Accept, go, Names
<1>5. CASE ev.act = "network"
  <2>1. LET v == Send(go, Net, no, no) IN Keeps(go, v, i, b)
    <3>1. Net \in Keys /\ Sound(go, R, {})
      BY <1>3 DEF Keys, R
    <3>2. QED
      BY <1>2, <3>1, SendSound, AsideKeeps DEF StillOwed
  <2>2. QED
    BY <1>3, <1>5, <2>1, KeepsTrans DEF Accept, AcceptNetwork, go, no, Names
<1>6. CASE ev.act = "profile"
  <2>1. InState(s) \in SUBSET Instances
    BY DEF InState
  <2>2. LET v == FanOut(go, InState(s)) IN Keeps(go, v, i, b)
    BY <1>3, <2>1, FanOutSound, AsideKeeps DEF StillOwed
  <2>3. QED
    BY <1>3, <1>6, <2>2, KeepsTrans DEF Accept, go, Names
<1>7. CASE ev.act = "deleted"
  <2> DEFINE f == Forgotten(s, k)
  <2>1. k \in Instances /\ k # i
    BY <1>1, <1>7
  <2>2. f \in Loop /\ SameLine(s, f, i)
    BY <1>1, <2>1, BookType
  <2> HIDE DEF f
  <2>3. PICK st \in {"wait", "go", "skip"} : st = "go"
    OBVIOUS
  <2>4. Keeps(s, f, i, b) /\ Keeps(f, Push(f, ev, st), i, b)
    BY <1>1, <1>7, <2>1, <2>2, <2>3, LineKeeps, PushKeeps
  <2>5. QED
    BY <1>7, <2>3, <2>4, KeepsTrans DEF Accept, f, Names
<1>8. CASE ev.act \in {"updated", "started"}
  <2>1. k \in Instances /\ k \in Keys
    BY <1>1, <1>8 DEF Keys
  <2>2. Sound(t, R, {}) /\ Keeps(s, t, i, b)
    <3>1. Prj \in Keys /\ Sound(s, R, {})
      BY DEF Keys, R
    <3>2. LET v == Send(s, Prj, no, no) IN Sound(v, R, {}) /\ Keeps(s, v, i, b)
      BY <1>2, <3>1, SendSound, AsideKeeps DEF StillOwed
    <3>3. QED
      BY <3>1, <3>2 DEF Keeps, Stands, ReadProject, no
  <2> HIDE DEF t, k
  <2>3. Sound(t, R, {k}) /\ t \in Loop
    BY <2>2 DEF Sound, Waits
  <2> DEFINE w == Push(t, ev, "wait")
             X == {k}
  <2>4. /\ Sound(w, R, X) /\ Keeps(t, w, i, b)
        /\ Names(ev, i) => \E r \in DOMAIN w.q : Tells(w.q[r], i)
    <3>1. PICK st \in {"wait", "go", "skip"} : st = "wait"
      OBVIOUS
    <3>2. /\ Keeps(t, Push(t, ev, st), i, b)
          /\ ev.who = i => \E r \in DOMAIN Push(t, ev, st).q : Tells(Push(t, ev, st).q[r], i)
      BY <1>1, <1>8, <2>3, <3>1, PushKeeps
    <3>3. Sound(w, R, X)
      BY <1>1, <2>1, <2>3, PushSound DEF k
    <3>4. QED
      BY <3>1, <3>2, <3>3 DEF Names
  <2>5. PICK wfr \in BOOLEAN : wfr = (ev.act = "started")
    OBVIOUS
  <2> HIDE DEF w
  <2> DEFINE u == Send(w, k, no, wfr)
  <2>6. Keeps(w, u, i, b) /\ u.q = w.q
    <3> HIDE DEF X
    <3>1. k \in Keys /\ k \notin R /\ no \in BOOLEAN /\ wfr \in BOOLEAN /\ Sound(w, R, X)
      BY <1>2, <2>1, <2>4
    <3> HIDE DEF u
    <3>2. Aside(w, Send(w, k, no, wfr))
      BY <3>1, SendSound DEF StillOwed
    <3>3. QED
      BY <3>2, AsideKeeps DEF u, Aside
  <2>7. Accept(s, ev) = u
    BY <1>8, <2>5 DEF Accept, u, w, t, k, no
  <2> HIDE DEF u
  <2>8. Keeps(s, u, i, b)
    BY <2>2, <2>4, <2>6, KeepsTrans
  <2>9. QED
    BY <2>4, <2>6, <2>7, <2>8
<1>9. QED
  BY <1>1, <1>4, <1>5, <1>6, <1>7, <1>8 DEF Event

(* What a listing leaves out goes, one instance after the other.           *)
LEMMA PrunedSound ==
    ASSUME NEW s, Sound(s, {}, {}), NEW names \in SUBSET Instances
    PROVE  Sound(Pruned(s, names), {}, {}) /\ Fits(s, Pruned(s, names))
<1> DEFINE who == MissingInstances(s, names)
           n == Cardinality(who)
           seq == SetToSeq(who)
           Good == {t \in Loop : Sound(t, {}, {}) /\ Fits(s, t)}
           J == [m \in 0..n |-> Good]
<1>1. n \in Nat /\ seq \in [1..n -> Instances]
  <2>1. who \in SUBSET Instances
    BY DEF MissingInstances, InState
  <2>2. QED
    BY <2>1, InTurn
<1>2. s \in Good
  BY DEF Sound, Fits
<1>3. \A t \in Good, k \in Instances : Accept(t, NewEvent("deleted", k)) \in Good
  <2> SUFFICES ASSUME NEW t \in Good, NEW k \in Instances
               PROVE  Accept(t, NewEvent("deleted", k)) \in Good
    OBVIOUS
  <2> DEFINE ev == NewEvent("deleted", k)
  <2>1. Proper(ev)
    BY DEF NewEvent, Proper, Event
  <2>2. Sound(t, {}, {}) /\ Fits(s, t)
    OBVIOUS
  <2> HIDE DEF ev
  <2>3. Sound(Accept(t, ev), {}, {}) /\ Fits(s, Accept(t, ev))
    BY <2>1, <2>2, AcceptSound, FitsTrans
  <2>4. QED
    BY <2>3 DEF Sound, ev
<1> HIDE DEF n, seq, Good
<1>4. s \in J[0] /\ \A m \in 1..n : \A t \in J[m - 1] : Accept(t, NewEvent("deleted", seq[m])) \in J[m]
  <2>1. s \in J[0]
    BY <1>1, <1>2
  <2>2. ASSUME NEW m \in 1..n, NEW t \in J[m - 1]
        PROVE  Accept(t, NewEvent("deleted", seq[m])) \in J[m]
    <3>1. t \in Good /\ seq[m] \in Instances /\ m \in 0..n
      BY <1>1
    <3>2. QED
      BY <1>3, <3>1
  <2>3. QED
    BY <2>1, <2>2
<1>5. J[n] = Good
  BY <1>1
<1> HIDE DEF J
<1>6. PruneEach(s, seq) \in J[n]
  BY <1>1, <1>2, <1>3, <1>4, PruneFold
<1>7. Pruned(s, names) \in Good
  BY <1>5, <1>6 DEF Pruned, PruneEach, seq
<1>8. QED
  BY <1>7 DEF Good

(* A listing that has i takes others away. *)
LEMMA PrunedKeeps ==
    ASSUME NEW s, Sound(s, {}, {}), NEW names \in SUBSET Instances, NEW i \in names, NEW b \in BOOLEAN
    PROVE  Keeps(s, Pruned(s, names), i, b)
<1> DEFINE who == MissingInstances(s, names)
           n == Cardinality(who)
           seq == SetToSeq(who)
           Good == {t \in Loop : Sound(t, {}, {}) /\ Keeps(s, t, i, b)}
           Others == Instances \ {i}
           J == [m \in 0..n |-> Good]
<1>1. n \in Nat /\ seq \in [1..n -> Others]
  <2>1. who \in SUBSET Instances /\ i \notin who
    BY DEF MissingInstances, InState
  <2>2. n \in Nat /\ seq \in [1..n -> who]
    BY <2>1, InTurn
  <2> HIDE DEF n, seq, who
  <2>3. QED
    BY <2>1, <2>2
<1>2. s \in Good
  BY DEF Sound, Keeps, Stands
<1>3. \A t \in Good, k \in Others : Accept(t, NewEvent("deleted", k)) \in Good
  <2> SUFFICES ASSUME NEW t \in Good, NEW k \in Others
               PROVE  Accept(t, NewEvent("deleted", k)) \in Good
    OBVIOUS
  <2> DEFINE ev == NewEvent("deleted", k)
  <2>1. Proper(ev) /\ ev.act = "deleted" /\ ev.who = k
    BY DEF NewEvent, Proper, Event
  <2>2. Sound(t, {}, {}) /\ Keeps(s, t, i, b)
    OBVIOUS
  <2> HIDE DEF ev
  <2>3. Sound(Accept(t, ev), {}, {}) /\ Keeps(t, Accept(t, ev), i, b)
    BY <2>1, <2>2, AcceptSound, AcceptKeeps
  <2>4. Keeps(s, Accept(t, ev), i, b)
    BY <2>2, <2>3, KeepsTrans
  <2>5. QED
    BY <2>3, <2>4 DEF Sound, ev
<1> HIDE DEF n, seq, Good, Others
<1>4. s \in J[0] /\ \A m \in 1..n : \A t \in J[m - 1] : Accept(t, NewEvent("deleted", seq[m])) \in J[m]
  <2>1. s \in J[0]
    BY <1>1, <1>2
  <2>2. ASSUME NEW m \in 1..n, NEW t \in J[m - 1]
        PROVE  Accept(t, NewEvent("deleted", seq[m])) \in J[m]
    <3>1. t \in Good /\ seq[m] \in Others /\ m \in 0..n
      BY <1>1
    <3>2. QED
      BY <1>3, <3>1
  <2>3. QED
    BY <2>1, <2>2
<1>5. J[n] = Good
  BY <1>1
<1> HIDE DEF J
<1>6. PruneEach(s, seq) \in J[n]
  BY <1>1, <1>2, <1>3, <1>4, PruneFold
<1>7. Pruned(s, names) \in Good
  BY <1>5, <1>6 DEF Pruned, PruneEach, seq
<1>8. QED
  BY <1>7 DEF Good

-----------------------------------------------------------------------------
(* The pool's workers. *)

(* A worker that goes on with its read has it still. *)
LEMMA WorkerGoesOn ==
    ASSUME NEW s, Sound(s, {}, {}), NEW w \in Workers, s.worker[w].at # "idle",
           s.worker[w].key \in Instances, NEW at \in {"got", "polling"}, NEW got \in Nat, NEW t,
           t = [s EXCEPT !.worker[w] = [s.worker[w] EXCEPT !.at = at, !.got = got]]
    PROVE  Sound(t, {}, {}) /\ Fits(s, t) /\ \A i : SameLine(s, t, i)
<1> DEFINE new == [s.worker[w] EXCEPT !.at = at, !.got = got]
           worker == [s.worker EXCEPT ![w] = new]
<1>1. s \in Loop /\ s.worker \in [Workers -> Worker] /\ s.worker[w] \in Worker
  BY DEF Sound, Loop
<1>2. new \in Worker /\ new.at # "idle" /\ new.key = s.worker[w].key /\ new.live = s.worker[w].live
  BY <1>1 DEF Worker
<1>3. t = [s EXCEPT !.worker = worker]
  BY <1>1 DEF Loop
<1> HIDE DEF new
<1>4. worker \in [Workers -> Worker]
  BY <1>1, <1>2
<1>5. \A x \in Workers : /\ (worker[x].at # "idle") <=> (s.worker[x].at # "idle")
                         /\ worker[x].key = s.worker[x].key /\ worker[x].live = s.worker[x].live
  BY <1>1, <1>2
<1> HIDE DEF worker
<1>6. /\ t \in Loop /\ t.calls = s.calls /\ t.cold = s.cold /\ t.pending = s.pending
      /\ t.waiting = s.waiting /\ t.worker = worker /\ t.results = s.results /\ t.owed = s.owed
      /\ t.q = s.q /\ t.warm = s.warm /\ t.held = s.held /\ t.proj = s.proj
      /\ SameRest(s, t)
  BY <1>1, <1>3, <1>4 DEF Loop, SameRest
<1>7. \A k : Busy(t, k) = Busy(s, k) /\ Back(t, k) = Back(s, k)
  BY <1>5, <1>6 DEF Busy, Back
<1>8. \A k : (Nowhere(t, k) <=> Nowhere(s, k)) /\ (Once(t, k) <=> Once(s, k))
  BY <1>6, <1>7 DEF Nowhere, Once
<1>9. Held(t, {})
  BY <1>6, <1>8 DEF Held, Sound
<1>10. Quiet(t)
  BY <1>6, <1>7 DEF Sound, Quiet, Calm
<1>11. Fits(s, t)
  BY <1>6 DEF Fits, Fit, Asked
<1>12. \A i : SameLine(s, t, i)
  BY <1>6 DEF SameRest, SameLine, Answers
<1>13. QED
  BY <1>6, <1>9, <1>10, <1>11, <1>12 DEF Sound, Owed, ColdInstances, Waits

(* A worker that hands in its answer has its read no more: the answer has. *)
LEMMA WorkerHandsIn ==
    ASSUME NEW s, Sound(s, {}, {}), NEW w \in Workers, s.worker[w].at # "idle",
           NEW ans \in Answer, NEW t,
           t = [s EXCEPT !.worker[w] = Idle,
                         !.results = Append(@, [key |-> s.worker[w].key, live |-> s.worker[w].live,
                                                ans |-> ans])]
    PROVE  /\ Sound(t, {}, {})
           /\ (s.worker[w].live /\ s.worker[w].key = Prj => ans.is # "error") => Fits(s, t)
<1> DEFINE k == s.worker[w].key
           live == s.worker[w].live
           res == [key |-> k, live |-> live, ans |-> ans]
           worker == [s.worker EXCEPT ![w] = Idle]
           results == Append(s.results, res)
<1>1. /\ s \in Loop /\ s.worker \in [Workers -> Worker] /\ s.worker[w] \in Worker
      /\ s.results \in Seq(Result)
  BY DEF Sound, Loop
<1>2. k \in Keys /\ live \in BOOLEAN /\ Idle \in Worker /\ Idle.at = "idle" /\ Idle.live = FALSE
  BY <1>1 DEF Worker, Idle, Keys
<1>3. t = [s EXCEPT !.worker = worker, !.results = results]
  BY <1>1 DEF Loop
<1>4. res \in Result /\ res.key = k /\ res.live = live /\ res.ans = ans
  BY <1>2 DEF Result
<1>5. /\ worker \in [Workers -> Worker] /\ worker[w].at = "idle"
      /\ \A x \in Workers \ {w} : worker[x] = s.worker[x]
  BY <1>1, <1>2
<1> HIDE DEF res, worker
<1>6. /\ results \in Seq(Result) /\ DOMAIN results = 1..(Len(s.results) + 1)
      /\ results[Len(s.results) + 1] = res
      /\ DOMAIN s.results = 1..Len(s.results) /\ Len(s.results) \in Nat
      /\ \A j \in DOMAIN s.results : results[j] = s.results[j]
  BY <1>1, <1>4
<1> HIDE DEF results
<1>7. /\ t \in Loop /\ t.calls = s.calls /\ t.cold = s.cold /\ t.pending = s.pending
      /\ t.waiting = s.waiting /\ t.worker = worker /\ t.results = results /\ t.owed = s.owed
      /\ t.q = s.q /\ t.warm = s.warm /\ t.held = s.held /\ t.proj = s.proj
  BY <1>1, <1>3, <1>5, <1>6 DEF Loop
<1>8. ASSUME NEW x, x # k \/ ~live PROVE Busy(t, x) = Busy(s, x) /\ Back(t, x) = Back(s, x)
  <2>1. Busy(t, x) = Busy(s, x)
    BY <1>5, <1>7, <1>8 DEF Busy
  <2>2. Back(t, x) = Back(s, x)
    BY <1>4, <1>6, <1>7, <1>8 DEF Back
  <2>3. QED
    BY <2>1, <2>2
<1>9. ASSUME live PROVE s.calls[k] # None /\ Once(t, k)
  <2>1. w \in Busy(s, k)
    BY <1>9 DEF Busy
  <2>2. s.calls[k] # None /\ Once(s, k)
    BY <1>2, <2>1 DEF Sound, Held, Nowhere
  <2>3. /\ Single(Busy(s, k)) /\ Back(s, k) = {} /\ Positions(s.cold, k) = {}
        /\ Positions(s.pending, k) = {} /\ Positions(s.waiting, k) = {}
    BY <2>1, <2>2 DEF Once, Only
  <2>4. Busy(s, k) = {w}
    BY <2>1, <2>3 DEF Single
  <2>5. Busy(t, k) = {}
    BY <1>5, <1>7, <2>4 DEF Busy
  <2>6. Back(t, k) = {Len(s.results) + 1}
    BY <1>4, <1>6, <1>7, <1>9, <2>3 DEF Back
  <2>7. QED
    BY <1>7, <2>2, <2>3, <2>5, <2>6 DEF Once, Only, Single
<1>10. \A x : x # k \/ ~live => (Nowhere(t, x) <=> Nowhere(s, x)) /\ (Once(t, x) <=> Once(s, x))
  BY <1>7, <1>8 DEF Nowhere, Once
<1>11. Held(t, {})
  BY <1>7, <1>9, <1>10 DEF Held, Sound
<1>12. Quiet(t)
  <2>1. live => w \in Busy(s, k)
    BY DEF Busy
  <2>2. ASSUME NEW i \in Instances, Calm(s, i) PROVE Calm(t, i)
    <3>1. i # k \/ ~live
      BY <2>1, <2>2 DEF Calm
    <3>2. QED
      BY <1>7, <1>8, <2>2, <3>1 DEF Calm
  <2>3. QED
    BY <1>7, <2>2 DEF Sound, Quiet
<1>13. ASSUME live /\ k = Prj => ans.is # "error" PROVE Fits(s, t)
  BY <1>4, <1>6, <1>7, <1>13 DEF Fits, Fit, Asked
<1>14. QED
  BY <1>7, <1>11, <1>12, <1>13 DEF Sound, Owed, ColdInstances, Waits

(* The answer of a worker is one that i is there, and its network. *)
LEMMA HandsInKeeps ==
    ASSUME NEW s \in Loop, NEW w \in Workers, NEW ans, NEW t, NEW i, NEW b,
           t = [s EXCEPT !.worker[w] = Idle,
                         !.results = Append(@, [key |-> s.worker[w].key, live |-> s.worker[w].live,
                                                ans |-> ans])],
           s.worker[w].live => /\ s.worker[w].key = i => ans.is = "ok"
                               /\ s.worker[w].key = Net => ans.c # 0
    PROVE  Keeps(s, t, i, b)
<1> DEFINE res == [key |-> s.worker[w].key, live |-> s.worker[w].live, ans |-> ans]
<1>1. res.live => (res.key = i => res.ans.is = "ok") /\ (res.key = Net => res.ans.c # 0)
  OBVIOUS
<1>2. t.results = Append(s.results, res) /\ t.q = s.q /\ SameRest(s, t) /\ s.results \in Seq(Result)
  BY DEF Loop, SameRest
<1> HIDE DEF res
<1>3. \A j \in DOMAIN t.results : (j \in DOMAIN s.results /\ t.results[j] = s.results[j]) \/ t.results[j] = res
  BY <1>2
<1>4. Stays(s, i) => Stays(t, i)
  BY <1>1, <1>2, <1>3 DEF Stays
<1>5. EndsAfter(s, i, b) => EndsAfter(t, i, b)
  BY <1>2 DEF EndsAfter, SameRest
<1>6. FiledTold(s, i, b) => FiledTold(t, i, b)
  BY <1>2 DEF FiledTold, SameRest
<1>7. QED
  BY <1>2, <1>4, <1>5, <1>6 DEF Keeps, Stands, Whole, Safe, SameRest

(* The first answer is taken in hand; one that was withdrawn is dropped.   *)
LEMMA AnswerTaken ==
    ASSUME NEW s, Sound(s, {}, {}), s.results # <<>>, NEW res, res = s.results[1],
           NEW t, t = [s EXCEPT !.results = Tail(@)]
    PROVE  /\ res \in Result
           /\ res.live => Sound(t, {res.key}, {})
           /\ ~res.live => Sound(t, {}, {})
           /\ Fits(s, t) /\ t.warm = s.warm /\ (res.live /\ res.key \in Instances => s.warm)
           /\ Fit(s) /\ res.live /\ res.key = Prj => res.ans.is # "error"
<1> DEFINE k == res.key
           results == Tail(s.results)
<1>1. s \in Loop /\ s.results \in Seq(Result)
  BY DEF Sound, Loop
<1>2. /\ res \in Result /\ results \in Seq(Result) /\ 1 \in DOMAIN s.results
      /\ \A j \in DOMAIN results : j + 1 \in DOMAIN s.results /\ results[j] = s.results[j + 1]
      /\ \A j \in DOMAIN s.results : j = 1 \/ (j - 1 \in DOMAIN results /\ results[j - 1] = s.results[j])
      /\ DOMAIN s.results \subseteq Nat /\ DOMAIN results \subseteq Nat \ {0}
  BY <1>1
<1>3. k \in Keys /\ res.live \in BOOLEAN
  BY <1>2 DEF Result
<1>4. t = [s EXCEPT !.results = results]
  BY <1>1 DEF Loop
<1> HIDE DEF results
<1>5. /\ t \in Loop /\ t.calls = s.calls /\ t.cold = s.cold /\ t.pending = s.pending
      /\ t.waiting = s.waiting /\ t.worker = s.worker /\ t.results = results /\ t.owed = s.owed
      /\ t.q = s.q /\ t.warm = s.warm /\ t.held = s.held /\ t.proj = s.proj
  BY <1>1, <1>2, <1>4 DEF Loop
<1>6. \A x : Busy(t, x) = Busy(s, x)
  BY <1>5 DEF Busy
<1>7. ASSUME NEW x, x # k \/ ~res.live
      PROVE  (Nowhere(t, x) <=> Nowhere(s, x)) /\ (Once(t, x) <=> Once(s, x))
  <2>1. 1 \notin Back(s, x)
    BY <1>7 DEF Back
  <2>2. \A j \in Back(t, x) : j + 1 \in Back(s, x) /\ j \in Nat
    BY <1>2, <1>5 DEF Back
  <2>3. ASSUME NEW j \in Back(s, x) PROVE j \in Nat /\ j - 1 \in Back(t, x)
    <3>1. j # 1 /\ j \in DOMAIN s.results /\ s.results[j].key = x /\ s.results[j].live
      BY <2>1, <2>3 DEF Back
    <3>2. j - 1 \in DOMAIN results /\ results[j - 1] = s.results[j] /\ j \in Nat
      BY <1>2, <3>1
    <3>3. QED
      BY <1>5, <3>1, <3>2 DEF Back
  <2>4. Back(s, x) = {} <=> Back(t, x) = {}
    BY <2>2, <2>3
  <2>5. Single(Back(s, x)) => Single(Back(t, x))
    <3> SUFFICES ASSUME NEW p, Back(s, x) = {p} PROVE Single(Back(t, x))
      BY DEF Single
    <3>1. p \in Nat /\ p - 1 \in Back(t, x)
      BY <2>3
    <3>2. ASSUME NEW j \in Back(t, x) PROVE j = p - 1
      <4>1. j \in Nat /\ j + 1 \in {p}
        BY <2>2
      <4>2. QED
        BY <3>1, <4>1
    <3>3. Back(t, x) = {p - 1}
      BY <3>1, <3>2
    <3>4. QED
      BY <3>3 DEF Single
  <2>6. Single(Back(t, x)) => Single(Back(s, x))
    <3> SUFFICES ASSUME NEW p, Back(t, x) = {p} PROVE Single(Back(s, x))
      BY DEF Single
    <3>1. p \in Nat /\ p + 1 \in Back(s, x)
      BY <2>2
    <3>2. ASSUME NEW j \in Back(s, x) PROVE j = p + 1
      <4>1. j \in Nat /\ j - 1 \in {p}
        BY <2>3
      <4>2. QED
        BY <3>1, <4>1
    <3>3. Back(s, x) = {p + 1}
      BY <3>1, <3>2
    <3>4. QED
      BY <3>3 DEF Single
  <2>7. QED
    BY <1>5, <1>6, <2>4, <2>5, <2>6 DEF Nowhere, Once, Only
<1>8. ASSUME res.live PROVE s.calls[k] # None /\ Nowhere(t, k)
  <2>1. 1 \in Back(s, k)
    BY <1>2, <1>8 DEF Back
  <2>2. s.calls[k] # None /\ Once(s, k)
    BY <1>3, <2>1 DEF Sound, Held, Nowhere
  <2>3. /\ Single(Back(s, k)) /\ Busy(s, k) = {} /\ Positions(s.cold, k) = {}
        /\ Positions(s.pending, k) = {} /\ Positions(s.waiting, k) = {}
    BY <2>1, <2>2 DEF Once, Only
  <2>4. Back(s, k) = {1}
    BY <2>1, <2>3 DEF Single
  <2>5. ASSUME NEW j \in Back(t, k) PROVE FALSE
    <3>1. j + 1 \in Back(s, k) /\ j \in Nat \ {0}
      BY <1>2, <1>5, <2>5 DEF Back
    <3>2. QED
      BY <2>4, <3>1
  <2>6. QED
    BY <1>5, <1>6, <2>2, <2>3, <2>5 DEF Nowhere
<1>9. res.live => Held(t, {k})
  BY <1>5, <1>7, <1>8 DEF Held, Sound
<1>10. ~res.live => Held(t, {})
  BY <1>5, <1>7 DEF Held, Sound
<1>11. Quiet(t)
  <2>1. ASSUME NEW i, Back(s, i) = {} PROVE Back(t, i) = {}
    BY <1>2, <1>5, <2>1 DEF Back
  <2>2. \A i \in Instances : Calm(s, i) => Calm(t, i)
    BY <1>5, <1>6, <2>1 DEF Calm
  <2>3. QED
    BY <1>5, <2>2 DEF Sound, Quiet
<1>12. Fits(s, t)
  BY <1>2, <1>5 DEF Fits, Fit, Asked
<1>13. res.live /\ k \in Instances => s.warm
  <2>1. res.live => 1 \in Back(s, k)
    BY <1>2 DEF Back
  <2>2. QED
    BY <2>1 DEF Sound, Quiet, Calm
<1>14. Fit(s) /\ res.live /\ k = Prj => res.ans.is # "error"
  BY <1>2 DEF Fit
<1>15. QED
  BY <1>2, <1>5, <1>9, <1>10, <1>11, <1>12, <1>13, <1>14 DEF Sound, Owed, ColdInstances, Waits

(* What is taken in hand of a whole round is an answer like all of them.   *)
LEMMA TakenKeeps ==
    ASSUME NEW s \in Loop, s.results # <<>>, NEW res, res = s.results[1],
           NEW t, t = [s EXCEPT !.results = Tail(@)], NEW i, NEW b
    PROVE  /\ Keeps(s, t, i, b)
           /\ Whole(s, i, b) /\ res.live => /\ res.key = i => res.ans.is = "ok"
                                            /\ res.key = Net => res.ans.c # 0
<1>1. t.results = Tail(s.results) /\ t.q = s.q /\ SameRest(s, t) /\ s.results \in Seq(Result)
  BY DEF Loop, SameRest
<1>2. /\ 1 \in DOMAIN s.results
      /\ \A j \in DOMAIN t.results : j + 1 \in DOMAIN s.results /\ t.results[j] = s.results[j + 1]
  BY <1>1
<1>3. Stays(s, i) => Stays(t, i)
  BY <1>1, <1>2 DEF Stays
<1>4. EndsAfter(s, i, b) => EndsAfter(t, i, b)
  BY <1>1 DEF EndsAfter, SameRest
<1>5. FiledTold(s, i, b) => FiledTold(t, i, b)
  BY <1>1 DEF FiledTold, SameRest
<1>6. QED
  BY <1>1, <1>2, <1>3, <1>4, <1>5 DEF Keeps, Stands, Whole, Safe, SameRest, Stays

(* One thing less that is due another read, if it is known how many.       *)
LEMMA TakeDueSound ==
    ASSUME NEW s, Sound(s, {}, {}), NEW i \in Instances, s.due[i] > 0, NEW t \in TakeDue(s, i)
    PROVE  Sound(t, {}, {}) /\ Fits(s, t) /\ \A x : SameLine(s, t, x)
<1> DEFINE u == [s EXCEPT !.due[i] = @ - 1]
           due == [s.due EXCEPT ![i] = @ - 1]
<1>1. s \in Loop /\ s.due \in [Instances -> 0..DueCap] /\ DueCap \in Nat /\ Waits(s, {})
  BY ChainAssumption DEF Sound, Loop
<1>2. due \in [Instances -> 0..DueCap]
  BY <1>1
<1>3. u = [s EXCEPT !.due = due]
  BY <1>1 DEF Loop
<1>4. t \in {u, s}
  BY DEF TakeDue
<1> HIDE DEF due, u
<1>5. u \in Loop /\ SameReads(s, u) /\ SameSaid(s, u) /\ SameRest(s, u)
  BY <1>1, <1>2, <1>3 DEF Loop, SameReads, SameSaid, SameRest
<1>6. Waits(u, {})
  BY <1>1, <1>5 DEF Waits, SameReads, SameSaid
<1>7. Sound(u, {}, {})
  BY <1>5, <1>6, SameReadsSound
<1>8. Fits(s, u) /\ Fits(s, s)
  BY <1>5, SameFits DEF Fits
<1>9. \A x : SameLine(s, u, x) /\ SameLine(s, s, x)
  BY <1>5, RestSameLine DEF SameSaid, SameLine, Answers
<1>10. QED
  BY <1>4, <1>7, <1>8, <1>9

-----------------------------------------------------------------------------
(* What the plugin behind is told. *)

Views == [Instances -> Said \union {None}]
Told(v) == \A i \in Instances : v[i] # None => v[i].proj

(* It is told what the events say that leave the line. *)
LEMMA TellKept ==
    ASSUME NEW base \in Views, NEW list \in Seq(Item)
    PROVE  LET v == TellEach(base, list)
           IN  /\ v \in Views
               /\ Told(base) /\ (\A j \in DOMAIN list : list[j].ev.data # None => list[j].ev.data.proj)
                  => Told(v)
<1> DEFINE n == Len(list)
           H == Told(base) /\ \A j \in DOMAIN list : list[j].ev.data # None => list[j].ev.data.proj
           Good == {v \in Views : H => Told(v)}
           J == [m \in 0..n |-> Good]
           Step(v, it) == IF it.st = "go" THEN Folded(v, it.ev) ELSE v
<1>1. n \in Nat /\ list \in [1..n -> Item] /\ DOMAIN list = 1..n
  OBVIOUS
<1>2. ASSUME NEW v \in Views, NEW it \in Item
      PROVE  /\ Step(v, it) \in Views
             /\ Told(v) /\ (it.ev.data # None => it.ev.data.proj) => Told(Step(v, it))
  <2>1. it.ev \in Event /\ it.ev.who \in Instances \union {None} /\ it.ev.data \in Said \union {None}
    BY DEF Item, Event
  <2>2. \/ Step(v, it) = v
        \/ /\ it.ev.who \in Instances
           /\ \E d \in {None, it.ev.data} : Step(v, it) = [v EXCEPT ![it.ev.who] = d]
    BY <2>1 DEF Folded
  <2>3. \A d \in {None, it.ev.data}, i \in Instances : [v EXCEPT ![i] = d] \in Views
    BY <2>1 DEF Views
  <2>4. \A d \in {None, it.ev.data}, i \in Instances :
           Told(v) /\ (it.ev.data # None => it.ev.data.proj) => Told([v EXCEPT ![i] = d])
    BY DEF Views, Told
  <2> HIDE DEF Step
  <2>5. QED
    BY <2>2, <2>3, <2>4
<1> HIDE DEF Step
<1>3. base \in J[0]
  BY <1>1
<1>4. ASSUME NEW m \in 1..n, NEW v \in J[m - 1] PROVE Step(v, list[m]) \in J[m]
  <2>1. v \in Good /\ list[m] \in Item /\ m \in 0..n
    BY <1>1
  <2>2. H => (list[m].ev.data # None => list[m].ev.data.proj)
    BY <1>1
  <2>3. Step(v, list[m]) \in Good
    BY <1>2, <2>1, <2>2
  <2>4. QED
    BY <2>1, <2>3
<1>5. J[n] = Good
  BY <1>1
<1>6. TellEach(base, list) \in J[n]
  <2> HIDE DEF J, Good, n
  <2>1. \A v \in Views, it \in Item : Step(v, it) \in Views
    BY <1>2
  <2>2. \A m \in 1..n : \A v \in J[m - 1] : Step(v, list[m]) \in J[m]
    BY <1>4
  <2>3. QED
    BY <1>1, <1>3, <2>1, <2>2, TellFold DEF Step
<1>7. QED
  BY <1>5, <1>6

(* Whoever was told of stays told of, and whoever is spoken of is.         *)
LEMMA TellReaches ==
    ASSUME NEW base \in Views, NEW list \in Seq(Item), NEW i \in Instances,
           \A x \in DOMAIN list : ~(list[x].ev.act = "deleted" /\ list[x].ev.who = i),
           base[i] # None \/ \E x \in DOMAIN list : Spoken(list[x], i)
    PROVE  TellEach(base, list)[i] # None
<1> DEFINE n == Len(list)
           Reached(m) == base[i] # None \/ \E x \in 1..m : Spoken(list[x], i)
           J == [m \in 0..n |-> {v \in Views : Reached(m) => v[i] # None}]
           Step(v, it) == IF it.st = "go" THEN Folded(v, it.ev) ELSE v
<1>1. n \in Nat /\ list \in [1..n -> Item] /\ DOMAIN list = 1..n
  OBVIOUS
<1>2. ASSUME NEW v \in Views, NEW it \in Item
      PROVE  /\ Step(v, it) \in Views
             /\ Spoken(it, i) => Step(v, it)[i] # None
             /\ v[i] # None /\ ~(it.ev.act = "deleted" /\ it.ev.who = i) => Step(v, it)[i] # None
  <2>1. it.ev \in Event /\ it.ev.who \in Instances \union {None} /\ it.ev.data \in Said \union {None}
    BY DEF Item, Event
  <2>2. None \notin Instances
    BY ChainAssumption
  <2>3. \/ Step(v, it) = v /\ ~Spoken(it, i)
        \/ it.ev.act = "deleted" /\ it.ev.who \in Instances /\ Step(v, it) = [v EXCEPT ![it.ev.who] = None]
        \/ it.ev.data # None /\ it.ev.who \in Instances /\ Step(v, it) = [v EXCEPT ![it.ev.who] = it.ev.data]
    BY <2>1, <2>2 DEF Folded, Spoken
  <2>4. \A d \in {None, it.ev.data}, y \in Instances :
           /\ [v EXCEPT ![y] = d] \in Views
           /\ [v EXCEPT ![y] = d][i] = IF y = i THEN d ELSE v[i]
    BY <2>1 DEF Views
  <2> HIDE DEF Step
  <2>5. Step(v, it) \in Views
    BY <2>1, <2>3, <2>4
  <2>6. ASSUME Spoken(it, i) PROVE Step(v, it)[i] # None
    BY <2>3, <2>4, <2>6 DEF Spoken
  <2>7. ASSUME v[i] # None, ~(it.ev.act = "deleted" /\ it.ev.who = i) PROVE Step(v, it)[i] # None
    BY <2>3, <2>4, <2>7
  <2>8. QED
    BY <2>5, <2>6, <2>7
<1> HIDE DEF Step
<1>3. base \in J[0]
  BY <1>1
<1>4. ASSUME NEW m \in 1..n, NEW v \in J[m - 1] PROVE Step(v, list[m]) \in J[m]
  <2>1. m \in 0..n /\ m - 1 \in 0..n /\ list[m] \in Item
    BY <1>1
  <2>2. v \in Views /\ (Reached(m - 1) => v[i] # None)
    BY <2>1
  <2>3. Reached(m) => Reached(m - 1) \/ Spoken(list[m], i)
    BY <1>1
  <2>4. Reached(m) => Step(v, list[m])[i] # None
    BY <1>1, <1>2, <2>1, <2>2, <2>3
  <2>5. Step(v, list[m]) \in Views
    BY <1>2, <2>1, <2>2
  <2> HIDE DEF Reached
  <2>6. QED
    BY <2>1, <2>4, <2>5
<1>5. TellEach(base, list) \in J[n]
  <2> HIDE DEF J, n
  <2>1. \A v \in Views, it \in Item : Step(v, it) \in Views
    BY <1>2
  <2>2. \A m \in 1..n : \A v \in J[m - 1] : Step(v, list[m]) \in J[m]
    BY <1>4
  <2>3. QED
    BY <1>1, <1>3, <2>1, <2>2, TellFold DEF Step
<1>6. Reached(n)
  BY <1>1
<1> HIDE DEF Reached
<1>7. QED
  BY <1>1, <1>5, <1>6

(* It takes the fleet for whole by a round's end only. *)
LEMMA HealthReached ==
    ASSUME NEW base, NEW list \in Seq(Item), \A x \in DOMAIN list : list[x].ev.act # "sweep-end"
    PROVE  HealthEach(base, list) \in {base, FALSE}
<1> DEFINE n == Len(list)
           Good == {base, FALSE}
           S == {base, FALSE, TRUE}
           J == [m \in 0..n |-> Good]
           Step(h, it) == IF it.st = "go" THEN Health(h, it.ev) ELSE h
<1>1. n \in Nat /\ list \in [1..n -> Item] /\ DOMAIN list = 1..n
  OBVIOUS
<1>2. ASSUME NEW h, NEW it
      PROVE  /\ Step(h, it) \in {h, FALSE, TRUE}
             /\ it.ev.act # "sweep-end" => Step(h, it) \in {h, FALSE}
  BY DEF Health
<1> HIDE DEF Step
<1>3. base \in S /\ base \in J[0] /\ J[n] = Good
  BY <1>1
<1>4. ASSUME NEW m \in 1..n, NEW h \in J[m - 1] PROVE Step(h, list[m]) \in J[m]
  <2>1. m \in 0..n /\ m - 1 \in 0..n /\ list[m].ev.act # "sweep-end"
    BY <1>1
  <2>2. h \in Good
    BY <2>1
  <2>3. Step(h, list[m]) \in Good
    BY <1>2, <2>1, <2>2
  <2>4. QED
    BY <2>1, <2>3
<1>5. \A h \in S, it \in Item : Step(h, it) \in S
  BY <1>2
<1>6. HealthEach(base, list) \in J[n]
  <2> HIDE DEF J, n, S
  <2>1. \A m \in 1..n : \A h \in J[m - 1] : Step(h, list[m]) \in J[m]
    BY <1>4
  <2>2. QED
    BY <1>1, <1>3, <1>5, <2>1, HealthFold DEF Step
<1>7. QED
  BY <1>3, <1>6

(* What leaves tells of i when it should, and what stays stands.           *)
LEMMA PartsStand ==
    ASSUME NEW s \in Loop, NEW list, NEW t, NEW r, Parts(s, list, t, r), SameRest(s, t),
           t.results = s.results, NEW i, NEW b, NEW c,
           b \/ (\E x \in DOMAIN list : Spoken(list[x], i)) => c, Whole(s, i, b)
    PROVE  /\ Stands(s, t, i, b, c)
           /\ (\E x \in DOMAIN list : list[x].ev.act = "sweep-end") => c
           /\ \A x \in DOMAIN list : ~(list[x].ev.act = "deleted" /\ list[x].ev.who = i)
<1>1. /\ Len(s.q) \in Nat /\ DOMAIN s.q = 1..Len(s.q) /\ r \in 0..Len(s.q)
      /\ \A x \in 1..r : s.q[x].st # "wait" /\ list[x] = s.q[x]
      /\ DOMAIN list = 1..r /\ DOMAIN t.q = 1..(Len(s.q) - r)
      /\ \A x \in DOMAIN t.q : t.q[x] = s.q[x + r]
  BY DEF Parts, Loop
<1>2. ASSUME NEW x \in DOMAIN s.q, Tells(s.q[x], i)
      PROVE  c \/ (x - r \in DOMAIN t.q /\ Tells(t.q[x - r], i))
  <2>1. CASE x <= r
    <3>1. x \in DOMAIN list /\ Spoken(list[x], i)
      BY <1>1, <1>2, <2>1 DEF Tells
    <3>2. QED
      BY <3>1
  <2>2. CASE ~(x <= r)
    <3>1. x - r \in DOMAIN t.q /\ (x - r) + r = x
      BY <1>1, <2>2
    <3>2. t.q[x - r] = s.q[x]
      BY <1>1, <3>1
    <3>3. QED
      BY <1>2, <3>1, <3>2
  <2>3. QED
    BY <2>1, <2>2
<1>3. \A p \in DOMAIN t.q : p + r \in DOMAIN s.q /\ t.q[p] = s.q[p + r]
  BY <1>1
<1>4. t.arch = s.arch /\ t.net = s.net /\ t.ending = s.ending
  BY DEF SameRest
<1>5. EndsAfter(s, i, b) /\ FiledTold(s, i, b) /\ Stays(s, i)
  BY DEF Whole
<1>6. EndsAfter(t, i, c)
  <2> SUFFICES ASSUME NEW p \in DOMAIN t.q, t.q[p].ev.act = "sweep-end"
               PROVE  t.net # 0 /\ (c \/ \E x \in DOMAIN t.q : x < p /\ Tells(t.q[x], i))
    BY DEF EndsAfter
  <2>1. s.net # 0 /\ (b \/ \E x \in DOMAIN s.q : x < p + r /\ Tells(s.q[x], i))
    BY <1>3, <1>5 DEF EndsAfter
  <2>2. ASSUME NEW x \in DOMAIN s.q, x < p + r, Tells(s.q[x], i)
        PROVE  c \/ \E y \in DOMAIN t.q : y < p /\ Tells(t.q[y], i)
    <3>1. c \/ (x - r \in DOMAIN t.q /\ Tells(t.q[x - r], i))
      BY <1>2, <2>2
    <3>2. x - r < p
      BY <1>1, <2>2
    <3>3. QED
      BY <3>1, <3>2
  <2>3. QED
    BY <1>4, <2>1, <2>2
<1>7. FiledTold(t, i, c)
  <2> SUFFICES ASSUME t.arch[i] # None, ~c
               PROVE  \E x \in DOMAIN t.q :
                         /\ Spoken(t.q[x], i)
                         /\ \A y \in DOMAIN t.q : t.q[y].st = "wait" /\ t.q[y].ev.who = i => x < y
    BY DEF FiledTold
  <2>1. PICK x \in DOMAIN s.q :
           /\ Spoken(s.q[x], i)
           /\ \A y \in DOMAIN s.q : s.q[y].st = "wait" /\ s.q[y].ev.who = i => x < y
    BY <1>4, <1>5 DEF FiledTold
  <2>2. x - r \in DOMAIN t.q
    BY <1>2, <2>1 DEF Tells
  <2>3. t.q[x - r] = s.q[x]
    <3>1. (x - r) + r = x
      BY <1>1
    <3>2. QED
      BY <1>3, <2>2, <3>1
  <2>4. ASSUME NEW y \in DOMAIN t.q, t.q[y].st = "wait" /\ t.q[y].ev.who = i PROVE x - r < y
    <3>1. x < y + r
      BY <1>3, <2>1, <2>4
    <3>2. QED
      BY <1>1, <3>1
  <2>5. QED
    BY <2>1, <2>2, <2>3, <2>4
<1>8. Stays(t, i)
  BY <1>3, <1>5 DEF Stays
<1>9. Safe(s, i, b) => Safe(t, i, c)
  BY <1>2, <1>4 DEF Safe
<1>10. (\E x \in DOMAIN list : list[x].ev.act = "sweep-end") => c
  <2> SUFFICES ASSUME NEW p \in DOMAIN list, list[p].ev.act = "sweep-end" PROVE c
    OBVIOUS
  <2>1. p \in DOMAIN s.q /\ s.q[p].ev.act = "sweep-end"
    BY <1>1
  <2>2. b \/ \E x \in DOMAIN s.q : x < p /\ Tells(s.q[x], i)
    BY <1>5, <2>1 DEF EndsAfter
  <2>3. ASSUME NEW x \in DOMAIN s.q, x < p, Tells(s.q[x], i) PROVE c
    <3>1. x \in DOMAIN list /\ Spoken(list[x], i)
      BY <1>1, <2>3 DEF Tells
    <3>2. QED
      BY <3>1
  <2>4. QED
    BY <2>2, <2>3
<1>11. \A x \in DOMAIN list : ~(list[x].ev.act = "deleted" /\ list[x].ev.who = i)
  <2>1. \A x \in DOMAIN list : x \in DOMAIN s.q /\ list[x] = s.q[x]
    BY <1>1
  <2>2. QED
    BY <1>5, <2>1 DEF Stays
<1>12. QED
  BY <1>4, <1>6, <1>7, <1>8, <1>9, <1>10, <1>11 DEF Stands, Whole

-----------------------------------------------------------------------------
(* The invariant. *)

InboxProper == inbox \in Seq(Event) /\ \A j \in DOMAIN inbox : Proper(inbox[j])

Typed ==
    /\ srv \in [Instances -> [c: Nat, up: BOOLEAN] \union {Gone}] /\ subnet \in 1..2
    /\ sw \in Sweeper /\ stray \in Sweeper \union {None}
    /\ InboxProper
    /\ view \in Views /\ faults \in Nat

(* While no call fails: what the project sets is asked for before anything *)
(* else of a round, and known before anything is told.                     *)
First ==
    faults = 0 =>
        /\ Fit(e) /\ Told(view)
        /\ sw.at # "projects" => Asked(e)
        /\ stray # None /\ stray.at # "projects" => Asked(e)

IInv == Typed /\ Sound(e, {}, {}) /\ First

(* An event that is put in the inbox, or handed on past it.                *)
LEMMA HandleProper ==
    ASSUME InboxProper, NEW ev, Proper(ev),
           \/ Handle(ev) \/ Announce(ev) \/ inbox' = Append(inbox, ev)
    PROVE  InboxProper'
<1>1. inbox' = inbox \/ inbox' = Append(inbox, ev)
  BY DEF Handle, Announce
<1>2. ev \in Event
  BY DEF Proper
<1>3. CASE inbox' = inbox
  BY <1>3 DEF InboxProper
<1>4. CASE inbox' = Append(inbox, ev)
  <2>1. /\ inbox' \in Seq(Event)
        /\ \A j \in DOMAIN inbox' : (j \in DOMAIN inbox /\ inbox'[j] = inbox[j]) \/ inbox'[j] = ev
    BY <1>2, <1>4 DEF InboxProper
  <2>2. QED
    BY <2>1 DEF InboxProper
<1>5. QED
  BY <1>1, <1>3, <1>4

(* The events there are. *)
LEMMA ProperEvents ==
    /\ \A act \in {"connected", "disconnected", "sweep-end", "network", "profile"} :
          Proper(NewEvent(act, None))
    /\ \A act \in {"updated", "started", "deleted"}, i \in Instances : Proper(NewEvent(act, i))
  BY ChainAssumption DEF Proper, NewEvent, Event

(* The process starts with a loop that has nothing out. *)
LEMMA InvHoldsAtFirst == Init => IInv
<1> SUFFICES ASSUME Init PROVE IInv
  OBVIOUS
<1>1. Typed
  <2>1. <<>> \in Seq(Event) /\ DOMAIN <<>> = {}
    OBVIOUS
  <2>2. InboxProper
    BY <2>1 DEF Init, InboxProper
  <2>3. NewRun \in Sweeper
    BY DEF NewRun, Sweeper, Saying, Asking
  <2>4. srv \in [Instances -> [c: Nat, up: BOOLEAN] \union {Gone}]
    <3>1. ASSUME NEW r \in [c: {1}, up: {TRUE}] PROVE r \in [c: Nat, up: BOOLEAN]
      <4>1. r.c \in {1} /\ r.up \in {TRUE} /\ r = [c |-> r.c, up |-> r.up]
        OBVIOUS
      <4>2. {1} \subseteq Nat /\ {TRUE} \subseteq BOOLEAN
        OBVIOUS
      <4>3. r.c \in Nat /\ r.up \in BOOLEAN
        BY <4>1, <4>2, Zenon
      <4>4. QED
        BY <4>1, <4>3, Zenon
    <3>2. QED
      BY <3>1 DEF Init
  <2>5. QED
    BY <2>2, <2>3, <2>4 DEF Init, Typed, Views
<1>2. e \in Loop
  <2>1. Idle \in Worker
    BY DEF Idle, Worker, Keys
  <2>2. <<>> \in Seq(Item) /\ <<>> \in Seq(Keys) /\ <<>> \in Seq(Result)
    OBVIOUS
  <2>3. 0 \in 0..DueCap
    BY ChainAssumption
  <2>4. QED
    BY <2>1, <2>2, <2>3 DEF Init, NewLoop, Loop
<1>3. /\ e.calls = [k \in Keys |-> None] /\ e.cold = <<>> /\ e.pending = <<>> /\ e.waiting = <<>>
      /\ e.worker = [w \in Workers |-> Idle] /\ e.results = <<>> /\ e.q = <<>> /\ e.owed = 0
      /\ e.warm = FALSE /\ e.held = [i \in Instances |-> None]
  BY DEF Init, NewLoop
<1>4. \A k \in Keys : Nowhere(e, k)
  BY <1>3 DEF Nowhere, Positions, Busy, Back, Idle
<1>5. Held(e, {})
  BY <1>3, <1>4 DEF Held
<1>6. Owed(e) /\ Waits(e, {}) /\ ColdInstances(e)
  BY <1>3 DEF Owed, Waits, ColdInstances, Keys
<1>7. Quiet(e)
  BY <1>4 DEF Quiet, Calm, Nowhere, Keys
<1>8. First
  <2>1. Fit(e) /\ Told(view)
    BY <1>3 DEF Fit, Told, Init
  <2>2. sw.at = "projects" /\ stray = None
    BY DEF Init, NewRun
  <2>3. QED
    BY <2>1, <2>2 DEF First
<1>9. QED
  BY <1>1, <1>2, <1>5, <1>6, <1>7, <1>8 DEF IInv, Sound

(* What happens at the server, in the source and in the sweeper leaves the *)
(* loop alone, and is well typed.                                          *)
LEMMA OutsideTheLoop ==
    ASSUME IInv, ServerStep \/ Disconnect \/ Connect \/ Apply \/ Sweep \/ SweepFails
    PROVE  Typed' /\ e' = e /\ First'
<1> USE DEF IInv, Typed
<1> DEFINE Server == [c: Nat, up: BOOLEAN]
<1>1. ASSUME NEW c \in Contents PROVE c \in Nat
  BY ChainAssumption, <1>1
<1>2. CASE ServerStep
  <2>1. /\ subnet' \in 1..2 /\ sw' = sw /\ stray' = stray /\ e' = e /\ view' = view
        /\ faults' = faults
    BY <1>2 DEF ServerStep, Start, Restart, Update, Lease, Delete, Profile, Subnet, Apart
  <2>2. srv' \in [Instances -> Server \union {Gone}]
    <3>1. \A i \in Instances, c \in Contents :
             srv[i] # Gone => /\ [srv[i] EXCEPT !.c = c] \in Server
                              /\ [srv[i] EXCEPT !.up = TRUE] \in Server
                              /\ [srv[i] EXCEPT !.up = FALSE] \in Server
      BY <1>1
    <3>2. \A c \in Contents : [c |-> c, up |-> FALSE] \in Server
      BY <1>1
    <3>3. ASSUME NEW i \in Instances, Start(i) PROVE srv' \in [Instances -> Server \union {Gone}]
      BY <3>2, <3>3 DEF Start
    <3>4. ASSUME NEW i \in Instances, Restart(i) PROVE srv' \in [Instances -> Server \union {Gone}]
      BY <3>4 DEF Restart
    <3>5. ASSUME NEW i \in Instances, Update(i) PROVE srv' \in [Instances -> Server \union {Gone}]
      BY <1>1, <3>5 DEF Update
    <3>6. ASSUME NEW i \in Instances, Lease(i) PROVE srv' \in [Instances -> Server \union {Gone}]
      BY <3>6 DEF Lease
    <3>7. ASSUME NEW i \in Instances, Delete(i) PROVE srv' \in [Instances -> Server \union {Gone}]
      BY <3>7 DEF Delete
    <3>8. ASSUME Profile PROVE srv' \in [Instances -> Server \union {Gone}]
      BY <3>1, <3>8 DEF Profile
    <3>9. ASSUME Subnet PROVE srv' \in [Instances -> Server \union {Gone}]
      BY <3>9 DEF Subnet
    <3>10. QED
      BY <1>2, <3>3, <3>4, <3>5, <3>6, <3>7, <3>8, <3>9 DEF ServerStep
  <2>3. InboxProper'
    <3>1. ASSUME NEW i \in Instances, Start(i) \/ Restart(i) \/ Update(i) \/ Lease(i) \/ Delete(i)
          PROVE  InboxProper'
      <4>1. CASE Lease(i)
        BY <4>1 DEF Lease, InboxProper
      <4>2. CASE Start(i) \/ Restart(i) \/ Update(i) \/ Delete(i)
        <5>1. PICK act \in {"started", "updated", "deleted"} : Announce(NewEvent(act, i))
          BY <4>2 DEF Start, Restart, Update, Delete
        <5>2. Proper(NewEvent(act, i))
          BY ProperEvents
        <5>3. QED
          BY <5>1, <5>2, HandleProper
      <4>3. QED
        BY <3>1, <4>1, <4>2
    <3>2. ASSUME Profile \/ Subnet PROVE InboxProper'
      <4>1. PICK act \in {"profile", "network"} : Announce(NewEvent(act, None))
        BY <3>2 DEF Profile, Subnet
      <4>2. Proper(NewEvent(act, None))
        BY ProperEvents
      <4>3. QED
        BY <4>1, <4>2, HandleProper
    <3>3. QED
      BY <1>2, <3>1, <3>2 DEF ServerStep
  <2>4. QED
    BY <2>1, <2>2, <2>3 DEF First
<1>3. CASE Disconnect \/ Connect \/ Apply
  <2>1. PICK act \in {"disconnected", "connected", "sweep-end"} : Handle(NewEvent(act, None))
    BY <1>3 DEF Disconnect, Connect, Apply
  <2>2. Proper(NewEvent(act, None))
    BY ProperEvents
  <2>3. InboxProper'
    BY <2>1, <2>2, HandleProper
  <2>4. QED
    BY <1>3, <2>3 DEF Disconnect, Connect, Apply, world, First
<1>4. CASE Sweep \/ SweepFails
  <2>1. srv' = srv /\ subnet' = subnet /\ stray' = stray /\ e' = e /\ view' = view
    BY <1>4 DEF Sweep, SweepFails, SweepNetworks, SweepInstances, Trickle, NextRun, Outside, world
  <2>2. sw' \in Sweeper
    <3>1. subnet \in 0..2
      OBVIOUS
    <3>2. CASE SweepNetworks
      BY <3>1, <3>2 DEF SweepNetworks, Sweeper, Saying, Asking
    <3>3. CASE SweepInstances
      BY <3>3 DEF SweepInstances, Sweeper, Saying, Asking
    <3>4. CASE Trickle
      <4>1. PICK i \in sw.names :
               sw' = [sw EXCEPT !.names = @ \ {i}, !.at = IF sw.names = {i} THEN "done" ELSE @]
        BY <3>4 DEF Trickle
      <4>2. QED
        BY <4>1 DEF Sweeper, Saying, Asking
    <3>5. CASE NextRun
      BY <3>5 DEF NextRun, NewRun, Sweeper, Saying, Asking
    <3>6. CASE SweepFails
      BY <3>6 DEF SweepFails, At, Sweeper, Saying, Asking
    <3>7. QED
      BY <1>4, <3>2, <3>3, <3>4, <3>5, <3>6 DEF Sweep
  <2>3. InboxProper'
    <3>1. CASE Trickle
      <4>1. PICK i \in sw.names : inbox' = Append(inbox, NewEvent("updated", i))
        BY <3>1 DEF Trickle
      <4>2. i \in Instances
        BY DEF Sweeper
      <4>3. Proper(NewEvent("updated", i))
        BY <4>2, ProperEvents
      <4>4. QED
        BY <4>1, <4>3, HandleProper
    <3>2. CASE ~Trickle
      BY <1>4, <3>2 DEF Sweep, SweepFails, SweepNetworks, SweepInstances, NextRun, InboxProper
    <3>3. QED
      BY <3>1, <3>2
  <2>4. /\ faults' \in Nat
        /\ faults' = 0 => faults = 0 /\ (sw'.at # "projects" => sw.at # "projects")
    <3>1. CASE Sweep
      BY <3>1 DEF Sweep, SweepNetworks, SweepInstances, Trickle, NextRun, NewRun
    <3>2. CASE SweepFails
      BY <3>2 DEF SweepFails, Fault
    <3>3. QED
      BY <1>4, <3>1, <3>2
  <2>5. QED
    BY <2>1, <2>2, <2>3, <2>4 DEF First
<1>5. QED
  BY <1>2, <1>3, <1>4

(* What the pool's workers do is sound.                                    *)
LEMMA PoolSound ==
    ASSUME IInv, NEW w \in Workers, Read(w) \/ ReadFails(w)
    PROVE  /\ Sound(e', {}, {}) /\ UNCHANGED <<srv, subnet, inbox, sw, stray, view>>
           /\ faults' \in Nat /\ (faults' = 0 => faults = 0 /\ Fits(e, e'))
<1> USE DEF IInv
<1> DEFINE Server == [c: Nat, up: BOOLEAN]
<1>1. /\ UNCHANGED <<srv, subnet, inbox, sw, stray, view>>
      /\ faults' \in Nat /\ (faults' = faults \/ faults' # 0) /\ (ReadFails(w) => faults' # 0)
  <2>1. CASE Read(w)
    <3>1. UNCHANGED <<srv, subnet, inbox, sw, stray, view, faults>>
      BY <2>1 DEF Read, GetInstance, GetInstanceState, Poll, GetNetwork, GetProject, Abandoned,
                  Pool, world
    <3>2. ReadFails(w) => faults' = faults + 1
      BY DEF ReadFails, Fault
    <3>3. QED
      BY <3>1, <3>2 DEF Typed
  <2>2. CASE ReadFails(w)
    BY <2>2 DEF ReadFails, Fault, Pool, world, Typed
  <2>3. QED
    BY <2>1, <2>2
<1> SUFFICES Sound(e', {}, {}) /\ (faults' # 0 \/ Fits(e, e'))
  BY <1>1
<1>2. /\ e.worker[w] \in Worker /\ e.worker[w].got \in Nat /\ e.worker \in [Workers -> Worker]
      /\ e \in Loop
  BY DEF Sound, Loop, Worker
<1>3. e.worker[w].at # "idle"
  BY DEF Read, ReadFails, GetInstance, GetInstanceState, Poll, GetNetwork, GetProject, Abandoned,
         Reading
<1>4. ASSUME NEW c \in Nat, NEW up \in BOOLEAN PROVE Found(c, up) \in Answer /\ Found(c, up).is # "error"
  BY DEF Found, Answer
<1>5. NotFound \in Answer /\ Failed \in Answer /\ NotFound.is # "error"
  BY DEF NotFound, Failed, Answer
<1>6. ASSUME NEW ans \in Answer, Deliver(w, ans)
      PROVE  Sound(e', {}, {}) /\ (~e.worker[w].live \/ ans.is # "error" => Fits(e, e'))
  <2>1. e' = [e EXCEPT !.worker[w] = Idle,
                       !.results = Append(@, [key |-> e.worker[w].key, live |-> e.worker[w].live,
                                              ans |-> ans])]
    BY <1>6 DEF Deliver
  <2>2. PICK s, t : s = e /\ t = e'
    OBVIOUS
  <2>3. Sound(t, {}, {}) /\ (~s.worker[w].live \/ ans.is # "error" => Fits(s, t))
    BY <1>3, <2>1, <2>2, WorkerHandsIn
  <2>4. QED
    BY <2>2, <2>3
<1>7. ASSUME NEW at \in {"got", "polling"}, NEW got \in Nat, e.worker[w].key \in Instances,
             e' = [e EXCEPT !.worker[w] = [e.worker[w] EXCEPT !.at = at, !.got = got]]
      PROVE  Sound(e', {}, {}) /\ Fits(e, e')
  <2>1. PICK s, t, a, g : s = e /\ t = e' /\ a = at /\ g = got
    OBVIOUS
  <2>2. Sound(t, {}, {}) /\ Fits(s, t)
    BY <1>3, <1>7, <2>1, WorkerGoesOn
  <2>3. QED
    BY <2>1, <2>2
<1>8. CASE GetInstance(w)
  <2>1. PICK i : i = e.worker[w].key /\ i \in Instances
    BY <1>8 DEF GetInstance
  <2>2. CASE srv[i] = Gone
    <3>1. PICK ans \in Answer : Deliver(w, ans) /\ ans.is # "error"
      BY <1>5, <1>8, <2>1, <2>2 DEF GetInstance
    <3>2. QED
      BY <1>6, <3>1
  <2>3. CASE srv[i] # Gone
    <3>1. PICK c \in Nat : e' = [e EXCEPT !.worker[w].at = "got", !.worker[w].got = c]
      BY <1>8, <2>1, <2>3 DEF GetInstance, Typed
    <3>2. e' = [e EXCEPT !.worker[w] = [e.worker[w] EXCEPT !.at = "got", !.got = c]]
      BY <1>2, <3>1 DEF Loop, Worker
    <3>3. QED
      BY <1>7, <2>1, <3>2
  <2>4. QED
    BY <2>2, <2>3
<1>9. CASE GetInstanceState(w)
  <2>1. PICK got \in Nat : got = e.worker[w].got
    BY <1>2
  <2>2. \/ Deliver(w, NotFound) \/ Deliver(w, Found(got, TRUE))
        \/ e' = [e EXCEPT !.worker[w].at = "polling"]
    BY <1>9, <2>1 DEF GetInstanceState
  <2>3. CASE e' = [e EXCEPT !.worker[w].at = "polling"]
    <3>1. e' = [e EXCEPT !.worker[w] = [e.worker[w] EXCEPT !.at = "polling", !.got = got]]
      BY <1>2, <2>1, <2>3 DEF Loop, Worker
    <3>2. e.worker[w].at = "got" /\ e.worker[w].key \in Instances
      BY <1>2, <1>9 DEF GetInstanceState, Reading, Worker
    <3>3. QED
      BY <1>7, <3>1, <3>2
  <2>4. QED
    BY <1>4, <1>5, <1>6, <2>2, <2>3
<1>10. CASE Poll(w)
  <2>1. PICK i : i = e.worker[w].key /\ i \in Instances
    BY <1>2, <1>10 DEF Poll, Reading, Worker
  <2>2. PICK got \in Nat : got = e.worker[w].got
    BY <1>2
  <2>3. \/ Deliver(w, Found(got, TRUE)) \/ Deliver(w, Found(got, FALSE))
        \/ srv[i] # Gone /\ Deliver(w, Found(srv[i].c, TRUE))
    BY <1>10, <2>1, <2>2 DEF Poll
  <2>4. CASE srv[i] # Gone /\ Deliver(w, Found(srv[i].c, TRUE))
    <3>1. PICK c \in Nat : Deliver(w, Found(c, TRUE))
      BY <2>1, <2>4 DEF Typed
    <3>2. QED
      BY <1>4, <1>6, <3>1
  <2>5. QED
    BY <1>4, <1>6, <2>2, <2>3, <2>4
<1>11. CASE GetNetwork(w)
  <2>1. PICK c \in Nat : c = subnet
    BY DEF Typed
  <2>2. Deliver(w, Found(c, TRUE))
    BY <1>11, <2>1 DEF GetNetwork
  <2>3. QED
    BY <1>4, <1>6, <2>2
<1>12. CASE GetProject(w)
  BY <1>4, <1>6, <1>12 DEF GetProject
<1>13. CASE Abandoned(w)
  BY <1>5, <1>6, <1>13 DEF Abandoned
<1>14. CASE ReadFails(w)
  BY <1>1, <1>5, <1>6, <1>14 DEF ReadFails
<1>15. QED
  BY <1>8, <1>9, <1>10, <1>11, <1>12, <1>13, <1>14 DEF Read

-----------------------------------------------------------------------------
(* The loop's steps. *)

(* A step ends by handing on what may leave. *)
LEMMA HandOnSound ==
    ASSUME NEW s, Sound(s, {}, {}), view \in Views, HandOn(s)
    PROVE  /\ Sound(e', {}, {}) /\ view' \in Views
           /\ Fit(s) /\ Told(view) => Fit(e') /\ Told(view')
           /\ Asked(s) => Asked(e')
<1>1. PICK list, r, v : /\ list = Leaving(s) /\ r = Released(s) /\ v = view
                        /\ e' = r /\ view' = TellEach(v, list)
  BY DEF HandOn, TellEach
<1>2. /\ Sound(r, {}, {}) /\ list \in Seq(Item) /\ Fits(s, r)
      /\ Fit(s) => \A j \in DOMAIN list : list[j].ev.data # None => list[j].ev.data.proj
  BY <1>1, ReleasedSound
<1>3. /\ TellEach(v, list) \in Views
      /\ Told(v) /\ (\A j \in DOMAIN list : list[j].ev.data # None => list[j].ev.data.proj)
         => Told(TellEach(v, list))
  BY <1>1, <1>2, TellKept
<1>4. QED
  BY <1>1, <1>2, <1>3 DEF Fits

(* What is handed on tells of i, and the fleet is not taken for whole      *)
(* before; what stays in the line stands.                                  *)
LEMMA HandOnKeeps ==
    ASSUME NEW s, Sound(s, {}, {}), view \in Views, HandOn(s), NEW i \in Instances,
           NEW b \in BOOLEAN, b = (view[i] # None), Whole(s, i, b), healthy => b
    PROVE  /\ e'.ending = s.ending
           /\ \E c \in BOOLEAN : c = (view'[i] # None) /\ Stands(s, e', i, b, c) /\ (healthy' => c)
<1>1. PICK list, t, v, h : /\ list = Leaving(s) /\ t = Released(s) /\ v = view /\ h = healthy
                           /\ e' = t /\ view' = TellEach(v, list)
                           /\ healthy' = HealthEach(h, list)
  BY DEF HandOn, TellEach, HealthEach
<1>2. s \in Loop /\ list \in Seq(Item)
  BY <1>1, ReleasedSound DEF Sound
<1>3. Parts(s, list, t, ReadyLen(s)) /\ SameRest(s, t) /\ t.results = s.results
  BY <1>1, <1>2, ReleasedParts
<1>4. PICK c \in BOOLEAN : c = (TellEach(v, list)[i] # None)
  OBVIOUS
<1>5. \A x \in DOMAIN list : ~(list[x].ev.act = "deleted" /\ list[x].ev.who = i)
  <2>1. PICK d \in BOOLEAN : d
    OBVIOUS
  <2>2. QED
    BY <1>2, <1>3, <2>1, PartsStand
<1>6. b \/ (\E x \in DOMAIN list : Spoken(list[x], i)) => c
  <2>1. v \in Views /\ (b => v[i] # None)
    BY <1>1
  <2>2. v[i] # None \/ (\E x \in DOMAIN list : Spoken(list[x], i)) => TellEach(v, list)[i] # None
    BY <1>2, <1>5, <2>1, TellReaches
  <2>3. QED
    BY <1>4, <2>1, <2>2
<1>7. Stands(s, t, i, b, c) /\ ((\E x \in DOMAIN list : list[x].ev.act = "sweep-end") => c)
  BY <1>2, <1>3, <1>6, PartsStand
<1>8. HealthEach(h, list) => c
  <2>1. CASE \E x \in DOMAIN list : list[x].ev.act = "sweep-end"
    BY <1>7, <2>1
  <2>2. CASE \A x \in DOMAIN list : list[x].ev.act # "sweep-end"
    <3>1. HealthEach(h, list) \in {h, FALSE}
      BY <1>2, <2>2, HealthReached
    <3>2. h => c
      BY <1>1, <1>6
    <3>3. QED
      BY <3>1, <3>2
  <2>3. QED
    BY <2>1, <2>2
<1>9. QED
  BY <1>1, <1>3, <1>4, <1>7, <1>8 DEF SameRest

(* A run of the sweeper goes on, or is stopped. *)
LEMMA RunsTyped ==
    ASSUME NEW run \in Sweeper
    PROVE  /\ Stopped(run) \subseteq Sweeper \union {None}
           /\ run.at \in Saying => Onward(run) \in Sweeper
           /\ \A r \in Stopped(run) \ {None} : r.at = "projects" <=> run.at = "projects"
           /\ run.at \in Saying => Onward(run).at # "projects"
<1>1. /\ run.at \in Asking \union Saying /\ run.names \in SUBSET Instances /\ run.net \in 0..2
      /\ run = [at |-> run.at, names |-> run.names, net |-> run.net]
  BY DEF Sweeper
<1>2. \A at \in {"networks", "warm", "instances", "done", "trickle", "rest"} :
         [run EXCEPT !.at = at] \in Sweeper
  <2>1. ASSUME NEW at \in Asking \union Saying PROVE [run EXCEPT !.at = at] \in Sweeper
    BY <1>1, <2>1 DEF Sweeper
  <2>2. {"networks", "warm", "instances", "done", "trickle", "rest"} \subseteq Asking \union Saying
    BY DEF Asking, Saying
  <2>3. QED
    BY <2>1, <2>2
<1>3. [run EXCEPT !.at = "warm", !.net = 0] \in Sweeper
  <2>1. PICK at \in Asking \union Saying : at = "warm"
    BY DEF Saying
  <2>2. PICK u \in Sweeper : u = [run EXCEPT !.at = at]
    BY <1>1 DEF Sweeper
  <2>3. 0 \in 0..2
    OBVIOUS
  <2>4. [u EXCEPT !.net = 0] \in Sweeper
    BY <2>3 DEF Sweeper
  <2>5. [run EXCEPT !.at = "warm", !.net = 0] = [u EXCEPT !.net = 0]
    BY <2>1, <2>2
  <2>6. QED
    BY <2>4, <2>5
<1>4. Stopped(run) \subseteq Sweeper \union {None}
  <2>1. Stopped(run) \subseteq {None, run, [run EXCEPT !.at = "warm"]}
    BY DEF Stopped
  <2>2. [run EXCEPT !.at = "warm"] \in Sweeper
    BY <1>2
  <2>3. QED
    BY <2>1, <2>2
<1>5. ASSUME run.at \in Saying PROVE Onward(run) \in Sweeper
  <2>1. \/ Onward(run) = [run EXCEPT !.at = "warm", !.net = 0]
        \/ \E at \in {"networks", "instances", "done", "trickle", "rest"} :
              Onward(run) = [run EXCEPT !.at = at]
    BY <1>5 DEF Onward, Saying
  <2>2. QED
    BY <1>2, <1>3, <2>1
<1>6. \A r \in Stopped(run) \ {None} : r.at = "projects" <=> run.at = "projects"
  <2>1. [run EXCEPT !.at = "warm"].at = "warm"
    BY <1>1
  <2>2. \A r \in Stopped(run) : \/ r \in {None, run}
                                \/ run.at = "networks" /\ r = [run EXCEPT !.at = "warm"]
    BY DEF Stopped
  <2>3. QED
    BY <2>1, <2>2
<1>7. run.at \in Saying => Onward(run).at # "projects"
  BY <1>1 DEF Onward, Saying
<1>8. QED
  BY <1>4, <1>5, <1>6, <1>7

(* What the loop makes of what a run of the sweeper says.                  *)
Says(s, msg, t) ==
    \/ msg.at = "projects" /\ t = Send(s, Prj, FALSE, FALSE)
    \/ msg.at = "network" /\ t = [s EXCEPT !.net = msg.net]
    \/ msg.at = "warm" /\ t = Flush(s)
    \/ msg.at = "listing" /\ t = Pruned(s, msg.names)
    \/ msg.at = "done" /\ t \in {[s EXCEPT !.ending = TRUE], [s EXCEPT !.ending = FALSE]}

(* What one run of the sweeper says is taken in. *)
LEMMA AcceptSweepSound ==
    ASSUME Sound(e, {}, {}), NEW msg \in Sweeper, AcceptSweep(msg)
    PROVE  \E t : /\ HandOn(t) /\ Sound(t, {}, {}) /\ (Asked(e) => Asked(t))
                  /\ msg.at = "projects" => Asked(t)
                  /\ Fit(e) /\ (msg.at # "projects" => Asked(e)) => Fit(t)
                  /\ Says(e, msg, t)
                  /\ raised' = raised \/ (msg.at = "done" /\ raised' = raised + 1)
<1> DEFINE no == FALSE
           R == {}
<1>1. PICK s : s = e /\ s \in Loop /\ Sound(s, {}, {}) /\ Waits(s, {})
  BY DEF Sound
<1>2. msg.names \in SUBSET Instances /\ msg.net \in Nat
  BY DEF Sweeper
<1>3. PICK t : /\ HandOn(t) /\ Says(s, msg, t)
               /\ raised' = raised \/ (msg.at = "done" /\ raised' = raised + 1)
  BY <1>1 DEF AcceptSweep, Goes, SweepEnd, Says, source
<1> DEFINE Kept == /\ Sound(t, {}, {}) /\ (Asked(s) => Asked(t))
                   /\ Fit(s) /\ (msg.at # "projects" => Asked(s)) => Fit(t)
<1> SUFFICES Kept /\ (msg.at = "projects" => Asked(t))
  BY <1>1, <1>3
<1>4. CASE t = Send(s, Prj, FALSE, FALSE)
  <2>1. Sound(s, R, {}) /\ Prj \in Keys /\ Prj \notin R /\ no \in BOOLEAN
    BY <1>1 DEF Keys
  <2> HIDE DEF R, no
  <2>2. LET u == Send(s, Prj, no, no) IN Sound(u, R, {}) /\ Fits(s, u) /\ u.calls[Prj] # None
    BY <2>1, SendSound, AsideFits
  <2>3. QED
    BY <1>4, <2>2 DEF R, no, Fits, Asked
<1>5. CASE msg.at # "projects" /\ t = Flush(s)
  <2>1. /\ Sound(t, {}, {}) /\ StillOwed(s, t)
        /\ t.warm /\ ~s.warm => s.calls[Prj] = None
    BY <1>1, <1>5, FlushSound
  <2>2. Prj \in Keys
    BY DEF Keys
  <2>3. Asked(s) => Asked(t)
    BY <2>1, <2>2 DEF StillOwed, Aside, Asked
  <2>4. Fit(s) /\ Asked(s) => Fit(t)
    BY <2>1 DEF StillOwed, Aside, Answers, Asked, Fit
  <2>5. QED
    BY <1>5, <2>1, <2>3, <2>4
<1>6. ASSUME t = Pruned(s, msg.names) PROVE Kept
  <2>1. Sound(t, {}, {}) /\ Fits(s, t)
    BY <1>1, <1>2, <1>6, PrunedSound
  <2>2. QED
    BY <2>1 DEF Fits
<1>7. ASSUME t \in Loop, SameReads(s, t), SameSaid(s, t) PROVE Kept
  <2>1. Waits(t, {})
    BY <1>1, <1>7 DEF Waits, SameReads, SameSaid
  <2>2. QED
    BY <1>1, <1>7, <2>1, SameReadsSound, SameFits DEF Fits
<1>8. ASSUME t = [s EXCEPT !.net = msg.net] PROVE Kept
  <2>1. t \in Loop /\ SameReads(s, t) /\ SameSaid(s, t)
    BY <1>1, <1>2, <1>8 DEF Loop, SameReads, SameSaid
  <2>2. QED
    BY <1>7, <2>1
<1>9. ASSUME NEW b \in BOOLEAN, t = [s EXCEPT !.ending = b] PROVE Kept
  <2>1. t \in Loop /\ SameReads(s, t) /\ SameSaid(s, t)
    BY <1>1, <1>9 DEF Loop, SameReads, SameSaid
  <2>2. QED
    BY <1>7, <2>1
<1>10. QED
  BY <1>3, <1>4, <1>5, <1>6, <1>8, <1>9 DEF Says

(* Only the end of a round is put off or brought on. *)
LEMMA SameStands ==
    ASSUME NEW s, NEW t, t.q = s.q, t.arch = s.arch, t.net = s.net, t.results = s.results,
           NEW i, NEW b
    PROVE  Stands(s, t, i, b, b)
<1>1. EndsAfter(s, i, b) => EndsAfter(t, i, b)
  BY DEF EndsAfter
<1>2. FiledTold(s, i, b) => FiledTold(t, i, b)
  BY DEF FiledTold
<1>3. Stays(s, i) => Stays(t, i)
  BY DEF Stays
<1>4. Safe(s, i, b) => Safe(t, i, b)
  BY DEF Safe
<1>5. QED
  BY <1>1, <1>2, <1>3, <1>4 DEF Stands, Whole

(* What a run says leaves what is known of i, if it lists it.              *)
LEMMA SaysKeeps ==
    ASSUME NEW s, Sound(s, {}, {}), NEW msg \in Sweeper, NEW t, Says(s, msg, t),
           NEW i \in Instances, NEW b \in BOOLEAN,
           msg.at = "listing" => i \in msg.names, msg.at = "network" => msg.net # 0
    PROVE  /\ Stands(s, t, i, b, b)
           /\ msg.at # "done" => t.ending = s.ending
           /\ msg.at = "network" => t.net # 0
<1>1. s \in Loop
  BY DEF Sound
<1>2. ASSUME Keeps(s, t, i, b) PROVE Stands(s, t, i, b, b) /\ t.ending = s.ending
  BY <1>2 DEF Keeps
<1>3. CASE msg.at = "projects" /\ t = Send(s, Prj, FALSE, FALSE)
  <2> DEFINE no == FALSE
             R == {}
  <2>1. Sound(s, R, {}) /\ Prj \in Keys /\ Prj \notin R /\ no \in BOOLEAN
    BY DEF Keys
  <2> HIDE DEF R, no
  <2>2. StillOwed(s, Send(s, Prj, no, no))
    BY <2>1, SendSound
  <2>3. Aside(s, t)
    BY <1>3, <2>2 DEF StillOwed, no
  <2>4. QED
    BY <1>2, <1>3, <2>3, AsideKeeps
<1>4. CASE msg.at = "network" /\ t = [s EXCEPT !.net = msg.net]
  <2>1. t.q = s.q /\ t.arch = s.arch /\ t.ending = s.ending /\ t.results = s.results /\ t.net # 0
    BY <1>1, <1>4 DEF Loop
  <2>2. QED
    BY <1>2, <2>1, NetKeeps
<1>5. CASE msg.at = "warm" /\ t = Flush(s)
  <2>1. Aside(s, t)
    BY <1>5, FlushSound DEF StillOwed
  <2>2. QED
    BY <1>2, <1>5, <2>1, AsideKeeps
<1>6. CASE msg.at = "listing" /\ t = Pruned(s, msg.names)
  <2>1. PICK names \in SUBSET Instances : names = msg.names /\ i \in names
    BY <1>6 DEF Sweeper
  <2>2. Keeps(s, Pruned(s, names), i, b)
    BY <2>1, PrunedKeeps
  <2>3. QED
    BY <1>2, <1>6, <2>1, <2>2
<1>7. CASE msg.at = "done" /\ t \in {[s EXCEPT !.ending = TRUE], [s EXCEPT !.ending = FALSE]}
  <2>1. t.q = s.q /\ t.arch = s.arch /\ t.net = s.net /\ t.results = s.results
    BY <1>1, <1>7 DEF Loop
  <2>2. QED
    BY <1>7, <2>1, SameStands
<1>8. QED
  BY <1>3, <1>4, <1>5, <1>6, <1>7 DEF Says

(* The first event leaves the inbox. *)
LEMMA FirstEvent ==
    ASSUME InboxProper, inbox # <<>>
    PROVE  Proper(Head(inbox)) /\ (inbox' = Tail(inbox) => InboxProper')
<1>1. 1 \in DOMAIN inbox /\ Head(inbox) = inbox[1] /\ Tail(inbox) \in Seq(Event)
  BY DEF InboxProper
<1>2. \A j \in DOMAIN Tail(inbox) : j + 1 \in DOMAIN inbox /\ Tail(inbox)[j] = inbox[j + 1]
  BY DEF InboxProper
<1>3. QED
  BY <1>1, <1>2 DEF InboxProper

(* An answer, a read that is due, or the refused are taken up.             *)
LEMMA LoopGoes ==
    ASSUME IInv, TakeResult \/ TakeRetry \/ TakeRefused
    PROVE  \E v : /\ HandOn(v) /\ Sound(v, {}, {})
                  /\ Fit(e) => Fit(v) /\ (Asked(e) => Asked(v))
                  /\ raised' \in {raised, raised + 1}
                  /\ \A i \in Instances, b \in BOOLEAN : Whole(e, i, b) =>
                        /\ Stands(e, v, i, b, b)
                        /\ v.ending \/ raised' # raised => e.ending
<1> USE DEF IInv
<1>1. PICK s : s = e /\ s \in Loop /\ Sound(s, {}, {})
  BY DEF Sound
<1>2. ASSUME NEW v, HandOn(v), Sound(v, {}, {}), Fit(s) => Fit(v) /\ (Asked(s) => Asked(v)),
             raised' \in {raised, raised + 1},
             \A i \in Instances, b \in BOOLEAN : Whole(s, i, b) =>
                Stands(s, v, i, b, b) /\ (v.ending \/ raised' # raised => s.ending)
      PROVE  \E t : /\ HandOn(t) /\ Sound(t, {}, {})
                    /\ Fit(e) => Fit(t) /\ (Asked(e) => Asked(t))
                    /\ raised' \in {raised, raised + 1}
                    /\ \A i \in Instances, b \in BOOLEAN : Whole(e, i, b) =>
                          Stands(e, t, i, b, b) /\ (t.ending \/ raised' # raised => e.ending)
  BY <1>1, <1>2
<1>3. CASE TakeResult
  <2>1. PICK res, u, t : /\ s.results # <<>> /\ res = Head(s.results)
                         /\ u = [s EXCEPT !.results = Tail(@)]
                         /\ t = SettleRead(u, res.key, res.ans)
    BY <1>1, <1>3 DEF TakeResult
  <2>2. res = s.results[1]
    BY <1>1, <2>1 DEF Loop
  <2>3. /\ res \in Result
        /\ res.live => Sound(u, {res.key}, {})
        /\ ~res.live => Sound(u, {}, {})
        /\ Fits(s, u) /\ u.warm = s.warm /\ (res.live /\ res.key \in Instances => s.warm)
        /\ Fit(s) /\ res.live /\ res.key = Prj => res.ans.is # "error"
    BY <1>1, <2>1, <2>2, AnswerTaken
  <2>4. res.live => Sound(t, {}, {}) /\ (Fit(s) => Fits(s, t))
    <3>1. PICK k, ans : k = res.key /\ ans = res.ans /\ k \in Keys /\ ans \in Answer
      BY <2>3 DEF Result
    <3>2. ASSUME Sound(u, {k}, {})
          PROVE  /\ Sound(SettleRead(u, k, ans), {}, {})
                 /\ Fit(u) /\ (k \in Instances => u.warm) /\ (k = Prj => ans.is # "error")
                    => Fits(u, SettleRead(u, k, ans))
      BY <3>1, <3>2, SettleReadSound
    <3>3. QED
      BY <2>1, <2>3, <3>1, <3>2 DEF Fits
  <2>5. \/ ~res.live /\ HandOn(u) /\ raised' = raised
        \/ res.live /\ HandOn(t) /\ raised' = raised
        \/ res.live /\ HandOn([t EXCEPT !.ending = FALSE]) /\ t.ending /\ raised' = raised + 1
    BY <1>1, <1>3, <2>1 DEF TakeResult, Goes, SweepEnd, source
  <2>6. ASSUME NEW i \in Instances, NEW b \in BOOLEAN, Whole(s, i, b)
        PROVE  Keeps(s, u, i, b) /\ (res.live => Keeps(s, t, i, b))
    <3>1. /\ Keeps(s, u, i, b)
          /\ res.live => (res.key = i => res.ans.is = "ok") /\ (res.key = Net => res.ans.c # 0)
      BY <1>1, <2>1, <2>2, <2>6, TakenKeeps
    <3>2. ASSUME res.live PROVE Keeps(s, t, i, b)
      <4>1. PICK k, ans : k = res.key /\ ans = res.ans /\ k \in Keys /\ ans \in Answer
        BY <2>3 DEF Result
      <4>2. Keeps(u, SettleRead(u, k, ans), i, b)
        BY <2>3, <3>1, <3>2, <4>1, SettleReadKeeps
      <4>3. QED
        BY <2>1, <3>1, <4>1, <4>2, KeepsTrans
    <3>3. QED
      BY <3>1, <3>2
  <2>7. CASE ~res.live
    BY <1>2, <2>3, <2>5, <2>6, <2>7 DEF Keeps, Fits
  <2>8. CASE res.live /\ HandOn(t) /\ raised' = raised
    BY <1>2, <2>3, <2>4, <2>6, <2>8 DEF Keeps, Fits
  <2>9. CASE res.live /\ HandOn([t EXCEPT !.ending = FALSE]) /\ t.ending /\ raised' = raised + 1
    <3>1. PICK v : v = [t EXCEPT !.ending = FALSE]
      OBVIOUS
    <3>2. v \in Loop /\ SameReads(t, v) /\ SameSaid(t, v) /\ Waits(t, {})
          /\ v.arch = t.arch /\ v.net = t.net /\ v.ending = FALSE
      BY <2>4, <2>9, <3>1 DEF Sound, Loop, SameReads, SameSaid
    <3>3. Waits(v, {})
      BY <3>2 DEF Waits, SameReads, SameSaid
    <3>4. Sound(v, {}, {}) /\ Fits(t, v)
      BY <2>4, <2>9, <3>2, <3>3, SameReadsSound, SameFits
    <3>5. ASSUME NEW i \in Instances, NEW b \in BOOLEAN, Whole(s, i, b)
          PROVE  Stands(s, v, i, b, b) /\ s.ending /\ ~v.ending
      <4>1. Stands(t, v, i, b, b)
        BY <3>2, SameStands DEF SameReads, SameSaid
      <4>2. QED
        BY <2>6, <2>9, <3>2, <3>5, <4>1 DEF Keeps, Stands
    <3>6. QED
      BY <1>2, <2>4, <2>9, <3>1, <3>4, <3>5 DEF Fits
  <2>10. QED
    BY <2>5, <2>7, <2>8, <2>9
<1>4. CASE TakeRetry
  <2>1. PICK i \in Instances : s.due[i] > 0 /\ \E t \in TakeDue(s, i) : HandOn(FanOut(t, {i}))
    BY <1>1, <1>4 DEF TakeRetry, Goes
  <2>2. PICK t \in TakeDue(s, i) : HandOn(FanOut(t, {i}))
    BY <2>1
  <2>3. Sound(t, {}, {}) /\ Fits(s, t) /\ \A x : SameLine(s, t, x)
    BY <1>1, <2>1, <2>2, TakeDueSound
  <2>4. PICK who \in SUBSET Instances : who = {i}
    OBVIOUS
  <2>5. Sound(FanOut(t, who), {}, {}) /\ Fits(t, FanOut(t, who)) /\ Aside(t, FanOut(t, who))
    BY <2>3, FanOutSound, AsideFits DEF StillOwed
  <2>6. raised' = raised
    BY <1>4 DEF TakeRetry, Goes, source
  <2>7. PICK v : v = FanOut(t, who)
    OBVIOUS
  <2>8. Fits(s, v)
    BY <2>3, <2>5, <2>7, FitsTrans
  <2>9. ASSUME NEW x \in Instances, NEW b \in BOOLEAN PROVE Keeps(s, v, x, b)
    <3>1. Keeps(s, t, x, b) /\ Keeps(t, v, x, b)
      BY <2>3, <2>5, <2>7, LineKeeps, AsideKeeps
    <3>2. QED
      BY <3>1, KeepsTrans
  <2>10. QED
    BY <1>2, <2>2, <2>4, <2>5, <2>6, <2>7, <2>8, <2>9 DEF Fits, Keeps
<1>5. CASE TakeRefused
  <2>1. HandOn(Retried(s)) /\ raised' = raised
    BY <1>1, <1>5 DEF TakeRefused, Goes, source
  <2>2. PICK v : v = Retried(s)
    OBVIOUS
  <2>3. Sound(v, {}, {}) /\ Fits(s, v) /\ Aside(s, v)
    BY <1>1, <2>2, RetriedSound, AsideFits DEF StillOwed
  <2>4. \A x \in Instances, b \in BOOLEAN : Keeps(s, v, x, b)
    BY <2>3, AsideKeeps
  <2>5. QED
    BY <1>2, <2>1, <2>2, <2>3, <2>4 DEF Fits, Keeps, Aside
<1>6. QED
  BY <1>3, <1>4, <1>5

(* What the loop does is sound. *)
LEMMA LoopSound ==
    ASSUME IInv, TakeEvent \/ TakeSweep \/ TakeStray \/ TakeResult \/ TakeRetry \/ TakeRefused
    PROVE  IInv'
<1> USE DEF IInv
<1>1. PICK s : s = e /\ s \in Loop /\ Sound(s, {}, {})
  BY DEF Sound
<1>2. CASE TakeEvent
  <2>1. PICK ev : ev = Head(inbox) /\ Proper(ev) /\ InboxProper'
    BY <1>2, FirstEvent DEF TakeEvent, Typed
  <2>2. PICK t : t = Accept(s, ev) /\ HandOn(t)
    BY <1>1, <1>2, <2>1 DEF TakeEvent
  <2>3. Sound(t, {}, {}) /\ Fits(s, t)
    BY <1>1, <2>1, <2>2, AcceptSound
  <2>4. /\ Sound(e', {}, {}) /\ view' \in Views
        /\ Fit(s) /\ Told(view) => Fit(e') /\ Told(view')
        /\ Asked(s) => Asked(e')
    BY <2>2, <2>3, HandOnSound DEF Typed, Fits
  <2>5. /\ UNCHANGED <<srv, subnet, faults>>
        /\ \/ sw' = NewRun /\ stray' \in Stopped(sw)
           \/ sw' = sw /\ stray' = stray
    BY <1>2 DEF TakeEvent, world
  <2>6. sw' \in Sweeper /\ stray' \in Sweeper \union {None}
    <3>1. NewRun \in Sweeper
      BY DEF NewRun, Sweeper, Saying, Asking
    <3>2. Stopped(sw) \subseteq Sweeper \union {None}
      BY RunsTyped DEF Typed
    <3>3. QED
      BY <2>5, <3>1, <3>2 DEF Typed
  <2>7. First'
    <3>1. /\ sw'.at # "projects" => sw.at # "projects"
          /\ stray' # None /\ stray'.at # "projects" =>
                sw.at # "projects" \/ (stray # None /\ stray.at # "projects")
      <4>1. \A r \in Stopped(sw) \ {None} : r.at = "projects" <=> sw.at = "projects"
        BY RunsTyped DEF Typed
      <4>2. QED
        BY <2>5, <4>1 DEF NewRun
    <3>2. QED
      BY <1>1, <2>4, <2>5, <3>1 DEF First
  <2>8. QED
    BY <2>1, <2>4, <2>5, <2>6, <2>7 DEF Typed
<1>3. CASE TakeSweep
  <2>1. PICK msg \in Sweeper : msg = sw /\ AcceptSweep(msg) /\ msg.at \in Saying
    BY <1>3 DEF TakeSweep, Typed
  <2>2. PICK t : /\ HandOn(t) /\ Sound(t, {}, {}) /\ (Asked(e) => Asked(t))
                 /\ msg.at = "projects" => Asked(t)
                 /\ Fit(e) /\ (msg.at # "projects" => Asked(e)) => Fit(t)
    BY <2>1, AcceptSweepSound
  <2>3. /\ Sound(e', {}, {}) /\ view' \in Views
        /\ Fit(t) /\ Told(view) => Fit(e') /\ Told(view')
        /\ Asked(t) => Asked(e')
    BY <2>2, HandOnSound DEF Typed
  <2>4. Onward(msg) \in Sweeper /\ Onward(msg).at # "projects"
    BY <2>1, RunsTyped
  <2>5. UNCHANGED <<srv, subnet, inbox, stray, faults>> /\ sw' = Onward(msg)
    BY <1>3, <2>1 DEF TakeSweep, world
  <2>6. First'
    BY <2>1, <2>2, <2>3, <2>5 DEF First
  <2>7. QED
    BY <2>3, <2>4, <2>5, <2>6 DEF Typed, InboxProper
<1>4. CASE TakeStray
  <2>1. PICK msg \in Sweeper : msg = stray
    BY <1>4 DEF TakeStray, Typed
  <2>2. UNCHANGED <<srv, subnet, sw, faults>> /\ stray # None
    BY <1>4 DEF TakeStray, world
  <2>3. CASE /\ msg.at \in Saying /\ AcceptSweep(msg)
             /\ stray' \in {None} \union Stopped(Onward(msg)) /\ inbox' = inbox
    <3>0. PICK t : /\ HandOn(t) /\ Sound(t, {}, {}) /\ (Asked(e) => Asked(t))
                   /\ msg.at = "projects" => Asked(t)
                   /\ Fit(e) /\ (msg.at # "projects" => Asked(e)) => Fit(t)
      BY <2>3, AcceptSweepSound
    <3>1. /\ Sound(e', {}, {}) /\ view' \in Views
          /\ Fit(t) /\ Told(view) => Fit(e') /\ Told(view')
          /\ Asked(t) => Asked(e')
      BY <3>0, HandOnSound DEF Typed
    <3>2. Onward(msg) \in Sweeper
      BY <2>3, RunsTyped
    <3>3. stray' \in Sweeper \union {None}
      <4>1. PICK run \in Sweeper : run = Onward(msg)
        BY <3>2
      <4>2. Stopped(run) \subseteq Sweeper \union {None}
        BY RunsTyped
      <4>3. QED
        BY <2>3, <4>1, <4>2
    <3>4. First'
      BY <2>1, <2>2, <3>0, <3>1 DEF First
    <3>5. QED
      BY <2>2, <2>3, <3>1, <3>3, <3>4 DEF Typed, InboxProper
  <2>4. CASE /\ \E i \in msg.names : inbox' = Append(inbox, NewEvent("updated", i))
             /\ stray' = None /\ e' = e /\ view' = view
    <3>1. PICK i \in msg.names : inbox' = Append(inbox, NewEvent("updated", i))
      BY <2>4
    <3>2. Proper(NewEvent("updated", i))
      <4>1. i \in Instances
        BY DEF Sweeper
      <4>2. QED
        BY <4>1, ProperEvents
    <3>3. InboxProper'
      BY <3>1, <3>2, HandleProper DEF Typed
    <3>4. QED
      BY <2>2, <2>4, <3>3 DEF Typed, First
  <2>5. CASE stray' = None /\ e' = e /\ inbox' = inbox /\ view' = view
    BY <2>2, <2>5 DEF Typed, InboxProper, First
  <2>6. QED
    BY <1>4, <2>1, <2>3, <2>4, <2>5 DEF TakeStray
<1>5. ASSUME NEW t, Sound(t, {}, {}), HandOn(t), UNCHANGED <<world, inbox, sw, stray, faults>>,
             faults = 0 /\ Fit(s) => Fit(t) /\ (Asked(s) => Asked(t))
      PROVE  IInv'
  <2>1. /\ Sound(e', {}, {}) /\ view' \in Views
        /\ Fit(t) /\ Told(view) => Fit(e') /\ Told(view')
        /\ Asked(t) => Asked(e')
    BY <1>5, HandOnSound DEF Typed
  <2>2. First'
    BY <1>1, <1>5, <2>1 DEF First
  <2>3. QED
    BY <1>5, <2>1, <2>2 DEF Typed, InboxProper, world
<1>6. CASE TakeResult \/ TakeRetry \/ TakeRefused
  <2>1. UNCHANGED <<world, inbox, sw, stray, faults>>
    BY <1>6 DEF TakeResult, TakeRetry, TakeRefused
  <2>2. PICK t : /\ HandOn(t) /\ Sound(t, {}, {})
                 /\ Fit(s) => Fit(t) /\ (Asked(s) => Asked(t))
    BY <1>1, <1>6, LoopGoes
  <2>3. QED
    BY <1>5, <2>1, <2>2
<1>7. QED
  BY <1>2, <1>3, <1>4, <1>6

-----------------------------------------------------------------------------
(* The round: while no call fails and no event is lost, whoever was there  *)
(* from the start and stays is told of before the round's end.             *)

(* i was told of, or will be by what is in the line or in the inbox.       *)
Due(s, box, i, b) == Safe(s, i, b) \/ (s.net # 0 /\ \E r \in DOMAIN box : Names(box[r], i))

(* That holds in front of a round's end in the inbox.                      *)
BoxWhole(s, box, i, b) ==
    \A p \in DOMAIN box :
        /\ box[p].act = "sweep-end" =>
              Safe(s, i, b) \/ (s.net # 0 /\ \E r \in DOMAIN box : r < p /\ Names(box[r], i))
        /\ ~(box[p].act = "deleted" /\ box[p].who = i)

(* And before the sweeper says that its run is done.                       *)
RunWhole(run, s, box, i, b) ==
    /\ run.at = "listing" => i \in run.names
    /\ run.at \in {"listing", "trickle", "done"} => s.net # 0
    /\ run.at = "network" => run.net # 0
    /\ run.at = "done" => Due(s, box, i, b)

(* The run that was not stopped.                                           *)
MainWhole(run, s, box, i, b) ==
    /\ RunWhole(run, s, box, i, b)
    /\ run.at \in {"warm", "instances"} => s.net # 0
    /\ run.at = "trickle" => i \in run.names \/ Due(s, box, i, b)

Round(i) ==
    \E b \in BOOLEAN :
        /\ b = (view[i] # None) /\ (healthy => b)
        /\ Whole(e, i, b) /\ BoxWhole(e, inbox, i, b)
        /\ raised > 0 \/ e.ending => Due(e, inbox, i, b)
        /\ srv[i] # Gone
        /\ MainWhole(sw, e, inbox, i, b)
        /\ stray # None => RunWhole(stray, e, inbox, i, b)

Rounds ==
    /\ stayed \subseteq Instances /\ raised \in Nat
    /\ faults = 0 /\ ~lost => \A i \in stayed : Round(i)

(* A step of the loop, from s to t, and of the inbox, keeps the round.     *)
Moves(s, box, t, new, i, b, c) ==
    /\ Whole(t, i, c) /\ BoxWhole(t, new, i, c)
    /\ Due(s, box, i, b) => Due(t, new, i, c)
    /\ s.net # 0 => t.net # 0

(* So it does for every run.                                               *)
LEMMA MovesRuns ==
    ASSUME NEW s, NEW box, NEW t, NEW new, NEW i, NEW b, NEW c, Moves(s, box, t, new, i, b, c),
           NEW run
    PROVE  /\ RunWhole(run, s, box, i, b) => RunWhole(run, t, new, i, c)
           /\ MainWhole(run, s, box, i, b) => MainWhole(run, t, new, i, c)
<1>1. RunWhole(run, s, box, i, b) => RunWhole(run, t, new, i, c)
  BY DEF Moves, RunWhole
<1>2. QED
  BY <1>1 DEF Moves, MainWhole

(* A run that was heard goes on.                                           *)
LEMMA RunGoesOn ==
    ASSUME NEW run \in Sweeper, run.at \in Saying, NEW s, NEW box, NEW i, NEW b,
           MainWhole(run, s, box, i, b), run.at = "network" => s.net # 0
    PROVE  MainWhole(Onward(run), s, box, i, b)
<1>1. /\ run.at = "projects" => Onward(run).at = "networks"
      /\ run.at = "network" => Onward(run).at = "warm"
      /\ run.at = "warm" => Onward(run).at = "instances"
      /\ run.at = "listing" => /\ Onward(run).at = IF run.names = {} THEN "done" ELSE "trickle"
                               /\ Onward(run).names = run.names
      /\ run.at = "done" => Onward(run).at = "rest"
  BY DEF Onward, Sweeper
<1>2. RunWhole(run, s, box, i, b) /\ (run.at = "warm" => s.net # 0)
  BY DEF MainWhole
<1>3. RunWhole(Onward(run), s, box, i, b)
  BY <1>1, <1>2 DEF RunWhole, Saying
<1>4. QED
  BY <1>1, <1>2, <1>3 DEF MainWhole, RunWhole, Saying

(* And one that was stopped, too. *)
LEMMA StrayGoesOn ==
    ASSUME NEW run \in Sweeper, NEW s, NEW box, NEW i, NEW b, RunWhole(run, s, box, i, b),
           NEW next, next # None,
           next \in {None} \union (IF run.at \in {"projects", "listing"}
                                   THEN Stopped(Onward(run)) ELSE {})
    PROVE  RunWhole(next, s, box, i, b)
<1>1. /\ run.at = "projects" => /\ Onward(run) = [run EXCEPT !.at = "networks"]
                                /\ Onward(run).at = "networks"
                                /\ [Onward(run) EXCEPT !.at = "warm"].at = "warm"
      /\ run.at = "listing" => /\ Onward(run).at = IF run.names = {} THEN "done" ELSE "trickle"
                               /\ Onward(run).names = run.names
  BY DEF Onward, Sweeper
<1>2. CASE run.at = "projects"
  <2>1. next.at = "warm"
    BY <1>1, <1>2 DEF Stopped, Saying
  <2>2. QED
    BY <2>1 DEF RunWhole
<1>3. CASE run.at = "listing"
  <2>1. i \in run.names /\ s.net # 0
    BY <1>3 DEF RunWhole
  <2>2. next = Onward(run) /\ next.at = "trickle"
    BY <1>1, <1>3, <2>1 DEF Stopped, Saying
  <2>3. QED
    BY <2>1, <2>2 DEF RunWhole
<1>4. QED
  BY <1>2, <1>3

(* The inbox is left alone. *)
LEMMA BoxStands ==
    ASSUME NEW s, NEW t, NEW box, NEW i, NEW b, NEW c, Stands(s, t, i, b, c), Whole(s, i, b),
           BoxWhole(s, box, i, b)
    PROVE  Moves(s, box, t, box, i, b, c)
<1>1. Whole(t, i, c) /\ (Safe(s, i, b) => Safe(t, i, c)) /\ (s.net # 0 => t.net # 0)
  BY DEF Stands
<1>2. BoxWhole(t, box, i, c)
  BY <1>1 DEF BoxWhole
<1>3. QED
  BY <1>1, <1>2 DEF Moves, Due

(* An event comes in. *)
LEMMA BoxGrows ==
    ASSUME NEW s, NEW box \in Seq(Event), NEW ev \in Event, NEW i, NEW b, Whole(s, i, b),
           BoxWhole(s, box, i, b), ~(ev.act = "deleted" /\ ev.who = i),
           ev.act = "sweep-end" => Due(s, box, i, b)
    PROVE  /\ Moves(s, box, s, Append(box, ev), i, b, b)
           /\ s.net # 0 /\ Names(ev, i) => Due(s, Append(box, ev), i, b)
<1> DEFINE new == Append(box, ev)
           n == Len(box)
<1>1. /\ n \in Nat /\ DOMAIN box = 1..n /\ DOMAIN new = 1..(n + 1) /\ new[n + 1] = ev
      /\ \A r \in 1..n : new[r] = box[r]
  OBVIOUS
<1> HIDE DEF new, n
<1>2. \A r \in DOMAIN box : r \in DOMAIN new /\ new[r] = box[r] /\ r < n + 1
  BY <1>1
<1>3. Due(s, box, i, b) => Due(s, new, i, b)
  BY <1>2 DEF Due
<1>4. s.net # 0 /\ Names(ev, i) => Due(s, new, i, b)
  <2>1. n + 1 \in DOMAIN new
    BY <1>1
  <2>2. QED
    BY <1>1, <2>1 DEF Due
<1>5. BoxWhole(s, new, i, b)
  <2> SUFFICES ASSUME NEW p \in DOMAIN new
               PROVE  /\ new[p].act = "sweep-end" =>
                            Safe(s, i, b) \/ (s.net # 0 /\ \E r \in DOMAIN new : r < p /\ Names(new[r], i))
                      /\ ~(new[p].act = "deleted" /\ new[p].who = i)
    BY DEF BoxWhole
  <2>1. CASE p \in DOMAIN box
    <3>1. /\ box[p].act = "sweep-end" =>
                Safe(s, i, b) \/ (s.net # 0 /\ \E r \in DOMAIN box : r < p /\ Names(box[r], i))
          /\ ~(box[p].act = "deleted" /\ box[p].who = i)
      BY <2>1 DEF BoxWhole
    <3>2. QED
      BY <1>2, <2>1, <3>1
  <2>2. CASE p \notin DOMAIN box
    <3>1. p = n + 1 /\ new[p] = ev
      BY <1>1, <2>2
    <3>2. QED
      BY <1>2, <3>1 DEF Due
  <2>3. QED
    BY <2>1, <2>2
<1>6. Moves(s, box, s, new, i, b, b)
  BY <1>3, <1>5 DEF Moves
<1>7. QED
  BY <1>4, <1>6 DEF new

(* The first event is taken out of the inbox and into the line.            *)
LEMMA BoxShifts ==
    ASSUME NEW s, NEW t, NEW box \in Seq(Event), box # <<>>, NEW i, NEW b, NEW c,
           Stands(s, t, i, b, c), Whole(s, i, b), BoxWhole(s, box, i, b),
           s.net # 0 /\ Names(Head(box), i) => Safe(t, i, c)
    PROVE  Moves(s, box, t, Tail(box), i, b, c)
<1> DEFINE new == Tail(box)
           n == Len(box)
<1>1. /\ n \in Nat \ {0} /\ DOMAIN box = 1..n /\ DOMAIN new = 1..(n - 1) /\ Head(box) = box[1]
      /\ \A r \in 1..(n - 1) : new[r] = box[r + 1]
  OBVIOUS
<1> HIDE DEF new, n
<1>2. Whole(t, i, c) /\ (Safe(s, i, b) => Safe(t, i, c)) /\ (s.net # 0 => t.net # 0)
  BY DEF Stands
<1>3. ASSUME NEW r \in DOMAIN box, Names(box[r], i), s.net # 0
      PROVE  Safe(t, i, c) \/ (r - 1 \in DOMAIN new /\ Names(new[r - 1], i))
  <2>1. CASE r = 1
    BY <1>1, <1>3, <2>1
  <2>2. CASE r # 1
    <3>1. r - 1 \in 1..(n - 1) /\ (r - 1) + 1 = r
      BY <1>1, <2>2
    <3>2. QED
      BY <1>1, <1>3, <3>1
  <2>3. QED
    BY <2>1, <2>2
<1>4. Due(s, box, i, b) => Due(t, new, i, c)
  BY <1>2, <1>3 DEF Due
<1>5. BoxWhole(t, new, i, c)
  <2> SUFFICES ASSUME NEW p \in DOMAIN new
               PROVE  /\ new[p].act = "sweep-end" =>
                            Safe(t, i, c) \/ (t.net # 0 /\ \E r \in DOMAIN new : r < p /\ Names(new[r], i))
                      /\ ~(new[p].act = "deleted" /\ new[p].who = i)
    BY DEF BoxWhole
  <2>1. p + 1 \in DOMAIN box /\ new[p] = box[p + 1] /\ p \in Int
    BY <1>1
  <2>2. /\ box[p + 1].act = "sweep-end" =>
              Safe(s, i, b) \/ (s.net # 0 /\ \E r \in DOMAIN box : r < p + 1 /\ Names(box[r], i))
        /\ ~(box[p + 1].act = "deleted" /\ box[p + 1].who = i)
    BY <2>1 DEF BoxWhole
  <2>3. ASSUME NEW r \in DOMAIN box, r < p + 1, Names(box[r], i), s.net # 0
        PROVE  Safe(t, i, c) \/ \E x \in DOMAIN new : x < p /\ Names(new[x], i)
    <3>1. Safe(t, i, c) \/ (r - 1 \in DOMAIN new /\ Names(new[r - 1], i))
      BY <1>3, <2>3
    <3>2. r - 1 < p
      BY <1>1, <2>1, <2>3
    <3>3. QED
      BY <3>1, <3>2
  <2>4. QED
    BY <1>2, <2>1, <2>2, <2>3
<1>6. QED
  BY <1>2, <1>4, <1>5 DEF Moves, new

(* What happens at the server, in the source and in the sweeper keeps the  *)
(* rounds whole.                                                           *)
LEMMA RoundsOutside ==
    ASSUME IInv, Rounds, ServerStep \/ Disconnect \/ Connect \/ Apply \/ Sweep \/ SweepFails
    PROVE  Rounds'
<1>1. /\ e' = e /\ view' = view /\ stray' = stray /\ stayed' \subseteq stayed /\ raised' \in Nat
      /\ raised' > 0 => raised > 0
      /\ faults' = 0 => faults = 0
      /\ lost' = lost \/ lost' = TRUE
  <2>1. raised \in Nat /\ faults \in Nat
    BY DEF Rounds, IInv, Typed
  <2>2. CASE ServerStep
    <3>1. /\ e' = e /\ view' = view /\ stray' = stray /\ raised' = raised /\ faults' = faults
          /\ stayed' \subseteq stayed
      BY <2>2 DEF ServerStep, Start, Restart, Update, Lease, Delete, Profile, Subnet, Apart, source
    <3>2. lost' = lost \/ lost' = TRUE
      BY <2>2 DEF ServerStep, Start, Restart, Update, Lease, Delete, Profile, Subnet, Announce, Handle
    <3>3. QED
      BY <2>1, <3>1, <3>2
  <2>3. CASE Disconnect \/ Connect \/ Apply
    <3>1. /\ e' = e /\ view' = view /\ stray' = stray /\ stayed' = stayed /\ faults' = faults
          /\ raised' = raised \/ (raised > 0 /\ raised' = raised - 1)
      BY <2>3 DEF Disconnect, Connect, Apply, world
    <3>2. lost' = lost \/ lost' = TRUE
      BY <2>3 DEF Disconnect, Connect, Apply, Handle
    <3>3. QED
      BY <2>1, <3>1, <3>2
  <2>4. CASE Sweep \/ SweepFails
    <3>1. /\ e' = e /\ view' = view /\ stray' = stray /\ stayed' = stayed /\ lost' = lost
          /\ raised' = raised /\ (faults' = faults \/ faults' = faults + 1)
      BY <2>4 DEF Sweep, SweepFails, SweepNetworks, SweepInstances, Trickle, NextRun, Outside,
                  world, source, Fault
    <3>2. QED
      BY <2>1, <3>1
  <2>5. QED
    BY <2>2, <2>3, <2>4
<1> SUFFICES ASSUME faults' = 0, ~lost', NEW i \in stayed' PROVE Round(i)'
  BY <1>1 DEF Rounds
<1>2. i \in stayed /\ i \in Instances /\ Round(i)
  BY <1>1 DEF Rounds
<1>3. PICK b \in BOOLEAN :
        /\ b = (view[i] # None) /\ (healthy => b)
        /\ Whole(e, i, b) /\ BoxWhole(e, inbox, i, b)
        /\ raised > 0 \/ e.ending => Due(e, inbox, i, b)
        /\ srv[i] # Gone
        /\ MainWhole(sw, e, inbox, i, b)
        /\ stray # None => RunWhole(stray, e, inbox, i, b)
  BY <1>2 DEF Round
<1>4. ASSUME healthy' = healthy, srv'[i] # Gone, Moves(e, inbox, e, inbox', i, b, b),
             MainWhole(sw', e, inbox', i, b)
      PROVE  Round(i)'
  <2>1. stray # None => RunWhole(stray, e, inbox', i, b)
    <3>1. PICK s, box, new, run : s = e /\ box = inbox /\ new = inbox' /\ run = stray
      OBVIOUS
    <3>2. RunWhole(run, s, box, i, b) => RunWhole(run, s, new, i, b)
      BY <1>4, <3>1, MovesRuns
    <3>3. QED
      BY <1>3, <3>1, <3>2
  <2>2. raised' > 0 \/ e.ending => Due(e, inbox', i, b)
    BY <1>1, <1>3, <1>4 DEF Moves
  <2>3. Whole(e, i, b) /\ BoxWhole(e, inbox', i, b)
    BY <1>4 DEF Moves
  <2>4. QED
    BY <1>1, <1>3, <1>4, <2>1, <2>2, <2>3 DEF Round
<1>5. ASSUME NEW ev \in Event, inbox' = Append(inbox, ev), healthy' = healthy,
             ~(ev.act = "deleted" /\ ev.who = i), ev.act = "sweep-end" => Due(e, inbox, i, b)
      PROVE  /\ Moves(e, inbox, e, inbox', i, b, b)
             /\ e.net # 0 /\ Names(ev, i) => Due(e, inbox', i, b)
             /\ sw' = sw /\ srv'[i] # Gone => Round(i)'
  <2>1. PICK s, box, new, run : s = e /\ box = inbox /\ new = inbox' /\ run = sw /\ box \in Seq(Event)
    BY DEF IInv, Typed, InboxProper
  <2>2. /\ Moves(s, box, s, new, i, b, b)
        /\ s.net # 0 /\ Names(ev, i) => Due(s, new, i, b)
    BY <1>3, <1>5, <2>1, BoxGrows
  <2>3. MainWhole(run, s, box, i, b) => MainWhole(run, s, new, i, b)
    BY <2>2, MovesRuns
  <2>4. QED
    BY <1>3, <1>4, <1>5, <2>1, <2>2, <2>3
<1>6. ASSUME inbox' = inbox PROVE Moves(e, inbox, e, inbox', i, b, b)
  BY <1>3, <1>6 DEF Moves
<1>7. CASE ServerStep
  <2>1. sw' = sw /\ srv \in [Instances -> [c: Nat, up: BOOLEAN] \union {Gone}]
    BY <1>7 DEF ServerStep, Start, Restart, Update, Lease, Delete, Profile, Subnet, Apart, IInv, Typed
  <2>2. srv[i] \in [c: Nat, up: BOOLEAN]
    BY <1>2, <1>3, <2>1
  <2>3. ASSUME NEW c \in Contents PROVE c \in Nat
    BY ChainAssumption, <2>3
  <2>4. \A r \in [c: Nat, up: BOOLEAN] : r # Gone
    BY ChainAssumption DEF Gone
  <2>5. ASSUME NEW k \in Instances, Start(k) \/ Restart(k) \/ Update(k) \/ Delete(k) PROVE Round(i)'
    <3>1. PICK act \in {"started", "updated", "deleted"} :
             Announce(NewEvent(act, k)) /\ (act = "deleted" => k # i)
      BY <2>5 DEF Start, Restart, Update, Delete
    <3>2. PICK ev \in Event : ev = NewEvent(act, k)
      BY ProperEvents DEF Proper
    <3>3. inbox' = Append(inbox, ev) /\ healthy' = healthy /\ ev.act = act /\ ev.who = k
      BY <3>1, <3>2 DEF Announce, Handle, NewEvent
    <3>4. srv'[i] # Gone
      <4>1. CASE Start(k)
        BY <1>2, <1>3, <2>1, <4>1 DEF Start
      <4>2. CASE Restart(k)
        BY <1>2, <2>1, <2>2, <2>4, <4>2 DEF Restart
      <4>3. CASE Update(k)
        BY <1>2, <2>1, <2>2, <2>3, <2>4, <4>3 DEF Update
      <4>4. CASE Delete(k)
        BY <1>2, <1>3, <2>1, <4>4 DEF Delete
      <4>5. QED
        BY <2>5, <4>1, <4>2, <4>3, <4>4
    <3>5. QED
      BY <1>5, <2>1, <3>1, <3>3, <3>4
  <2>6. ASSUME NEW k \in Instances, Lease(k) PROVE Round(i)'
    <3>1. inbox' = inbox /\ healthy' = healthy
      BY <2>6 DEF Lease
    <3>2. srv'[i] # Gone
      BY <1>2, <2>1, <2>2, <2>4, <2>6 DEF Lease
    <3>3. QED
      BY <1>3, <1>4, <1>6, <2>1, <3>1, <3>2
  <2>7. ASSUME Profile \/ Subnet PROVE Round(i)'
    <3>1. PICK act \in {"profile", "network"} : Announce(NewEvent(act, None))
      BY <2>7 DEF Profile, Subnet
    <3>2. PICK ev \in Event : ev = NewEvent(act, None)
      BY ProperEvents DEF Proper
    <3>3. inbox' = Append(inbox, ev) /\ healthy' = healthy /\ ev.act = act
      BY <3>1, <3>2 DEF Announce, Handle, NewEvent
    <3>4. srv'[i] # Gone
      <4>1. CASE Profile
        BY <1>2, <1>3, <2>2, <2>3, <2>4, <4>1 DEF Profile
      <4>2. CASE Subnet
        BY <1>3, <4>2 DEF Subnet
      <4>3. QED
        BY <2>7, <4>1, <4>2
    <3>5. QED
      BY <1>5, <2>1, <3>3, <3>4
  <2>8. QED
    BY <1>7, <2>5, <2>6, <2>7 DEF ServerStep
<1>8. CASE Disconnect \/ Connect \/ Apply
  <2>1. PICK act \in {"disconnected", "connected", "sweep-end"} :
           Handle(NewEvent(act, None)) /\ (act = "sweep-end" => raised > 0)
    BY <1>8 DEF Disconnect, Connect, Apply
  <2>2. PICK ev \in Event : ev = NewEvent(act, None)
    BY ProperEvents DEF Proper
  <2>3. inbox' = Append(inbox, ev) /\ healthy' = healthy /\ ev.act = act
    BY <2>1, <2>2 DEF Handle, NewEvent
  <2>4. sw' = sw /\ srv' = srv
    BY <1>8 DEF Disconnect, Connect, Apply, world
  <2>5. QED
    BY <1>3, <1>5, <2>1, <2>3, <2>4
<1>9. CASE Sweep
  <2>1. srv' = srv /\ healthy' = healthy
    BY <1>9 DEF Sweep, SweepNetworks, SweepInstances, Trickle, NextRun, Outside, world
  <2>2. sw \in Sweeper /\ subnet \in 1..2
    BY DEF IInv, Typed
  <2>3. CASE SweepNetworks
    <3>1. inbox' = inbox /\ sw'.at = "network" /\ sw'.net = subnet
      BY <2>2, <2>3 DEF SweepNetworks, Sweeper
    <3>2. MainWhole(sw', e, inbox', i, b)
      BY <2>2, <3>1 DEF MainWhole, RunWhole
    <3>3. QED
      BY <1>3, <1>4, <1>6, <2>1, <3>1, <3>2
  <2>4. CASE SweepInstances
    <3>1. /\ inbox' = inbox /\ sw'.at = "listing" /\ sw'.names = {x \in Instances : srv[x] # Gone}
          /\ sw.at = "instances"
      BY <2>2, <2>4 DEF SweepInstances, Sweeper
    <3>2. MainWhole(sw', e, inbox', i, b)
      BY <1>2, <1>3, <3>1 DEF MainWhole, RunWhole
    <3>3. QED
      BY <1>3, <1>4, <1>6, <2>1, <3>1, <3>2
  <2>5. CASE Trickle
    <3>1. PICK k \in sw.names :
             /\ sw.at = "trickle" /\ inbox' = Append(inbox, NewEvent("updated", k))
             /\ sw' = [sw EXCEPT !.names = @ \ {k}, !.at = IF sw.names = {k} THEN "done" ELSE @]
      BY <2>5 DEF Trickle
    <3>2. PICK ev \in Event : ev = NewEvent("updated", k)
      BY <2>2, <3>1, ProperEvents DEF Proper, Sweeper
    <3>3. ev.act = "updated" /\ ev.who = k
      BY <3>2 DEF NewEvent
    <3>4. /\ Moves(e, inbox, e, inbox', i, b, b)
          /\ e.net # 0 /\ Names(ev, i) => Due(e, inbox', i, b)
      BY <1>5, <2>1, <3>1, <3>2, <3>3
    <3>5. sw'.names = sw.names \ {k} /\ sw'.at = IF sw.names = {k} THEN "done" ELSE "trickle"
      BY <2>2, <3>1 DEF Sweeper
    <3>6. e.net # 0 /\ (i \in sw.names \/ Due(e, inbox', i, b))
      BY <1>3, <3>1, <3>4 DEF MainWhole, RunWhole, Moves
    <3>7. i = k => Due(e, inbox', i, b)
      BY <3>3, <3>4, <3>6 DEF Names
    <3>8. MainWhole(sw', e, inbox', i, b)
      BY <3>5, <3>6, <3>7 DEF MainWhole, RunWhole
    <3>9. QED
      BY <1>3, <1>4, <2>1, <3>4, <3>8
  <2>6. CASE NextRun
    <3>1. inbox' = inbox /\ sw'.at = "projects"
      BY <2>6 DEF NextRun, NewRun
    <3>2. MainWhole(sw', e, inbox', i, b)
      BY <3>1 DEF MainWhole, RunWhole
    <3>3. QED
      BY <1>3, <1>4, <1>6, <2>1, <3>1, <3>2
  <2>7. QED
    BY <1>9, <2>3, <2>4, <2>5, <2>6 DEF Sweep
<1>10. CASE SweepFails
  BY <1>1, <1>10 DEF SweepFails, Fault, IInv, Typed
<1>11. QED
  BY <1>7, <1>8, <1>9, <1>10

(* The pool's reads find who stays, and the network.                       *)
LEMMA RoundsPool ==
    ASSUME IInv, Rounds, NEW w \in Workers, Read(w) \/ ReadFails(w)
    PROVE  Rounds'
<1>1. /\ UNCHANGED <<stayed, raised, lost, view, healthy, inbox, srv, sw, stray>>
      /\ faults \in Nat /\ (faults' = faults \/ faults' # 0) /\ (ReadFails(w) => faults' # 0)
  <2>1. CASE Read(w)
    <3>1. UNCHANGED <<stayed, raised, lost, view, healthy, inbox, srv, sw, stray, faults>>
      BY <2>1 DEF Read, GetInstance, GetInstanceState, Poll, GetNetwork, GetProject, Abandoned,
                  Pool, world, source
    <3>2. ReadFails(w) => faults' = faults + 1
      BY DEF ReadFails, Fault
    <3>3. QED
      BY <3>1, <3>2 DEF IInv, Typed
  <2>2. CASE ReadFails(w)
    BY <2>2 DEF ReadFails, Fault, Pool, world, source, IInv, Typed
  <2>3. QED
    BY <2>1, <2>2
<1> SUFFICES ASSUME faults' = 0, ~lost', NEW i \in stayed PROVE Round(i)'
  BY <1>1 DEF Rounds
<1>2. i \in Instances /\ Round(i) /\ Read(w)
  BY <1>1 DEF Rounds
<1>3. PICK b \in BOOLEAN :
        /\ b = (view[i] # None) /\ (healthy => b)
        /\ Whole(e, i, b) /\ BoxWhole(e, inbox, i, b)
        /\ raised > 0 \/ e.ending => Due(e, inbox, i, b)
        /\ srv[i] # Gone
        /\ MainWhole(sw, e, inbox, i, b)
        /\ stray # None => RunWhole(stray, e, inbox, i, b)
  BY <1>2 DEF Round
<1>4. ASSUME Keeps(e, e', i, b) PROVE Round(i)'
  <2>1. PICK s, t, box, run, other : s = e /\ t = e' /\ box = inbox /\ run = sw /\ other = stray
    OBVIOUS
  <2>2. t.ending = s.ending /\ Stands(s, t, i, b, b)
    BY <1>4, <2>1 DEF Keeps
  <2>3. Moves(s, box, t, box, i, b, b)
    BY <1>3, <2>1, <2>2, BoxStands
  <2>4. /\ MainWhole(run, s, box, i, b) => MainWhole(run, t, box, i, b)
        /\ RunWhole(other, s, box, i, b) => RunWhole(other, t, box, i, b)
    BY <2>3, MovesRuns
  <2>5. Whole(t, i, b) /\ BoxWhole(t, box, i, b) /\ (Due(s, box, i, b) => Due(t, box, i, b))
    BY <2>3 DEF Moves
  <2>6. QED
    BY <1>1, <1>3, <2>1, <2>2, <2>4, <2>5 DEF Round
<1>5. /\ e.worker[w] \in Worker /\ e.worker[w].got \in Nat /\ e.worker \in [Workers -> Worker]
      /\ e \in Loop /\ Sound(e, {}, {})
  BY DEF IInv, Sound, Loop, Worker
<1>6. ASSUME NEW ans, Deliver(w, ans),
             e.worker[w].live => /\ e.worker[w].key = i => ans.is = "ok"
                                 /\ e.worker[w].key = Net => ans.c # 0
      PROVE  Round(i)'
  <2>1. e' = [e EXCEPT !.worker[w] = Idle,
                       !.results = Append(@, [key |-> e.worker[w].key, live |-> e.worker[w].live,
                                              ans |-> ans])]
    BY <1>6 DEF Deliver
  <2>2. PICK s, t : s = e /\ t = e'
    OBVIOUS
  <2>3. Keeps(s, t, i, b)
    BY <1>5, <1>6, <2>1, <2>2, HandsInKeeps
  <2>4. QED
    BY <1>4, <2>2, <2>3
<1>7. ASSUME NEW at \in {"got", "polling"}, NEW got \in Nat, e.worker[w].key \in Instances,
             e.worker[w].at # "idle",
             e' = [e EXCEPT !.worker[w] = [e.worker[w] EXCEPT !.at = at, !.got = got]]
      PROVE  Round(i)'
  <2>1. PICK s, t, a, g : s = e /\ t = e' /\ a = at /\ g = got
    OBVIOUS
  <2>2. SameLine(s, t, i)
    BY <1>5, <1>7, <2>1, WorkerGoesOn
  <2>3. Keeps(s, t, i, b)
    BY <2>2, LineKeeps
  <2>4. QED
    BY <1>4, <2>1, <2>3
<1>8. ASSUME NEW c, NEW up PROVE Found(c, up).is = "ok" /\ Found(c, up).c = c
  BY DEF Found
<1>9. Net \notin Instances /\ Prj # Net /\ Prj \notin Instances
  BY ChainAssumption
<1>10. CASE GetInstance(w)
  <2>1. PICK k \in Instances : k = e.worker[w].key /\ e.worker[w].at # "idle"
    BY <1>10 DEF GetInstance, Reading
  <2>2. CASE srv[k] = Gone
    <3>1. k # i /\ k # Net
      BY <1>3, <1>9, <2>2
    <3>2. Deliver(w, NotFound)
      BY <1>10, <2>1, <2>2 DEF GetInstance
    <3>3. QED
      BY <1>6, <2>1, <3>1, <3>2
  <2>3. CASE srv[k] # Gone
    <3>1. PICK c \in Nat : e' = [e EXCEPT !.worker[w].at = "got", !.worker[w].got = c]
      BY <1>10, <2>1, <2>3 DEF GetInstance, IInv, Typed
    <3>2. e' = [e EXCEPT !.worker[w] = [e.worker[w] EXCEPT !.at = "got", !.got = c]]
      BY <1>5, <3>1 DEF Loop, Worker
    <3>3. QED
      BY <1>7, <2>1, <3>2
  <2>4. QED
    BY <2>2, <2>3
<1>11. CASE GetInstanceState(w)
  <2>1. PICK got \in Nat : got = e.worker[w].got
    BY <1>5
  <2>2. PICK k \in Instances : k = e.worker[w].key /\ e.worker[w].at # "idle" /\ k # Net
    BY <1>5, <1>9, <1>11 DEF GetInstanceState, Reading, Worker
  <2>3. \/ Deliver(w, NotFound) /\ k # i
        \/ Deliver(w, Found(got, TRUE))
        \/ e' = [e EXCEPT !.worker[w].at = "polling"]
    BY <1>3, <1>11, <2>1, <2>2 DEF GetInstanceState
  <2>4. CASE e' = [e EXCEPT !.worker[w].at = "polling"]
    <3>1. e' = [e EXCEPT !.worker[w] = [e.worker[w] EXCEPT !.at = "polling", !.got = got]]
      BY <1>5, <2>1, <2>4 DEF Loop, Worker
    <3>2. QED
      BY <1>7, <2>2, <3>1
  <2>5. CASE Deliver(w, NotFound) /\ k # i
    BY <1>6, <2>2, <2>5
  <2>6. CASE Deliver(w, Found(got, TRUE))
    <3>1. PICK ans : ans = Found(got, TRUE)
      OBVIOUS
    <3>2. ans.is = "ok" /\ e.worker[w].key # Net
      BY <1>8, <2>2, <3>1
    <3>3. QED
      BY <1>6, <2>6, <3>1, <3>2
  <2>7. QED
    BY <2>3, <2>4, <2>5, <2>6
<1>12. CASE Poll(w)
  <2>1. e.worker[w].key # Net
    BY <1>5, <1>9, <1>12 DEF Poll, Reading, Worker
  <2>2. PICK ans : Deliver(w, ans) /\ ans.is = "ok"
    <3>1. PICK c, up : Deliver(w, Found(c, up))
      BY <1>12 DEF Poll
    <3>2. PICK ans : ans = Found(c, up)
      OBVIOUS
    <3>3. QED
      BY <1>8, <3>1, <3>2
  <2>3. QED
    BY <1>6, <2>1, <2>2
<1>13. CASE GetNetwork(w)
  <2>1. PICK c \in Nat \ {0} : c = subnet
    BY DEF IInv, Typed
  <2>2. PICK ans : ans = Found(c, TRUE) /\ Deliver(w, ans)
    BY <1>13, <2>1 DEF GetNetwork
  <2>3. ans.is = "ok" /\ ans.c # 0
    BY <1>8, <2>1, <2>2
  <2>4. QED
    BY <1>6, <2>2, <2>3
<1>14. CASE GetProject(w)
  <2>1. PICK ans : ans = Found(1, TRUE) /\ Deliver(w, ans) /\ e.worker[w].key = Prj
    BY <1>14 DEF GetProject
  <2>2. ans.is = "ok" /\ e.worker[w].key # Net
    BY <1>8, <1>9, <2>1
  <2>3. QED
    BY <1>6, <2>1, <2>2
<1>15. CASE Abandoned(w)
  BY <1>6, <1>15 DEF Abandoned
<1>16. QED
  BY <1>2, <1>10, <1>11, <1>12, <1>13, <1>14, <1>15 DEF Read

(* The loop's step, once it let go of what may leave.                      *)
LEMMA RoundOn ==
    ASSUME Typed, NEW t, Sound(t, {}, {}), HandOn(t), srv' = srv, NEW i \in Instances,
           NEW b \in BOOLEAN, b = (view[i] # None), healthy => b, srv[i] # Gone,
           Whole(t, i, b), BoxWhole(t, inbox', i, b),
           raised' > 0 \/ t.ending => Due(t, inbox', i, b),
           MainWhole(sw', t, inbox', i, b),
           stray' # None => RunWhole(stray', t, inbox', i, b)
    PROVE  Round(i)'
<1>1. PICK c \in BOOLEAN :
         /\ c = (view'[i] # None) /\ Stands(t, e', i, b, c) /\ (healthy' => c) /\ e'.ending = t.ending
  BY HandOnKeeps DEF Typed
<1>2. PICK u, box, run, other : u = e' /\ box = inbox' /\ run = sw' /\ other = stray'
  OBVIOUS
<1>3. Moves(t, box, u, box, i, b, c)
  BY <1>1, <1>2, BoxStands
<1>4. /\ MainWhole(run, t, box, i, b) => MainWhole(run, u, box, i, c)
      /\ RunWhole(other, t, box, i, b) => RunWhole(other, u, box, i, c)
  BY <1>3, MovesRuns
<1>5. Whole(u, i, c) /\ BoxWhole(u, box, i, c) /\ (Due(t, box, i, b) => Due(u, box, i, c))
  BY <1>3 DEF Moves
<1>6. QED
  BY <1>1, <1>2, <1>4, <1>5 DEF Round

(* What one run of the sweeper says keeps the round of who it lists.       *)
LEMMA RoundSaid ==
    ASSUME Typed, Sound(e, {}, {}), NEW msg \in Sweeper, AcceptSweep(msg), NEW i \in Instances,
           NEW b \in BOOLEAN, Whole(e, i, b), BoxWhole(e, inbox, i, b), raised \in Nat,
           raised > 0 \/ e.ending => Due(e, inbox, i, b),
           RunWhole(msg, e, inbox, i, b)
    PROVE  \E t : /\ HandOn(t) /\ Sound(t, {}, {}) /\ Moves(e, inbox, t, inbox, i, b, b)
                  /\ raised' > 0 \/ t.ending => Due(t, inbox, i, b)
                  /\ msg.at = "network" => t.net # 0
<1>1. PICK t : /\ HandOn(t) /\ Sound(t, {}, {}) /\ Says(e, msg, t)
               /\ raised' = raised \/ (msg.at = "done" /\ raised' = raised + 1)
  BY AcceptSweepSound
<1>2. PICK s, box : s = e /\ box = inbox
  OBVIOUS
<1>3. (msg.at = "listing" => i \in msg.names) /\ (msg.at = "network" => msg.net # 0)
      /\ (msg.at = "done" => Due(s, box, i, b))
  BY <1>2 DEF RunWhole
<1>4. /\ Stands(s, t, i, b, b)
      /\ msg.at # "done" => t.ending = s.ending
      /\ msg.at = "network" => t.net # 0
  BY <1>1, <1>2, <1>3, SaysKeeps
<1>5. Moves(s, box, t, box, i, b, b)
  BY <1>2, <1>4, BoxStands
<1>6. Due(s, box, i, b) => Due(t, box, i, b)
  BY <1>5 DEF Moves
<1>7. raised' > 0 \/ t.ending => Due(t, box, i, b)
  BY <1>1, <1>2, <1>3, <1>4, <1>6
<1>8. QED
  BY <1>1, <1>2, <1>4, <1>5, <1>7

(* What the loop does keeps the rounds whole.                              *)
LEMMA RoundsLoop ==
    ASSUME IInv, Rounds,
           TakeEvent \/ TakeSweep \/ TakeStray \/ TakeResult \/ TakeRetry \/ TakeRefused
    PROVE  Rounds'
<1> USE DEF IInv
<1>1. /\ UNCHANGED <<stayed, lost, srv, faults>> /\ (raised' = raised \/ raised' = raised + 1)
  <2>1. UNCHANGED <<stayed, lost, srv, faults>>
    BY DEF TakeEvent, TakeSweep, TakeStray, TakeResult, TakeRetry, TakeRefused, world
  <2>2. ASSUME NEW msg, AcceptSweep(msg) PROVE raised' = raised \/ raised' = raised + 1
    BY <2>2 DEF AcceptSweep, Goes, SweepEnd, source
  <2>3. QED
    BY <2>1, <2>2 DEF TakeEvent, TakeSweep, TakeStray, TakeResult, TakeRetry, TakeRefused,
                      Goes, SweepEnd, source
<1> SUFFICES ASSUME faults = 0, ~lost, NEW i \in stayed PROVE Round(i)'
  BY <1>1 DEF Rounds
<1>2. i \in Instances /\ Round(i) /\ raised \in Nat /\ Sound(e, {}, {}) /\ srv' = srv
  BY <1>1 DEF Rounds
<1>3. PICK b \in BOOLEAN :
        /\ b = (view[i] # None) /\ (healthy => b)
        /\ Whole(e, i, b) /\ BoxWhole(e, inbox, i, b)
        /\ raised > 0 \/ e.ending => Due(e, inbox, i, b)
        /\ srv[i] # Gone
        /\ MainWhole(sw, e, inbox, i, b)
        /\ stray # None => RunWhole(stray, e, inbox, i, b)
  BY <1>2 DEF Round
<1>4. ASSUME NEW t, Sound(t, {}, {}), HandOn(t), Moves(e, inbox, t, inbox', i, b, b),
             raised' > 0 \/ t.ending => Due(t, inbox', i, b),
             MainWhole(sw', t, inbox', i, b),
             stray' # None => RunWhole(stray', t, inbox', i, b)
      PROVE  Round(i)'
  <2>1. Whole(t, i, b) /\ BoxWhole(t, inbox', i, b)
    BY <1>4 DEF Moves
  <2>2. Typed
    OBVIOUS
  <2> HIDE DEF IInv
  <2>3. QED
    BY <1>2, <1>3, <1>4, <2>1, <2>2, RoundOn
<1>5. ASSUME NEW t, Moves(e, inbox, t, inbox', i, b, b), NEW run
      PROVE  /\ RunWhole(run, e, inbox, i, b) => RunWhole(run, t, inbox', i, b)
             /\ MainWhole(run, e, inbox, i, b) => MainWhole(run, t, inbox', i, b)
  <2>1. PICK s, box, new : s = e /\ box = inbox /\ new = inbox'
    OBVIOUS
  <2>2. QED
    BY <1>5, <2>1, MovesRuns
<1>6. ASSUME NEW t, NEW box, NEW run, run = NewRun \/ run.at = "warm"
      PROVE  RunWhole(run, t, box, i, b) /\ (run = NewRun => MainWhole(run, t, box, i, b))
  BY <1>6 DEF RunWhole, MainWhole, NewRun
<1>7. CASE TakeEvent
  <2>1. PICK s, box, ev : /\ s = e /\ box = inbox /\ box # <<>> /\ ev = Head(box)
                          /\ Proper(ev) /\ box \in Seq(Event) /\ inbox' = Tail(box)
    BY <1>7, FirstEvent DEF TakeEvent, Typed, InboxProper
  <2>2. PICK t : t = Accept(s, ev) /\ HandOn(t)
    BY <1>7, <2>1 DEF TakeEvent
  <2>3. ~(ev.act = "deleted" /\ ev.who = i) /\ (ev.act = "sweep-end" => Safe(s, i, b))
    <3>1. 1 \in DOMAIN box /\ ev = box[1] /\ \A r \in DOMAIN box : ~(r < 1)
      BY <2>1
    <3>2. BoxWhole(s, box, i, b)
      BY <1>3, <2>1
    <3>3. QED
      BY <3>1, <3>2 DEF BoxWhole
  <2>4. /\ Sound(t, {}, {}) /\ Keeps(s, t, i, b)
        /\ Names(ev, i) => \E r \in DOMAIN t.q : Tells(t.q[r], i)
    BY <1>2, <2>1, <2>2, <2>3, AcceptSound, AcceptKeeps
  <2>5. t.ending = s.ending /\ Stands(s, t, i, b, b)
    BY <2>4 DEF Keeps
  <2>6. s.net # 0 /\ Names(ev, i) => Safe(t, i, b)
    BY <1>3, <2>1, <2>4, <2>5 DEF Stands, Safe
  <2>7. Moves(s, box, t, Tail(box), i, b, b)
    BY <1>3, <2>1, <2>5, <2>6, BoxShifts
  <2>8. Moves(e, inbox, t, inbox', i, b, b)
    BY <2>1, <2>7
  <2>9. raised' > 0 \/ t.ending => Due(t, inbox', i, b)
    <3>1. raised' = raised
      BY <1>7 DEF TakeEvent, source
    <3>2. QED
      BY <1>3, <2>1, <2>5, <2>8, <3>1 DEF Moves
  <2>10. /\ MainWhole(sw', t, inbox', i, b)
         /\ stray' # None => RunWhole(stray', t, inbox', i, b)
    <3>1. CASE sw' = NewRun /\ stray' \in Stopped(sw)
      <4>1. stray' \in {None, sw} \/ (stray' = [sw EXCEPT !.at = "warm"] /\ sw \in Sweeper)
        BY <3>1 DEF Stopped, Typed
      <4>2. stray' \in {None, sw} \/ stray'.at = "warm"
        BY <4>1 DEF Sweeper
      <4>3. RunWhole(sw, t, inbox', i, b)
        BY <1>3, <1>5, <2>8 DEF MainWhole
      <4>4. QED
        BY <1>6, <3>1, <4>2, <4>3
    <3>2. CASE sw' = sw /\ stray' = stray
      BY <1>3, <1>5, <2>8, <3>2
    <3>3. QED
      BY <1>7, <3>1, <3>2 DEF TakeEvent
  <2>11. QED
    BY <1>4, <2>2, <2>4, <2>8, <2>9, <2>10
<1>8. CASE TakeSweep
  <2>1. PICK msg \in Sweeper : msg = sw /\ AcceptSweep(msg) /\ msg.at \in Saying
    BY <1>8 DEF TakeSweep, Typed
  <2>2. RunWhole(msg, e, inbox, i, b) /\ MainWhole(msg, e, inbox, i, b)
    BY <1>3, <2>1 DEF MainWhole
  <2>3. PICK t : /\ HandOn(t) /\ Sound(t, {}, {}) /\ Moves(e, inbox, t, inbox, i, b, b)
                 /\ raised' > 0 \/ t.ending => Due(t, inbox, i, b)
                 /\ msg.at = "network" => t.net # 0
    BY <1>2, <1>3, <2>1, <2>2, RoundSaid
  <2>4. inbox' = inbox /\ stray' = stray /\ sw' = Onward(msg)
    BY <1>8, <2>1 DEF TakeSweep
  <2>5. RunWhole(msg, t, inbox, i, b) /\ MainWhole(msg, t, inbox, i, b)
    BY <1>5, <2>2, <2>3, <2>4
  <2>6. MainWhole(Onward(msg), t, inbox, i, b)
    BY <2>1, <2>3, <2>5, RunGoesOn
  <2>7. stray # None => RunWhole(stray, t, inbox, i, b)
    BY <1>3, <1>5, <2>3, <2>4
  <2>8. QED
    BY <1>4, <2>3, <2>4, <2>6, <2>7
<1>9. CASE TakeStray
  <2>1. PICK msg \in Sweeper : msg = stray /\ RunWhole(msg, e, inbox, i, b)
    BY <1>3, <1>9 DEF TakeStray, Typed
  <2>2. sw' = sw
    BY <1>9 DEF TakeStray
  <2>3. CASE /\ msg.at \in Saying /\ AcceptSweep(msg) /\ inbox' = inbox
             /\ stray' \in {None} \union (IF msg.at \in {"projects", "listing"}
                                         THEN Stopped(Onward(msg)) ELSE {})
    <3>1. PICK t : /\ HandOn(t) /\ Sound(t, {}, {}) /\ Moves(e, inbox, t, inbox, i, b, b)
                   /\ raised' > 0 \/ t.ending => Due(t, inbox, i, b)
                   /\ msg.at = "network" => t.net # 0
      BY <1>2, <1>3, <2>1, <2>3, RoundSaid
    <3>2. MainWhole(sw, t, inbox, i, b) /\ RunWhole(msg, t, inbox, i, b)
      BY <1>3, <1>5, <2>1, <2>3, <3>1
    <3>3. stray' # None => RunWhole(stray', t, inbox, i, b)
      BY <2>3, <3>2, StrayGoesOn
    <3>4. QED
      BY <1>4, <2>2, <2>3, <3>1, <3>2, <3>3
  <2>4. ASSUME e' = e, view' = view, healthy' = healthy, raised' = raised, stray' = None,
               Moves(e, inbox, e, inbox', i, b, b)
        PROVE  Round(i)'
    <3>1. MainWhole(sw, e, inbox', i, b)
      BY <1>3, <1>5, <2>4
    <3>2. Whole(e, i, b) /\ BoxWhole(e, inbox', i, b) /\ (Due(e, inbox, i, b) => Due(e, inbox', i, b))
      BY <2>4 DEF Moves
    <3>3. QED
      BY <1>2, <1>3, <2>2, <2>4, <3>1, <3>2 DEF Round
  <2>5. CASE /\ \E k \in msg.names : inbox' = Append(inbox, NewEvent("updated", k))
             /\ stray' = None /\ UNCHANGED <<source, e, view, healthy>>
    <3>1. PICK k \in msg.names : inbox' = Append(inbox, NewEvent("updated", k))
      BY <2>5
    <3>2. PICK s, box, ev : /\ s = e /\ box = inbox /\ box \in Seq(Event)
                            /\ ev = NewEvent("updated", k) /\ ev \in Event
      BY ProperEvents DEF Typed, InboxProper, Proper, Sweeper
    <3>3. ev.act = "updated"
      BY <3>2 DEF NewEvent
    <3>4. Moves(s, box, s, Append(box, ev), i, b, b)
      BY <1>3, <3>2, <3>3, BoxGrows
    <3>5. QED
      BY <2>4, <2>5, <3>1, <3>2, <3>4 DEF source
  <2>6. CASE stray' = None /\ UNCHANGED <<source, e, view, healthy, inbox>>
    <3>1. Moves(e, inbox, e, inbox', i, b, b)
      BY <1>3, <2>6 DEF Moves
    <3>2. QED
      BY <2>4, <2>6, <3>1 DEF source
  <2>7. QED
    BY <1>9, <2>1, <2>3, <2>5, <2>6 DEF TakeStray
<1>10. CASE TakeResult \/ TakeRetry \/ TakeRefused
  <2>1. inbox' = inbox /\ sw' = sw /\ stray' = stray
    BY <1>10 DEF TakeResult, TakeRetry, TakeRefused
  <2>2. PICK t : /\ HandOn(t) /\ Sound(t, {}, {}) /\ raised' \in {raised, raised + 1}
                 /\ \A x \in Instances, c \in BOOLEAN : Whole(e, x, c) =>
                       /\ Stands(e, t, x, c, c)
                       /\ t.ending \/ raised' # raised => e.ending
    BY <1>10, LoopGoes
  <2>3. Stands(e, t, i, b, b) /\ (t.ending \/ raised' # raised => e.ending)
    BY <1>2, <1>3, <2>2
  <2>4. PICK s, box : s = e /\ box = inbox
    OBVIOUS
  <2>5. Moves(s, box, t, box, i, b, b)
    BY <1>3, <2>3, <2>4, BoxStands
  <2>6. Moves(e, inbox, t, inbox', i, b, b)
    BY <2>1, <2>4, <2>5
  <2>7. raised' > 0 \/ t.ending => Due(t, inbox', i, b)
    BY <1>3, <2>1, <2>3, <2>6 DEF Moves
  <2>8. /\ MainWhole(sw', t, inbox', i, b)
        /\ stray' # None => RunWhole(stray', t, inbox', i, b)
    BY <1>3, <1>5, <2>1, <2>6
  <2>9. QED
    BY <1>4, <2>2, <2>6, <2>7, <2>8
<1>11. QED
  BY <1>7, <1>8, <1>9, <1>10

-----------------------------------------------------------------------------
(* Every step keeps the invariant. *)
LEMMA InvHoldsOn == IInv /\ [Next]_vars => IInv'
<1> SUFFICES ASSUME IInv, [Next]_vars PROVE IInv'
  OBVIOUS
<1>1. CASE ServerStep \/ Disconnect \/ Connect \/ Apply \/ Sweep \/ SweepFails
  BY <1>1, OutsideTheLoop DEF IInv
<1>2. ASSUME NEW w \in Workers, Read(w) \/ ReadFails(w) PROVE IInv'
  BY <1>2, PoolSound DEF IInv, Typed, InboxProper, First, Fits
<1>3. CASE TakeEvent \/ TakeSweep \/ TakeStray \/ TakeResult \/ TakeRetry \/ TakeRefused
  BY <1>3, LoopSound
<1>4. CASE UNCHANGED vars
  BY <1>4 DEF vars, world, source, IInv, Typed, InboxProper, First
<1>5. QED
  BY <1>1, <1>2, <1>3, <1>4 DEF Next

(* Where a read is in one place, its places are one; where in none, none.  *)
LEMMA CountPlaces ==
    ASSUME NEW k
    PROVE  /\ Nowhere(e, k) => Places(k) = 0
           /\ Once(e, k) => Places(k) = 1
<1>1. Cardinality({}) = 0
  BY FS_EmptySet
<1>2. \A A : Single(A) => Cardinality(A) = 1
  BY FS_Singleton DEF Single
<1>3. Places(k) = Cardinality(Positions(e.cold, k)) + Cardinality(Positions(e.pending, k))
                  + Cardinality(Positions(e.waiting, k)) + Cardinality(Busy(e, k))
                  + Cardinality(Back(e, k))
  BY DEF Places, Positions, Busy, Back
<1>4. ASSUME Nowhere(e, k) PROVE Places(k) = 0
  BY <1>1, <1>3, <1>4 DEF Nowhere
<1>5. ASSUME Once(e, k) PROVE Places(k) = 1
  BY <1>1, <1>2, <1>3, <1>5 DEF Once, Only
<1>6. QED
  BY <1>4, <1>5

(* However reads are joined, withdrawn, held back and refused, a read that *)
(* is owed is in one place and one only, and an event that waits has one.  *)
THEOREM ReadsKept == Spec => []ReadsAccounted
<1>1. IInv => ReadsAccounted
  <2> SUFFICES ASSUME IInv PROVE ReadsAccounted
    OBVIOUS
  <2>1. Held(e, {}) /\ Owed(e) /\ Waits(e, {})
    BY DEF IInv, Sound
  <2>2. ASSUME NEW k \in Keys PROVE Places(k) = IF e.calls[k] = None THEN 0 ELSE 1
    BY <2>1, CountPlaces DEF Held
  <2>3. QED
    BY <2>1, <2>2 DEF ReadsAccounted, Owed, Waits
<1>2. QED
  BY <1>1, InvHoldsAtFirst, InvHoldsOn, PTL DEF Spec

(* While no call fails an instance is never told of before what its        *)
(* project sets is known.                                                  *)
THEOREM ProjectKnownFirst == Spec => []ProjectFirst
<1>1. IInv => ProjectFirst
  BY DEF IInv, First, Told, ProjectFirst
<1>2. QED
  BY <1>1, InvHoldsAtFirst, InvHoldsOn, PTL DEF Spec

(* While no call fails and no event is lost the plugin takes the fleet for *)
(* whole only when it was told of whoever was there from the start.        *)
THEOREM WholeRounds == Spec => []WholeBeforeReady
<1>1. Init => Rounds
  <2> SUFFICES ASSUME Init PROVE Rounds
    OBVIOUS
  <2>1. stayed \subseteq Instances /\ raised \in Nat
    BY DEF Init
  <2>2. ASSUME NEW i \in stayed PROVE Round(i)
    <3>1. PICK b \in BOOLEAN : b = (view[i] # None)
      OBVIOUS
    <3>2. /\ e.q = <<>> /\ e.results = <<>> /\ e.arch[i] = None /\ e.ending = FALSE
          /\ DOMAIN <<>> = {} /\ inbox = <<>>
      BY <2>1 DEF Init, NewLoop
    <3>3. Whole(e, i, b)
      BY <3>2 DEF Whole, EndsAfter, FiledTold, Stays
    <3>4. BoxWhole(e, inbox, i, b)
      BY <3>2 DEF BoxWhole
    <3>5. sw.at = "projects" /\ stray = None /\ ~healthy /\ raised = 0 /\ srv[i] # Gone
      BY DEF Init, NewRun
    <3>6. MainWhole(sw, e, inbox, i, b)
      BY <3>5 DEF MainWhole, RunWhole
    <3>7. ~(raised > 0 \/ e.ending)
      BY <3>2, <3>5
    <3>8. QED
      BY <3>1, <3>3, <3>4, <3>5, <3>6, <3>7 DEF Round
  <2>3. QED
    BY <2>1, <2>2 DEF Rounds
<1>2. IInv /\ Rounds /\ [Next]_vars => Rounds'
  <2> SUFFICES ASSUME IInv, Rounds, [Next]_vars PROVE Rounds'
    OBVIOUS
  <2>1. CASE ServerStep \/ Disconnect \/ Connect \/ Apply \/ Sweep \/ SweepFails
    BY <2>1, RoundsOutside
  <2>2. ASSUME NEW w \in Workers, Read(w) \/ ReadFails(w) PROVE Rounds'
    BY <2>2, RoundsPool
  <2>3. CASE TakeEvent \/ TakeSweep \/ TakeStray \/ TakeResult \/ TakeRetry \/ TakeRefused
    BY <2>3, RoundsLoop
  <2>4. CASE UNCHANGED vars
    BY <2>4 DEF vars, world, source, Rounds, Round
  <2>5. QED
    BY <2>1, <2>2, <2>3, <2>4 DEF Next
<1>3. Rounds => WholeBeforeReady
  <2> SUFFICES ASSUME Rounds, healthy, faults = 0, ~lost, NEW i \in stayed PROVE view[i] # None
    BY DEF WholeBeforeReady
  <2>1. Round(i)
    BY DEF Rounds
  <2>2. PICK b \in BOOLEAN : b = (view[i] # None) /\ (healthy => b)
    BY <2>1 DEF Round
  <2>3. QED
    BY <2>2
<1>4. QED
  BY <1>1, <1>2, <1>3, InvHoldsAtFirst, InvHoldsOn, PTL DEF Spec

=============================================================================
