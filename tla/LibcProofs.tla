----------------------------- MODULE LibcProofs -----------------------------
(***************************************************************************)
(* What the library functions promise, for every message, every buffer and *)
(* every width of the timer: crc32Input computes the CRC-32 of a message,  *)
(* the string functions keep the text they were given inside the room they *)
(* were given, and no delay ends early.                                    *)
(***************************************************************************)
EXTENDS CString, Crc32, Delay, FiniteSetTheorems, SequenceTheorems,
        WellFoundedInduction, TLAPS

(* A set of numbers has a least one. *)
LEMMA LeastNumber ==
    ASSUME NEW S \in SUBSET Nat, S # {}
    PROVE  \E x \in S : \A y \in S : x <= y
<1> DEFINE R == OpToRel(<, Nat)
<1>1. IsWellFoundedOn(R, Nat)
  BY NatLessThanWellFounded
<1>2. PICK x \in S : \A y \in S : ~(<<y, x>> \in R)
  <2> HIDE DEF R
  <2> QED BY <1>1, WFMin
<1>3. \A y \in S : ~(y < x)
  BY <1>2 DEF OpToRel
<1> QED BY <1>3

----------------------------------------------------------------------------
(* The powers of x up to the n-th, as PowerModP computes them. *)
Powers(f, n) == \A k \in 0 .. n : f[k] = IF k = 0 THEN {0} ELSE TimesX(f[k - 1])

(* They exist, *)
LEMMA PowersExist == \A n \in Nat : \E f : Powers(f, n)
<1> DEFINE Bad == {n \in Nat : ~ \E f : Powers(f, n)}
<1> SUFFICES ASSUME Bad # {} PROVE FALSE
  OBVIOUS
<1>1. PICK n \in Bad : \A y \in Bad : n <= y
  BY LeastNumber
<1>2. n # 0
  <2>1. Powers([k \in {0} |-> {0}], 0)
    BY DEF Powers
  <2> QED BY <2>1
<1>3. PICK f : Powers(f, n - 1)
  BY <1>1, <1>2
<1> DEFINE g == [k \in 0 .. n |-> IF k = n THEN TimesX(f[n - 1]) ELSE f[k]]
<1>4. ASSUME NEW k \in 0 .. n
      PROVE  g[k] = IF k = 0 THEN {0} ELSE TimesX(g[k - 1])
  <2>1. CASE k = n
    BY <2>1, <1>2
  <2>2. CASE k # n
    <3>1. k \in 0 .. n - 1 /\ g[k] = f[k] /\ (k # 0 => g[k - 1] = f[k - 1])
      BY <2>2
    <3>2. f[k] = IF k = 0 THEN {0} ELSE TimesX(f[k - 1])
      BY <3>1, <1>3 DEF Powers
    <3> QED BY <3>1, <3>2
  <2> QED BY <2>1, <2>2
<1>5. Powers(g, n)
  <2> HIDE DEF g
  <2> QED BY <1>4 DEF Powers
<1> QED BY <1>5

(* and are determined. *)
LEMMA PowersUnique ==
    ASSUME NEW n \in Nat, NEW m \in Nat, NEW f, NEW g, Powers(f, n), Powers(g, m)
    PROVE  \A k \in Nat : k <= n /\ k <= m => f[k] = g[k]
<1> DEFINE Bad == {k \in Nat : k <= n /\ k <= m /\ f[k] # g[k]}
<1> SUFFICES ASSUME Bad # {} PROVE FALSE
  OBVIOUS
<1>1. PICK k \in Bad : \A y \in Bad : k <= y
  BY LeastNumber
<1>2. /\ f[k] = IF k = 0 THEN {0} ELSE TimesX(f[k - 1])
      /\ g[k] = IF k = 0 THEN {0} ELSE TimesX(g[k - 1])
  BY DEF Powers
<1>3. k # 0 /\ k - 1 \notin Bad
  BY <1>1, <1>2
<1>4. f[k - 1] = g[k - 1]
  BY <1>3
<1> QED BY <1>2, <1>3, <1>4

(* So the recursive definition of PowerModP defines what it says. *)
LEMMA PowerModPDef ==
    \A k \in Nat : PowerModP[k] = IF k = 0 THEN {0} ELSE TimesX(PowerModP[k - 1])
<1> DEFINE F(n) == CHOOSE f : Powers(f, n)
           h == [k \in Nat |-> F(k)[k]]
           H(f) == [k \in Nat |-> IF k = 0 THEN {0} ELSE TimesX(f[k - 1])]
<1>1. \A n \in Nat : Powers(F(n), n)
  BY PowersExist
<1>2. ASSUME NEW k \in Nat
      PROVE  h[k] = IF k = 0 THEN {0} ELSE TimesX(h[k - 1])
  <2>1. F(k)[k] = IF k = 0 THEN {0} ELSE TimesX(F(k)[k - 1])
    <3> HIDE DEF F
    <3> QED BY <1>1 DEF Powers
  <2>2. k # 0 => F(k)[k - 1] = F(k - 1)[k - 1]
    <3> SUFFICES ASSUME k # 0 PROVE F(k)[k - 1] = F(k - 1)[k - 1]
      OBVIOUS
    <3>1. k - 1 \in Nat /\ Powers(F(k), k) /\ Powers(F(k - 1), k - 1)
      BY <1>1
    <3> HIDE DEF F
    <3> QED BY <3>1, PowersUnique
  <2> HIDE DEF F
  <2> QED BY <2>1, <2>2
<1>3. h = H(h)
  <2> HIDE DEF F
  <2>1. \A k \in Nat : h[k] = H(h)[k]
    BY <1>2
  <2> QED BY <2>1
<1>4. PowerModP = H(PowerModP)
  <2> HIDE DEF h
  <2>1. PowerModP = CHOOSE f : f = H(f)
    BY DEF PowerModP
  <2> QED BY <1>3, <2>1
<1> HIDE DEF h
<1> QED BY <1>4

(* The powers are words, and the first 32 of them are not reduced. *)
LEMMA PowersAreWords == \A k \in Nat : PowerModP[k] \in SUBSET Word32
<1> DEFINE Bad == {k \in Nat : ~(PowerModP[k] \in SUBSET Word32)}
<1> SUFFICES ASSUME Bad # {} PROVE FALSE
  OBVIOUS
<1>1. PICK k \in Bad : \A y \in Bad : k <= y
  BY LeastNumber
<1>2. k # 0
  BY PowerModPDef DEF Word32
<1>3. PowerModP[k - 1] \in SUBSET Word32 /\ PowerModP[k] = TimesX(PowerModP[k - 1])
  BY <1>1, <1>2, PowerModPDef
<1>4. \A r \in SUBSET Word32 : TimesX(r) \in SUBSET Word32
  BY DEF TimesX, Xor, P, Word32
<1> QED BY <1>3, <1>4

(* The low powers of x are not reduced. *)
LEMMA LowPowers == \A k \in Word32 : PowerModP[k] = {k}
<1> DEFINE Bad == {k \in Nat : k <= 31 /\ PowerModP[k] # {k}}
<1> SUFFICES ASSUME Bad # {} PROVE FALSE
  BY DEF Word32
<1>1. PICK k \in Bad : \A y \in Bad : k <= y
  BY LeastNumber
<1>2. k # 0
  BY PowerModPDef
<1>3. PowerModP[k - 1] = {k - 1} /\ PowerModP[k] = TimesX({k - 1})
  <2>1. k - 1 \in Nat /\ k - 1 <= 31 /\ k - 1 \notin Bad
    BY <1>1, <1>2
  <2> QED BY <1>2, <2>1, PowerModPDef
<1>4. TimesX({k - 1}) = {k}
  BY <1>2 DEF TimesX
<1> QED BY <1>3, <1>4

(* One more factor x, coefficient by coefficient. *)
LEMMA TimesXBits ==
    ASSUME NEW r \in SUBSET Word32, NEW b \in Word32
    PROVE  b \in TimesX(r) <=> ~((b - 1 \in r) <=> (31 \in r /\ b \in P))
BY DEF TimesX, Xor, P, Word32

----------------------------------------------------------------------------
(* Parity. *)
Odd(S) == Cardinality(S) % 2 = 1

(* The size of a symmetric difference is odd if exactly one of the sets'   *)
(* sizes is. *)
LEMMA OddXor ==
    ASSUME NEW A, NEW B, IsFiniteSet(A), IsFiniteSet(B)
    PROVE  IsFiniteSet(Xor(A, B)) /\ (Odd(Xor(A, B)) <=> ~(Odd(A) <=> Odd(B)))
<1> DEFINE C == A \cap B
           AC == A \ B
           BC == B \ A
<1>1. IsFiniteSet(C) /\ IsFiniteSet(AC) /\ IsFiniteSet(BC)
  BY FS_Subset, Zenon
<1>2. /\ IsFiniteSet(AC \cup BC)
      /\ Cardinality(AC \cup BC) = Cardinality(AC) + Cardinality(BC) - Cardinality(AC \cap BC)
  BY <1>1, FS_Union, Zenon
<1>3. Cardinality(AC \cup C) = Cardinality(AC) + Cardinality(C) - Cardinality(AC \cap C)
  BY <1>1, FS_Union, Zenon
<1>4. Cardinality(BC \cup C) = Cardinality(BC) + Cardinality(C) - Cardinality(BC \cap C)
  BY <1>1, FS_Union, Zenon
<1>5. AC \cap BC = {} /\ AC \cap C = {} /\ BC \cap C = {}
      /\ AC \cup C = A /\ BC \cup C = B
  OBVIOUS
<1>6. Cardinality({}) = 0
  BY FS_EmptySet
<1>7. /\ Cardinality(C) \in Nat /\ Cardinality(AC) \in Nat /\ Cardinality(BC) \in Nat
  BY <1>1, FS_CardinalityType
<1>8. /\ Cardinality(AC \cup BC) = Cardinality(AC) + Cardinality(BC)
      /\ Cardinality(A) = Cardinality(AC) + Cardinality(C)
      /\ Cardinality(B) = Cardinality(BC) + Cardinality(C)
  <2>1. Cardinality(AC \cup BC) = Cardinality(AC) + Cardinality(BC) - 0
    BY <1>2, <1>5, <1>6, Zenon
  <2>2. Cardinality(A) = Cardinality(AC) + Cardinality(C) - 0
    BY <1>3, <1>5, <1>6, Zenon
  <2>3. Cardinality(B) = Cardinality(BC) + Cardinality(C) - 0
    BY <1>4, <1>5, <1>6, Zenon
  <2> HIDE DEF AC, BC, C
  <2> QED BY <2>1, <2>2, <2>3, <1>7
<1>9. \A x, y, z \in Nat :
         (x + y) % 2 = 1 <=> ~((x + z) % 2 = 1 <=> (y + z) % 2 = 1)
  OBVIOUS
<1>10. Odd(AC \cup BC) <=> ~(Odd(A) <=> Odd(B))
  <2> HIDE DEF AC, BC, C
  <2> QED BY <1>7, <1>8, <1>9 DEF Odd
<1> QED BY <1>2, <1>10 DEF Xor

(* All exponents raised by one. *)
Raised(E) == {e \in Nat : e > 0 /\ e - 1 \in E}

(* There are as many of them. *)
LEMMA RaisedSize ==
    ASSUME NEW E \in SUBSET Nat, IsFiniteSet(E)
    PROVE  IsFiniteSet(Raised(E)) /\ Cardinality(Raised(E)) = Cardinality(E)
<1> DEFINE f == [e \in E |-> e + 1]
<1>1. f \in [E -> Raised(E)]
  BY DEF Raised
<1>2. \A t \in Raised(E) : t - 1 \in E /\ f[t - 1] = t
  BY DEF Raised
<1>3. \A a, b \in E : f[a] = f[b] => a = b
  OBVIOUS
<1> HIDE DEF f
<1>4. f \in Bijection(E, Raised(E))
  BY <1>1, <1>2, <1>3 DEF Bijection, Injection, Surjection, IsInjective
<1>5. ExistsBijection(E, Raised(E))
  BY <1>4 DEF ExistsBijection
<1> QED BY <1>5, FS_Bijection

----------------------------------------------------------------------------
(* The remainder is linear. *)
Polys == {E \in SUBSET Nat : IsFiniteSet(E)}
Having(E, b) == {e \in E : b \in PowerModP[e]}

(* Coefficient b of the remainder. *)
LEMMA ModuloBits ==
    ASSUME NEW E \in Polys, NEW b
    PROVE  /\ IsFiniteSet(Having(E, b)) /\ Having(E, b) \in SUBSET E
           /\ b \in Word32 => (b \in Modulo(E) <=> Odd(Having(E, b)))
           /\ Modulo(E) \in SUBSET Word32
<1>1. Having(E, b) \in SUBSET E
  BY DEF Having
<1>2. IsFiniteSet(Having(E, b))
  BY <1>1, FS_Subset, Zenon DEF Polys
<1> QED BY <1>1, <1>2 DEF Modulo, Having, Odd

(* The remainder of a sum is the sum of the remainders. *)
LEMMA ModuloXor ==
    ASSUME NEW E \in Polys, NEW F \in Polys
    PROVE  Xor(E, F) \in Polys /\ Modulo(Xor(E, F)) = Xor(Modulo(E), Modulo(F))
<1>1. Xor(E, F) \in Polys
  <2>1. Xor(E, F) \in SUBSET Nat
    BY DEF Xor, Polys
  <2> QED BY <2>1, OddXor, Zenon DEF Polys
<1>2. ASSUME NEW b \in Word32
      PROVE  b \in Modulo(Xor(E, F)) <=> ~(b \in Modulo(E) <=> b \in Modulo(F))
  <2>1. Having(Xor(E, F), b) = Xor(Having(E, b), Having(F, b))
    BY DEF Having, Xor
  <2>2. Odd(Xor(Having(E, b), Having(F, b))) <=> ~(Odd(Having(E, b)) <=> Odd(Having(F, b)))
    BY ModuloBits, OddXor
  <2>3. /\ b \in Modulo(Xor(E, F)) <=> Odd(Having(Xor(E, F), b))
        /\ b \in Modulo(E) <=> Odd(Having(E, b))
        /\ b \in Modulo(F) <=> Odd(Having(F, b))
    BY <1>1, ModuloBits
  <2> QED BY <2>1, <2>2, <2>3, Zenon
<1>3. Modulo(Xor(E, F)) \in SUBSET Word32 /\ Modulo(E) \in SUBSET Word32
      /\ Modulo(F) \in SUBSET Word32
  BY <1>1, ModuloBits
<1> QED BY <1>1, <1>2, <1>3 DEF Xor

(* The remainder of x times a polynomial. *)
LEMMA ModuloRaised ==
    ASSUME NEW E \in Polys
    PROVE  Raised(E) \in Polys /\ Modulo(Raised(E)) = TimesX(Modulo(E))
<1>1. Raised(E) \in Polys
  <2>1. Raised(E) \in SUBSET Nat
    BY DEF Raised
  <2> QED BY <2>1, RaisedSize, Zenon DEF Polys
<1>2. ASSUME NEW b \in Word32
      PROVE  b \in Modulo(Raised(E)) <=> b \in TimesX(Modulo(E))
  <2> DEFINE Top == IF b \in P THEN Having(E, 31) ELSE {}
             Low == Having(E, b - 1)
  <2>1. IsFiniteSet(Top) /\ IsFiniteSet(Low) /\ Top \subseteq E /\ Low \subseteq E
    BY ModuloBits, FS_EmptySet
  <2>2. Having(Raised(E), b) = Raised(Xor(Low, Top))
    <3>1. ASSUME NEW e \in E
          PROVE  b \in PowerModP[e + 1] <=> e \in Xor(Low, Top)
      <4>1. e \in Nat /\ e + 1 \in Nat /\ PowerModP[e] \in SUBSET Word32
        BY PowersAreWords DEF Polys
      <4>2. PowerModP[e + 1] = TimesX(PowerModP[e])
        <5>1. e + 1 # 0 /\ (e + 1) - 1 = e
          BY <4>1
        <5> QED BY <4>1, <5>1, PowerModPDef
      <4>3. b \in PowerModP[e + 1]
              <=> ~((b - 1 \in PowerModP[e]) <=> (31 \in PowerModP[e] /\ b \in P))
        BY <4>1, <4>2, TimesXBits
      <4> QED BY <4>3 DEF Xor, Having
    <3>2. Xor(Low, Top) \in SUBSET E
      BY <2>1 DEF Xor
    <3> HIDE DEF Low, Top
    <3>3. \A e : e \in Having(Raised(E), b) <=> e \in Raised(Xor(Low, Top))
      <4> SUFFICES ASSUME NEW e
                   PROVE  e \in Having(Raised(E), b) <=> e \in Raised(Xor(Low, Top))
        OBVIOUS
      <4>1. CASE e \in Nat /\ e > 0 /\ e - 1 \in E
        <5>1. b \in PowerModP[e] <=> e - 1 \in Xor(Low, Top)
          <6>1. (e - 1) + 1 = e
            BY <4>1
          <6> QED BY <4>1, <6>1, <3>1
        <5> QED BY <4>1, <5>1 DEF Having, Raised
      <4>2. CASE ~(e \in Nat /\ e > 0 /\ e - 1 \in E)
        BY <4>2, <3>2 DEF Having, Raised
      <4> QED BY <4>1, <4>2
    <3> QED BY <3>3
  <2>3. Odd(Having(Raised(E), b)) <=> ~(Odd(Low) <=> Odd(Top))
    <3>1. IsFiniteSet(Xor(Low, Top)) /\ (Odd(Xor(Low, Top)) <=> ~(Odd(Low) <=> Odd(Top)))
      BY <2>1, OddXor
    <3>2. Xor(Low, Top) \in SUBSET Nat
      BY <2>1 DEF Xor, Polys
    <3> HIDE DEF Low, Top
    <3>3. Cardinality(Raised(Xor(Low, Top))) = Cardinality(Xor(Low, Top))
      BY <3>1, <3>2, RaisedSize
    <3> QED BY <2>2, <3>1, <3>3 DEF Odd
  <2>4. Odd(Low) <=> b - 1 \in Modulo(E)
    <3>1. CASE b = 0
      <4>1. Low = {}
        <5>1. \A e \in E : PowerModP[e] \in SUBSET Word32
          BY PowersAreWords DEF Polys
        <5> QED BY <3>1, <5>1 DEF Having, Word32
      <4>2. ~Odd({})
        BY FS_EmptySet DEF Odd
      <4> QED BY <3>1, <4>1, <4>2, ModuloBits DEF Word32
    <3>2. CASE b # 0
      <4>1. b - 1 \in Word32
        BY <3>2 DEF Word32
      <4> QED BY <4>1, ModuloBits
    <3> QED BY <3>1, <3>2
  <2>5. Odd(Top) <=> 31 \in Modulo(E) /\ b \in P
    <3>1. ~Odd({})
      BY FS_EmptySet DEF Odd
    <3>2. Odd(Having(E, 31)) <=> 31 \in Modulo(E)
      BY ModuloBits DEF Word32
    <3> QED BY <3>1, <3>2
  <2>6. b \in Modulo(Raised(E)) <=> Odd(Having(Raised(E), b))
    BY <1>1, ModuloBits
  <2>7. b \in TimesX(Modulo(E))
          <=> ~((b - 1 \in Modulo(E)) <=> (31 \in Modulo(E) /\ b \in P))
    BY ModuloBits, TimesXBits
  <2> HIDE DEF Low, Top
  <2> QED BY <2>3, <2>4, <2>5, <2>6, <2>7
<1>3. Modulo(Raised(E)) \in SUBSET Word32 /\ TimesX(Modulo(E)) \in SUBSET Word32
  <2>1. \A r \in SUBSET Word32 : TimesX(r) \in SUBSET Word32
    BY DEF TimesX, Xor, P, Word32
  <2> QED BY <1>1, <2>1, ModuloBits
<1> QED BY <1>1, <1>2, <1>3

(* Before the first bit the dividend is all ones. *)
LEMMA DividendFirst == \A m : Dividend(m, 0) = Word32
BY DEF Dividend, Xor, Word32

(* The dividends are finite. *)
LEMMA DividendPoly ==
    ASSUME NEW m, NEW n \in Nat
    PROVE  Dividend(m, n) \in Polys
<1>1. Dividend(m, n) \in SUBSET (0 .. n + 31)
  BY DEF Dividend, Xor
<1>2. IsFiniteSet(0 .. n + 31)
  BY FS_Interval
<1>3. IsFiniteSet(Dividend(m, n))
  BY <1>1, <1>2, FS_Subset, Zenon
<1> QED BY <1>1, <1>3 DEF Polys

(* The polynomials the division begins and goes on with. *)
LEMMA SmallPolys ==
    /\ {} \in Polys /\ Modulo({}) = {}
    /\ {32} \in Polys /\ Modulo({32}) = P \ {32}
    /\ Word32 \in Polys /\ Modulo(Word32) = Word32
<1>1. {} \in Polys /\ Modulo({}) = {}
  <2>1. {} \in Polys
    BY FS_EmptySet DEF Polys
  <2>2. \A b \in Word32 : Having({}, b) = {}
    BY DEF Having
  <2>3. ~Odd({})
    BY FS_EmptySet DEF Odd
  <2> QED BY <2>1, <2>2, <2>3, ModuloBits
<1>2. {32} \in Polys /\ Modulo({32}) = P \ {32}
  <2>1. {32} \in Polys
    BY FS_Singleton DEF Polys
  <2>2. PowerModP[32] = P \ {32}
    <3>1. PowerModP[31] = {31} /\ PowerModP[32] = TimesX(PowerModP[31])
      BY LowPowers, PowerModPDef DEF Word32
    <3>2. TimesX({31}) = P \ {32}
      BY DEF TimesX, Xor, P
    <3> QED BY <3>1, <3>2
  <2>3. \A b : Having({32}, b) = IF b \in P \ {32} THEN {32} ELSE {}
    BY <2>2 DEF Having
  <2>4. Odd({32}) /\ ~Odd({})
    BY FS_EmptySet, FS_Singleton DEF Odd
  <2>5. P \ {32} \in SUBSET Word32
    BY DEF P, Word32
  <2>6. \A b \in Word32 : b \in Modulo({32}) <=> b \in P \ {32}
    <3> TAKE b \in Word32
    <3>1. b \in Modulo({32}) <=> Odd(Having({32}, b))
      BY <2>1, ModuloBits
    <3> QED BY <3>1, <2>3, <2>4
  <2> QED BY <2>1, <2>5, <2>6, ModuloBits
<1>3. Word32 \in Polys /\ Modulo(Word32) = Word32
  <2>1. Word32 \in Polys
    BY DividendFirst, DividendPoly
  <2>2. \A b \in Word32 : Having(Word32, b) = {b}
    BY LowPowers DEF Having
  <2>3. \A b : Odd({b})
    <3> TAKE b
    <3>1. Cardinality({b}) = 1
      BY FS_Singleton, Zenon
    <3> QED BY <3>1 DEF Odd
  <2>4. \A b \in Word32 : b \in Modulo(Word32)
    <3> TAKE b \in Word32
    <3>1. b \in Modulo(Word32) <=> Odd(Having(Word32, b))
      BY <2>1, ModuloBits
    <3> QED BY <3>1, <2>2, <2>3, Zenon
  <2> QED BY <2>1, <2>4, ModuloBits
<1> QED BY <1>1, <1>2, <1>3

(* One more bit of the message: all exponents rise, and it comes in at     *)
(* x^32. *)
LEMMA DividendNext ==
    ASSUME NEW m, NEW n \in Nat
    PROVE  Dividend(m, n + 1)
             = Xor(Raised(Dividend(m, n)), IF BitOf(m, n) THEN {32} ELSE {})
<1>1. ASSUME NEW e \in Nat, e # 0
      PROVE  e \in Dividend(m, n + 1)
               <=> e \in Xor(Raised(Dividend(m, n)), IF BitOf(m, n) THEN {32} ELSE {})
  <2>1. e \in Dividend(m, n + 1) <=>
          ~((e \in 32 .. n + 32 /\ BitOf(m, n + 32 - e)) <=> e \in n + 1 .. n + 32)
    <3>1. (n + 1) + 31 = n + 32
      OBVIOUS
    <3> QED BY <3>1 DEF Dividend, Xor
  <2>2. e \in Raised(Dividend(m, n)) <=>
          ~((e \in 33 .. n + 32 /\ BitOf(m, n + 32 - e)) <=> e \in n + 1 .. n + 32)
    <3>1. e \in Raised(Dividend(m, n)) <=> e - 1 \in Dividend(m, n)
      BY <1>1 DEF Raised
    <3>2. n + 31 - (e - 1) = n + 32 - e
      OBVIOUS
    <3>3. e - 1 \in Dividend(m, n) <=>
          ~((e - 1 \in 32 .. n + 31 /\ BitOf(m, n + 32 - e)) <=> e - 1 \in n .. n + 31)
      BY <3>2 DEF Dividend, Xor
    <3>4. (e - 1 \in 32 .. n + 31 <=> e \in 33 .. n + 32)
          /\ (e - 1 \in n .. n + 31 <=> e \in n + 1 .. n + 32)
      OBVIOUS
    <3> QED BY <3>1, <3>3, <3>4
  <2>3. CASE e = 32
    <3>1. n + 32 - e = n /\ e \in 32 .. n + 32 /\ ~(e \in 33 .. n + 32)
      BY <2>3
    <3> QED BY <3>1, <2>1, <2>2, <2>3 DEF Xor
  <2>4. CASE e # 32
    <3>1. e \in 32 .. n + 32 <=> e \in 33 .. n + 32
      BY <2>4
    <3> QED BY <3>1, <2>1, <2>2, <2>4 DEF Xor
  <2> QED BY <2>3, <2>4
<1>2. Dividend(m, n + 1) \subseteq Nat \ {0}
  BY DEF Dividend, Xor
<1>3. Xor(Raised(Dividend(m, n)), IF BitOf(m, n) THEN {32} ELSE {}) \subseteq Nat \ {0}
  BY DEF Xor, Raised
<1> QED BY <1>1, <1>2, <1>3

----------------------------------------------------------------------------
(* Words.  The register after n bits of the message. *)
Words32 == SUBSET Word32
Register(m, n) == Reflect(Modulo(Dividend(m, n)))
FeedBit(a, bit) == Round(IF bit THEN Xor(a, {0}) ELSE a)

(* The operations on words are closed. *)
LEMMA WordTypes ==
    ASSUME NEW a \in Words32, NEW b \in Words32, NEW bit
    PROVE  /\ Xor(a, b) \in Words32 /\ Round(a) \in Words32 /\ Reflect(a) \in Words32
           /\ FeedBit(a, bit) \in Words32 /\ Complement(a) \in Words32
           /\ \A n \in Nat : ShiftRight(a, n) \in Words32
<1>1. Constant \in Words32 /\ {0} \in Words32
  BY DEF Constant, Words32, Word32
<1>2. \A x, y \in Words32 : Xor(x, y) \in Words32
  BY DEF Xor, Words32
<1>3. \A x : \A n : ShiftRight(x, n) \in Words32
  BY DEF ShiftRight, Words32
<1>4. \A x \in Words32 : Round(x) \in Words32
  BY <1>1, <1>2, <1>3 DEF Round
<1>5. FeedBit(a, bit) \in Words32
  BY <1>1, <1>2, <1>4 DEF FeedBit
<1>6. Reflect(a) \in Words32 /\ Complement(a) \in Words32
  BY DEF Reflect, Complement, Words32
<1> QED BY <1>2, <1>3, <1>4, <1>5, <1>6

(* A round on the reflected word is a factor x: 0xedb88320 is P reflected. *)
LEMMA RoundReflects ==
    ASSUME NEW r \in Words32
    PROVE  Reflect(TimesX(r)) = Round(Reflect(r))
<1>1. ASSUME NEW b \in Word32
      PROVE  b \in Reflect(TimesX(r)) <=> b \in Round(Reflect(r))
  <2>1. 31 - b \in Word32
    BY DEF Word32
  <2>2. 31 - b \in TimesX(r)
          <=> ~((30 - b \in r) <=> (31 \in r /\ 31 - b \in P))
    <3>1. (31 - b) - 1 = 30 - b
      BY DEF Word32
    <3> QED BY <2>1, <3>1, TimesXBits DEF Words32
  <2>3. 31 - b \in P <=> b \in Constant
    BY DEF P, Constant, Word32
  <2>4. b \in ShiftRight(Reflect(r), 1) <=> 30 - b \in r
    BY DEF ShiftRight, Reflect, Word32, Words32
  <2>5. 0 \in Reflect(r) <=> 31 \in r
    BY DEF Reflect, Word32
  <2>6. b \in Reflect(TimesX(r)) <=> 31 - b \in TimesX(r)
    BY DEF Reflect
  <2> QED BY <2>2, <2>3, <2>4, <2>5, <2>6 DEF Round, Xor
<1>2. Round(Reflect(r)) \in Words32
  BY WordTypes
<1>3. Reflect(TimesX(r)) \in Words32
  BY DEF Reflect, Words32
<1> QED BY <1>1, <1>2, <1>3 DEF Words32

(* Reflecting a sum. *)
LEMMA ReflectXor ==
    ASSUME NEW a \in Words32, NEW b \in Words32
    PROVE  Reflect(Xor(a, b)) = Xor(Reflect(a), Reflect(b))
BY DEF Reflect, Xor, Words32

(* A round is linear, and shifts what has no lowest bit. *)
LEMMA RoundApart ==
    ASSUME NEW a \in Words32, NEW h \in Words32, 0 \notin h
    PROVE  Round(Xor(a, h)) = Xor(Round(a), ShiftRight(h, 1))
<1>1. ShiftRight(Xor(a, h), 1) = Xor(ShiftRight(a, 1), ShiftRight(h, 1))
  BY DEF ShiftRight, Xor
<1>2. 0 \in Xor(a, h) <=> 0 \in a
  BY DEF Xor
<1>3. \A x, y, z : Xor(Xor(x, y), z) = Xor(Xor(x, z), y)
  BY DEF Xor
<1> QED BY <1>1, <1>2, <1>3 DEF Round

(* A round of a word with its lowest bit flipped. *)
LEMMA RoundFlipped ==
    ASSUME NEW a \in Words32
    PROVE  Round(Xor(a, {0})) = Xor(Round(a), Constant)
<1>1. ShiftRight(Xor(a, {0}), 1) = ShiftRight(a, 1)
  BY DEF ShiftRight, Xor, Word32
<1>2. 0 \in Xor(a, {0}) <=> 0 \notin a
  BY DEF Xor
<1>3. \A x, y : Xor(Xor(x, y), y) = x
  BY DEF Xor
<1> QED BY <1>1, <1>2, <1>3 DEF Round

(* The register takes in the message bit by bit. *)
LEMMA RegisterNext ==
    ASSUME NEW m, NEW n \in Nat
    PROVE  /\ Register(m, n) \in Words32
           /\ Register(m, n + 1) = FeedBit(Register(m, n), BitOf(m, n))
<1> DEFINE D == Dividend(m, n)
           bit == IF BitOf(m, n) THEN {32} ELSE {}
<1>1. D \in Polys /\ bit \in Polys /\ Modulo(D) \in Words32
  BY DividendPoly, SmallPolys, ModuloBits DEF Words32
<1>2. Modulo(Dividend(m, n + 1)) = Xor(TimesX(Modulo(D)), Modulo(bit))
  <2>1. Dividend(m, n + 1) = Xor(Raised(D), bit)
    BY DividendNext
  <2>2. Raised(D) \in Polys /\ Modulo(Raised(D)) = TimesX(Modulo(D))
    BY <1>1, ModuloRaised
  <2> HIDE DEF D, bit
  <2> QED BY <1>1, <2>1, <2>2, ModuloXor
<1>3. TimesX(Modulo(D)) \in Words32
  <2>1. Raised(D) \in Polys /\ Modulo(Raised(D)) = TimesX(Modulo(D))
    BY <1>1, ModuloRaised
  <2> HIDE DEF D
  <2> QED BY <2>1, ModuloBits DEF Words32
<1>4. Modulo(bit) \in Words32 /\ Reflect(Modulo(bit)) = IF BitOf(m, n) THEN Constant ELSE {}
  <2>1. Reflect(P \ {32}) = Constant
    BY DEF Reflect, P, Constant, Word32
  <2>2. Reflect({}) = {}
    BY DEF Reflect
  <2>3. Modulo(bit) = IF BitOf(m, n) THEN P \ {32} ELSE {}
    BY SmallPolys
  <2>4. Modulo(bit) \in Words32
    BY <1>1, ModuloBits DEF Words32
  <2> QED BY <2>1, <2>2, <2>3, <2>4
<1>5. Register(m, n + 1)
        = Xor(Round(Register(m, n)), IF BitOf(m, n) THEN Constant ELSE {})
  <2>1. Reflect(Xor(TimesX(Modulo(D)), Modulo(bit)))
          = Xor(Reflect(TimesX(Modulo(D))), Reflect(Modulo(bit)))
    BY <1>3, <1>4, ReflectXor
  <2>2. Reflect(TimesX(Modulo(D))) = Round(Reflect(Modulo(D)))
    BY <1>1, RoundReflects
  <2> QED BY <1>2, <1>4, <2>1, <2>2, Zenon DEF Register
<1>6. Register(m, n) \in Words32
  BY <1>1, WordTypes DEF Register
<1>7. \A x : Xor(x, {}) = x
  BY DEF Xor
<1> QED BY <1>5, <1>6, <1>7, RoundFlipped DEF FeedBit

----------------------------------------------------------------------------
(* A byte at a time.  What the rounds on the low byte leave to be added:   *)
(* the rest of the state, and the bits of the byte that are not fed yet.   *)
Rest(state, byte, k) ==
    Xor(ShiftRight(state \ (0 .. 7), k), ShiftRight(byte, k))

(* One bit of the byte fed, one round run. *)
LEMMA BitFed ==
    ASSUME NEW a \in Words32, NEW state \in Words32, NEW byte \in SUBSET (0 .. 7),
           NEW k \in 0 .. 7
    PROVE  FeedBit(Xor(a, Rest(state, byte, k)), k \in byte)
             = Xor(Round(a), Rest(state, byte, k + 1))
<1> DEFINE h == Rest(state, byte, k) \ {0}
<1>1. h \in Words32 /\ 0 \notin h
  BY DEF Rest, Xor, ShiftRight, Words32
<1>2. 0 \in Rest(state, byte, k) <=> k \in byte
  BY DEF Rest, Xor, ShiftRight, Word32
<1>3. (IF k \in byte THEN Xor(Xor(a, Rest(state, byte, k)), {0})
       ELSE Xor(a, Rest(state, byte, k))) = Xor(a, h)
  <2> DEFINE r == Rest(state, byte, k)
  <2> HIDE DEF r
  <2>1. ASSUME 0 \in r PROVE Xor(Xor(a, r), {0}) = Xor(a, r \ {0})
    BY <2>1 DEF Xor
  <2>2. ASSUME 0 \notin r PROVE Xor(a, r) = Xor(a, r \ {0})
    BY <2>2 DEF Xor
  <2> QED BY <1>2, <2>1, <2>2 DEF r
<1>4. ShiftRight(h, 1) = Rest(state, byte, k + 1)
  <2>1. ASSUME NEW b \in Word32
        PROVE  b \in ShiftRight(h, 1) <=> b \in Rest(state, byte, k + 1)
    <3>1. (b + 1) + k = b + (k + 1) /\ b + 1 # 0
      BY DEF Word32
    <3>2. b \in ShiftRight(h, 1) <=> b + 1 \in Rest(state, byte, k)
      BY <3>1 DEF ShiftRight
    <3>3. b + 1 \in Word32 =>
            (b + 1 \in Rest(state, byte, k) <=> b \in Rest(state, byte, k + 1))
      BY <3>1 DEF Rest, Xor, ShiftRight
    <3>4. CASE b = 31
      BY <3>2, <3>4 DEF Rest, Xor, ShiftRight, Word32, Words32
    <3>5. CASE b # 31
      BY <3>2, <3>3, <3>5 DEF Word32
    <3> QED BY <3>4, <3>5
  <2>2. ShiftRight(h, 1) \in SUBSET Word32 /\ Rest(state, byte, k + 1) \in SUBSET Word32
    BY DEF Rest, Xor, ShiftRight
  <2> QED BY <2>1, <2>2
<1> HIDE DEF h
<1>5. Round(Xor(a, h)) = Xor(Round(a), ShiftRight(h, 1))
  BY <1>1, RoundApart
<1> QED BY <1>3, <1>4, <1>5 DEF FeedBit

(* The state with the bits of a byte fed one by one. *)
Feed1(a, byte) == FeedBit(FeedBit(a, 0 \in byte), 1 \in byte)
Feed2(a, byte) == FeedBit(FeedBit(Feed1(a, byte), 2 \in byte), 3 \in byte)
Feed3(a, byte) == FeedBit(FeedBit(Feed2(a, byte), 4 \in byte), 5 \in byte)
FeedByte(a, byte) == FeedBit(FeedBit(Feed3(a, byte), 6 \in byte), 7 \in byte)

(* crc32Input's way through a byte is the same. *)
LEMMA NextStateFeeds ==
    ASSUME NEW state \in Words32, NEW byte \in SUBSET (0 .. 7)
    PROVE  NextState(state, byte) = FeedByte(state, byte)
<1> DEFINE R(k) == Rest(state, byte, k)
           a0 == Xor(state, byte) \cap (0 .. 7)
           a1 == Round(a0)
           a2 == Round(a1)
           a3 == Round(a2)
           a4 == Round(a3)
           a5 == Round(a4)
           a6 == Round(a5)
           a7 == Round(a6)
           a8 == Round(a7)
<1>1. a0 \in Words32
  BY DEF Words32, Word32
<1>2. state = Xor(a0, R(0))
  <2>1. ASSUME NEW b \in Word32
        PROVE  b \in state <=> b \in Xor(a0, R(0))
    <3>1. b \in R(0) <=> ~((b \in state /\ b \notin 0 .. 7) <=> b \in byte)
      <4>1. b + 0 = b
        BY DEF Word32
      <4> QED BY <4>1 DEF Rest, Xor, ShiftRight
    <3>2. b \in a0 <=> b \in 0 .. 7 /\ ~(b \in state <=> b \in byte)
      BY DEF Xor
    <3> QED BY <3>1, <3>2 DEF Xor
  <2>2. Xor(a0, R(0)) \subseteq Word32
    BY DEF Xor, Rest, ShiftRight, Word32
  <2> QED BY <2>1, <2>2 DEF Words32
<1>3. R(8) = ShiftRight(state, 8)
  BY DEF Rest, Xor, ShiftRight, Words32, Word32
<1> HIDE DEF a0
<1>4. /\ a1 \in Words32 /\ a2 \in Words32 /\ a3 \in Words32 /\ a4 \in Words32
      /\ a5 \in Words32 /\ a6 \in Words32 /\ a7 \in Words32
  BY <1>1, WordTypes
<1>5. \A k \in 0 .. 7 : \A a \in Words32 :
         FeedBit(Xor(a, R(k)), k \in byte) = Xor(Round(a), R(k + 1))
  BY BitFed
<1> HIDE DEF R
<1>6. FeedBit(FeedBit(state, 0 \in byte), 1 \in byte) = Xor(a2, R(2))
  <2>1. FeedBit(state, 0 \in byte) = Xor(a1, R(1))
    BY <1>1, <1>2, <1>5
  <2> QED BY <1>4, <1>5, <2>1
<1>7. FeedBit(FeedBit(Xor(a2, R(2)), 2 \in byte), 3 \in byte) = Xor(a4, R(4))
  <2>1. FeedBit(Xor(a2, R(2)), 2 \in byte) = Xor(a3, R(3))
    BY <1>4, <1>5
  <2> QED BY <1>4, <1>5, <2>1
<1>8. FeedBit(FeedBit(Xor(a4, R(4)), 4 \in byte), 5 \in byte) = Xor(a6, R(6))
  <2>1. FeedBit(Xor(a4, R(4)), 4 \in byte) = Xor(a5, R(5))
    BY <1>4, <1>5
  <2> QED BY <1>4, <1>5, <2>1
<1>9. FeedBit(FeedBit(Xor(a6, R(6)), 6 \in byte), 7 \in byte) = Xor(a8, R(8))
  <2>1. FeedBit(Xor(a6, R(6)), 6 \in byte) = Xor(a7, R(7))
    BY <1>4, <1>5
  <2> QED BY <1>4, <1>5, <2>1
<1>10. FeedByte(state, byte) = Xor(a8, R(8))
  BY <1>6, <1>7, <1>8, <1>9, Zenon DEF FeedByte, Feed3, Feed2, Feed1
<1>11. NextState(state, byte) = Xor(a8, ShiftRight(state, 8))
  BY Zenon DEF NextState, Rounds, a0
<1> QED BY <1>3, <1>10, <1>11, Zenon

(* A round can be undone: 0xedb88320 has its highest bit, which tells      *)
(* whether it was added.                                                   *)
LEMMA FeedBitInjective ==
    ASSUME NEW a \in Words32, NEW c \in Words32, NEW bit,
           FeedBit(a, bit) = FeedBit(c, bit)
    PROVE  a = c
<1>1. ASSUME NEW x \in Words32, NEW y \in Words32, Round(x) = Round(y)
      PROVE  x = y
  <2>1. \A z \in Words32 : 31 \notin ShiftRight(z, 1)
    BY DEF ShiftRight, Words32, Word32
  <2>2. \A z \in Words32 : 31 \in Round(z) <=> 0 \in z
    BY <2>1 DEF Round, Xor, Constant
  <2>3. 0 \in x <=> 0 \in y
    BY <1>1, <2>2
  <2>4. ShiftRight(x, 1) = ShiftRight(y, 1)
    <3>1. \A u, v, w : Xor(u, w) = Xor(v, w) => u = v
      BY DEF Xor
    <3> QED BY <1>1, <2>3, <3>1 DEF Round
  <2>5. ASSUME NEW b \in Word32, b # 0 PROVE b \in x <=> b \in y
    <3>1. b - 1 \in Word32 /\ (b - 1) + 1 = b
      BY <2>5 DEF Word32
    <3>2. b - 1 \in ShiftRight(x, 1) <=> b - 1 \in ShiftRight(y, 1)
      BY <2>4
    <3> QED BY <3>1, <3>2 DEF ShiftRight
  <2> QED BY <2>3, <2>5 DEF Words32
<1>2. \A x \in Words32 : Xor(x, {0}) \in Words32
  BY DEF Xor, Words32, Word32
<1>3. \A x, y : Xor(x, {0}) = Xor(y, {0}) => x = y
  BY DEF Xor
<1> QED BY <1>1, <1>2, <1>3 DEF FeedBit

(* So can a byte. *)
LEMMA NextStateInjective ==
    ASSUME NEW a \in Words32, NEW c \in Words32, NEW byte \in SUBSET (0 .. 7),
           NextState(a, byte) = NextState(c, byte)
    PROVE  a = c
<1>1. FeedByte(a, byte) = FeedByte(c, byte)
  BY NextStateFeeds
<1>2. \A x \in Words32 : \A bit : FeedBit(x, bit) \in Words32
  BY WordTypes
<1>3. \A x \in Words32 : /\ Feed1(x, byte) \in Words32 /\ Feed2(x, byte) \in Words32
                         /\ Feed3(x, byte) \in Words32
  BY <1>2 DEF Feed1, Feed2, Feed3
<1>4. \A x, y \in Words32 : \A b1, b2 :
         FeedBit(FeedBit(x, b1), b2) = FeedBit(FeedBit(y, b1), b2) => x = y
  BY <1>2, FeedBitInjective
<1>5. Feed3(a, byte) = Feed3(c, byte)
  BY <1>1, <1>3, <1>4 DEF FeedByte
<1>6. Feed2(a, byte) = Feed2(c, byte)
  BY <1>5, <1>3, <1>4 DEF Feed3
<1>7. Feed1(a, byte) = Feed1(c, byte)
  BY <1>6, <1>3, <1>4 DEF Feed2
<1> QED BY <1>7, <1>4 DEF Feed1

(* A byte, as the set of its bits. *)
Bytes == SUBSET (0 .. 7)

(* The register after one more byte of the message. *)
LEMMA RegisterByte ==
    ASSUME NEW m \in Seq(Bytes), NEW n \in 0 .. Len(m) - 1
    PROVE  /\ 8 * n \in Nat
           /\ Register(m, 8 * n) \in Words32
           /\ Register(m, 8 * (n + 1)) = NextState(Register(m, 8 * n), m[n + 1])
<1> DEFINE at(k) == Register(m, 8 * n + k)
           byte == m[n + 1]
<1>0. n \in Nat /\ 8 * n \in Nat /\ byte \in Bytes
  BY DEF Bytes
<1>1. \A k \in 0 .. 7 : BitOf(m, 8 * n + k) <=> k \in byte
  <2> TAKE k \in 0 .. 7
  <2>1. (8 * n + k) % 8 = k /\ (8 * n + k) \div 8 = n
    BY <1>0
  <2> QED BY <2>1 DEF BitOf
<1>2. \A k \in 0 .. 7 : at(k) \in Words32 /\ at(k + 1) = FeedBit(at(k), k \in byte)
  <2> TAKE k \in 0 .. 7
  <2>1. 8 * n + k \in Nat /\ 8 * n + (k + 1) = (8 * n + k) + 1
    BY <1>0
  <2>2. FeedBit(at(k), BitOf(m, 8 * n + k)) = FeedBit(at(k), k \in byte)
    BY <1>1 DEF FeedBit
  <2> QED BY <2>1, <2>2, RegisterNext
<1>3. at(0) = Register(m, 8 * n) /\ at(8) = Register(m, 8 * (n + 1))
  <2>1. 8 * n + 0 = 8 * n /\ 8 * n + 8 = 8 * (n + 1)
    BY <1>0
  <2> QED BY <2>1
<1> HIDE DEF at, byte
<1>4. at(2) = Feed1(at(0), byte)
  BY <1>2 DEF Feed1
<1>5. at(4) = Feed2(at(0), byte)
  <2>1. at(4) = FeedBit(FeedBit(at(2), 2 \in byte), 3 \in byte)
    BY <1>2
  <2> QED BY <1>4, <2>1 DEF Feed2
<1>6. at(6) = Feed3(at(0), byte)
  <2>1. at(6) = FeedBit(FeedBit(at(4), 4 \in byte), 5 \in byte)
    BY <1>2
  <2> QED BY <1>5, <2>1 DEF Feed3
<1>7. at(8) = FeedByte(at(0), byte)
  <2>1. at(8) = FeedBit(FeedBit(at(6), 6 \in byte), 7 \in byte)
    BY <1>2
  <2> QED BY <1>6, <2>1 DEF FeedByte
<1>8. at(0) \in Words32
  BY <1>2
<1> QED BY <1>0, <1>3, <1>7, <1>8, NextStateFeeds DEF byte, Bytes

----------------------------------------------------------------------------
(* What crc32Input leaves in s_crc32Value. *)
Messages == Seq(Bytes)
LastPiece == fed[Len(fed)]
CrcTypes == /\ s_crc32Value \in Words32 /\ fed \in Seq(Messages)
            /\ pos \in {Idle} \cup Nat
            /\ pos # Idle => fed # <<>> /\ pos <= Len(LastPiece)

(* Consumed is the number of bytes of its last piece the state stands for. *)
Consumed == IF pos = Idle THEN Len(LastPiece) ELSE pos
CrcInv ==
    /\ CrcTypes
    /\ fed = <<>> => s_crc32Value = {}
    /\ Len(fed) = 1 => s_crc32Value = Register(fed[1], 8 * Consumed)
    /\ Len(fed) = 2 =>
         s_crc32Value # Register(fed[1] \o fed[2], 8 * (Len(fed[1]) + Consumed))
    /\ fed # <<>> /\ pos = Idle => returned = Complement(s_crc32Value)

(* A message in two parts. *)
LEMMA Joined ==
    ASSUME NEW h \in Seq(Bytes), NEW t \in Seq(Bytes)
    PROVE  /\ Len(h) \in Nat /\ Len(t) \in Nat
           /\ h \o t \in Seq(Bytes) /\ Len(h \o t) = Len(h) + Len(t)
           /\ \A k \in 1 .. Len(t) : (h \o t)[Len(h) + k] = t[k]
<1>1. Len(h) \in Nat /\ Len(t) \in Nat
  OBVIOUS
<1>2. /\ h \o t \in Seq(Bytes) /\ Len(h \o t) = Len(h) + Len(t)
      /\ \A k \in 1 .. Len(h) + Len(t) :
            (h \o t)[k] = IF k <= Len(h) THEN h[k] ELSE t[k - Len(h)]
  OBVIOUS
<1> QED BY <1>1, <1>2

(* The register knows only what was fed. *)
LEMMA RegisterPrefix ==
    ASSUME NEW m \in Seq(Bytes), NEW t \in Seq(Bytes)
    PROVE  Register(m \o t, 8 * Len(m)) = Register(m, 8 * Len(m))
<1> DEFINE n == 8 * Len(m)
<1>0. Len(m) \in Nat
  OBVIOUS
<1>1. ASSUME NEW e \in 32 .. n + 31
      PROVE  BitOf(m \o t, n + 31 - e) <=> BitOf(m, n + 31 - e)
  <2>1. n + 31 - e \in 0 .. n - 1
    BY <1>0
  <2>2. \A k \in 0 .. n - 1 : (k \div 8) + 1 \in 1 .. Len(m)
    BY <1>0
  <2>3. \A j \in 1 .. Len(m) : (m \o t)[j] = m[j]
    OBVIOUS
  <2> QED BY <2>1, <2>2, <2>3 DEF BitOf
<1>2. Dividend(m \o t, n) = Dividend(m, n)
  BY <1>1 DEF Dividend
<1> QED BY <1>2 DEF Register

(* CrcInv is inductive. *)
LEMMA CrcInvStep == CrcInv /\ [CrcNext]_crcVars => CrcInv'
<1> SUFFICES ASSUME CrcInv, [CrcNext]_crcVars PROVE CrcInv'
  OBVIOUS
<1>0. /\ s_crc32Value \in Words32 /\ fed \in Seq(Messages) /\ Len(fed) \in Nat
      /\ pos \in {Idle} \cup Nat /\ (pos # Idle => fed # <<>> /\ pos <= Len(LastPiece))
      /\ fed # <<>> => LastPiece \in Messages
      /\ \A k \in 1 .. Len(fed) : fed[k] \in Messages
      /\ \A m \in Messages : m \in Seq(Bytes) /\ Len(m) \in Nat
  <2>1. \A m \in Messages : m \in Seq(Bytes) /\ Len(m) \in Nat
    BY DEF Messages
  <2> QED BY <2>1 DEF CrcInv, CrcTypes, LastPiece
<1>1. CASE crc32Reset
  <2>1. s_crc32Value' = {} /\ fed' = <<>> /\ pos' = Idle
    BY <1>1 DEF crc32Reset
  <2> QED BY <2>1 DEF CrcInv, CrcTypes, Words32, Idle
<1>2. ASSUME NEW p \in Pieces, crc32Input(p)
      PROVE  CrcInv'
  <2>1. /\ pos = Idle /\ pos' = 0 /\ fed' = Append(fed, p)
        /\ s_crc32Value' = Complement(s_crc32Value)
    BY <1>2 DEF crc32Input
  <2>2. p \in Messages /\ p \in Seq(Bytes) /\ Len(p) \in Nat
    BY CrcAssumption DEF Bytes, Messages
  <2>8. (Len(fed') = 1 => Len(fed) = 0) /\ (Len(fed') = 2 => Len(fed) = 1)
    <3>1. Len(fed') = Len(fed) + 1
      BY <1>0, <2>1, <2>2
    <3>2. Len(fed) \in Nat
      BY <1>0
    <3>3. \A a \in Nat : (a + 1 = 1 => a = 0) /\ (a + 1 = 2 => a = 1)
      OBVIOUS
    <3> QED BY <3>1, <3>2, <3>3, Zenon
  <2>3. /\ fed' \in Seq(Messages) /\ Len(fed') = Len(fed) + 1 /\ LastPiece' = p
        /\ fed' # <<>> /\ \A k \in 1 .. Len(fed) : fed'[k] = fed[k]
    BY <1>0, <2>1, <2>2 DEF LastPiece
  <2>4. CrcTypes'
    <3>1. s_crc32Value' \in Words32
      BY <1>0, <2>1, WordTypes
    <3> QED BY <2>1, <2>2, <2>3, <3>1 DEF CrcTypes
  <2>5. Consumed' = 0 /\ pos' # Idle
    BY <2>1 DEF Consumed, Idle
  <2>6. ASSUME Len(fed') = 1
        PROVE  s_crc32Value' = Register(fed'[1], 8 * Consumed')
    <3>1. fed = <<>>
      <4>1. Len(fed) = 0
        BY <2>6, <2>8
      <4> QED BY <4>1, <1>0
    <3>2. s_crc32Value' = Word32
      BY <3>1, <2>1 DEF CrcInv, Complement
    <3>3. Register(fed'[1], 0) = Word32
      BY DividendFirst, SmallPolys DEF Register, Reflect, Word32
    <3> QED BY <2>5, <3>2, <3>3
  <2>7. ASSUME Len(fed') = 2
        PROVE  s_crc32Value' # Register(fed'[1] \o fed'[2], 8 * (Len(fed'[1]) + Consumed'))
    <3>1. Len(fed) = 1 /\ fed'[1] = fed[1] /\ fed'[2] = p /\ LastPiece = fed[1]
          /\ fed[1] \in Seq(Bytes) /\ Len(fed[1]) \in Nat
      <4>1. Len(fed) = 1
        BY <2>7, <2>8
      <4>2. fed'[1] = fed[1] /\ fed[1] \in Messages
        BY <4>1, <2>3, <1>0
      <4>3. fed'[2] = p /\ LastPiece = fed[1]
        BY <4>1, <2>3 DEF LastPiece
      <4> QED BY <4>1, <4>2, <4>3, <1>0
    <3>2. s_crc32Value = Register(fed[1], 8 * Len(fed[1]))
      BY <2>1, <3>1 DEF CrcInv, Consumed
    <3>3. Register(fed[1] \o p, 8 * Len(fed[1])) = s_crc32Value
      BY <3>1, <3>2, <2>2, RegisterPrefix
    <3>4. Complement(s_crc32Value) # s_crc32Value
      BY DEF Complement, Word32
    <3>5. Len(fed'[1]) + Consumed' = Len(fed[1])
      BY <2>5, <3>1
    <3> QED BY <2>1, <3>1, <3>3, <3>4, <3>5
  <2> QED BY <2>3, <2>4, <2>5, <2>6, <2>7 DEF CrcInv
<1>3. CASE InputByte
  <2>1. /\ pos # Idle /\ pos < Len(LastPiece) /\ pos' = pos + 1 /\ fed' = fed
        /\ s_crc32Value' = NextState(s_crc32Value, LastPiece[pos + 1])
    BY <1>3 DEF InputByte, LastPiece
  <2>2. pos \in Nat /\ pos' # Idle /\ LastPiece' = LastPiece /\ Len(LastPiece) \in Nat
        /\ fed # <<>> /\ LastPiece[pos + 1] \in Bytes
    BY <1>0, <2>1 DEF LastPiece, Idle
  <2>3. CrcTypes'
    <3>1. NextState(s_crc32Value, LastPiece[pos + 1]) \in Words32
      <4>1. \A x \in Words32 : \A bit : FeedBit(x, bit) \in Words32
        BY WordTypes
      <4>2. \A x \in Words32 : \A byte : FeedByte(x, byte) \in Words32
        BY <4>1 DEF FeedByte, Feed1, Feed2, Feed3
      <4> QED BY <1>0, <2>2, <4>2, NextStateFeeds DEF Bytes
    <3> QED BY <1>0, <2>1, <2>2, <3>1 DEF CrcTypes
  <2>4. Consumed = pos /\ Consumed' = pos + 1
    BY <2>1, <2>2 DEF Consumed
  <2>5. ASSUME Len(fed) = 1
        PROVE  s_crc32Value' = Register(fed[1], 8 * (pos + 1))
    <3>1. LastPiece = fed[1] /\ s_crc32Value = Register(fed[1], 8 * pos)
      BY <2>4, <2>5 DEF CrcInv, LastPiece
    <3>2. fed[1] \in Seq(Bytes) /\ pos \in 0 .. Len(fed[1]) - 1
      BY <1>0, <2>1, <2>2, <3>1
    <3> QED BY <2>1, <3>1, <3>2, RegisterByte
  <2>6. ASSUME Len(fed) = 2
        PROVE  s_crc32Value'
                 # Register(fed[1] \o fed[2], 8 * (Len(fed[1]) + (pos + 1)))
    <3> DEFINE m == fed[1] \o fed[2]
               n == Len(fed[1]) + pos
    <3>1. fed[1] \in Seq(Bytes) /\ fed[2] \in Seq(Bytes) /\ LastPiece = fed[2]
      <4>1. fed[1] \in Messages /\ fed[2] \in Messages
        BY <1>0, <2>6
      <4> QED BY <1>0, <2>6, <4>1 DEF LastPiece
    <3>2. /\ m \in Seq(Bytes) /\ n \in 0 .. Len(m) - 1 /\ m[n + 1] = LastPiece[pos + 1]
          /\ n + 1 = Len(fed[1]) + (pos + 1)
      <4>1. /\ Len(fed[1]) \in Nat /\ Len(fed[2]) \in Nat
            /\ Len(m) = Len(fed[1]) + Len(fed[2]) /\ m \in Seq(Bytes)
            /\ \A k \in 1 .. Len(fed[2]) : m[Len(fed[1]) + k] = fed[2][k]
        BY <3>1, Joined
      <4>0. pos \in Nat /\ pos < Len(fed[2])
        BY <3>1, <2>1, <2>2
      <4> HIDE DEF m
      <4>2. n + 1 \in 1 .. Len(m) /\ n + 1 = Len(fed[1]) + (pos + 1)
            /\ n \in 0 .. Len(m) - 1
        <5>1. \A a, b \in Nat : \A k \in Nat : k < b =>
                /\ (a + k) + 1 \in 1 .. a + b /\ (a + k) + 1 = a + (k + 1)
                /\ a + k \in 0 .. (a + b) - 1
          OBVIOUS
        <5> QED BY <4>0, <4>1, <5>1
      <4>3. pos + 1 \in 1 .. Len(fed[2])
        BY <4>0, <4>1
      <4>4. m[Len(fed[1]) + (pos + 1)] = fed[2][pos + 1]
        BY <4>1, <4>3
      <4> QED BY <4>1, <4>2, <4>4, <3>1
    <3>3. s_crc32Value # Register(m, 8 * n)
      BY <2>4, <2>6 DEF CrcInv
    <3> HIDE DEF m, n
    <3>4. /\ Register(m, 8 * n) \in Words32
          /\ Register(m, 8 * (n + 1)) = NextState(Register(m, 8 * n), m[n + 1])
      BY <3>2, RegisterByte
    <3>5. s_crc32Value' # Register(m, 8 * (n + 1))
      BY <1>0, <2>1, <2>2, <3>2, <3>3, <3>4, NextStateInjective DEF Bytes
    <3> QED BY <3>2, <3>5 DEF m
  <2> QED BY <2>1, <2>2, <2>3, <2>4, <2>5, <2>6 DEF CrcInv
<1>4. CASE InputReturn
  <2>1. /\ pos # Idle /\ pos = Len(LastPiece) /\ pos' = Idle
        /\ UNCHANGED <<s_crc32Value, fed>> /\ returned' = Complement(s_crc32Value)
    BY <1>4 DEF InputReturn, LastPiece
  <2>2. Consumed' = Consumed /\ LastPiece' = LastPiece
    BY <2>1 DEF Consumed, LastPiece
  <2> QED BY <1>0, <2>1, <2>2 DEF CrcInv, CrcTypes
<1>5. CASE UNCHANGED crcVars
  BY <1>5 DEF CrcInv, CrcTypes, Consumed, LastPiece, crcVars
<1> QED BY <1>1, <1>2, <1>3, <1>4, <1>5 DEF CrcNext

(* crc32Input returns the CRC-32 of every message fed to it at once: the   *)
(* complemented, reflected remainder of the division by P.  Fed in two     *)
(* pieces, no message at all gives its CRC.                                *)
THEOREM CrcCorrect == CrcSpec => []CrcOfPieces
<1>1. CrcInit => CrcInv
  <2> SUFFICES ASSUME CrcInit PROVE CrcInv
    OBVIOUS
  <2>1. s_crc32Value = {} /\ pos = Idle /\ fed = <<>>
    BY DEF CrcInit
  <2> QED BY <2>1 DEF CrcInv, CrcTypes, Words32
<1>2. CrcInv => CrcOfPieces
  <2> SUFFICES ASSUME CrcInv, pos = Idle
               PROVE  /\ Len(fed) = 1 => returned = CrcOf(fed[1])
                      /\ Len(fed) = 2 => returned # CrcOf(fed[1] \o fed[2])
    BY DEF CrcOfPieces
  <2>0. fed \in Seq(Messages) /\ s_crc32Value \in Words32
        /\ (fed # <<>> => returned = Complement(s_crc32Value))
    BY DEF CrcInv, CrcTypes
  <2>1. ASSUME Len(fed) = 1 PROVE returned = CrcOf(fed[1])
    <3>1. fed # <<>> /\ s_crc32Value = Register(fed[1], 8 * Len(fed[1]))
      BY <2>1 DEF CrcInv, Consumed, LastPiece
    <3> QED BY <2>0, <3>1 DEF CrcOf, Register
  <2>2. ASSUME Len(fed) = 2 PROVE returned # CrcOf(fed[1] \o fed[2])
    <3> DEFINE m == fed[1] \o fed[2]
    <3>1. fed # <<>> /\ fed[1] \in Seq(Bytes) /\ fed[2] \in Seq(Bytes)
          /\ Len(m) = Len(fed[1]) + Len(fed[2])
      <4>1. fed[1] \in Messages /\ fed[2] \in Messages /\ fed # <<>>
        BY <2>0, <2>2
      <4> QED BY <4>1 DEF Messages
    <3>2. s_crc32Value # Register(m, 8 * Len(m))
      BY <2>2, <3>1 DEF CrcInv, Consumed, LastPiece
    <3> HIDE DEF m
    <3>3. Register(m, 8 * Len(m)) \in Words32
      BY DEF Register, Reflect, Words32
    <3>4. \A x, y \in Words32 : Complement(x) = Complement(y) => x = y
      BY DEF Complement, Words32
    <3>5. Complement(s_crc32Value) # Complement(Register(m, 8 * Len(m)))
      BY <2>0, <3>2, <3>3, <3>4
    <3>6. CrcOf(m) = Complement(Register(m, 8 * Len(m)))
      BY DEF CrcOf, Register
    <3> QED BY <2>0, <3>1, <3>5, <3>6 DEF m
  <2> QED BY <2>1, <2>2
<1> QED BY <1>1, <1>2, CrcInvStep, PTL DEF CrcSpec

----------------------------------------------------------------------------
(* The characters of the text are stored from byte 0 on, with a 0 behind.  *)
Stored(m, s) == /\ \A k \in 1 .. Len(s) : m[k - 1] = s[k]
                /\ m[Len(s)] = 0

(* What Cut keeps. *)
LEMMA CutProps ==
    ASSUME NEW S, NEW s \in Seq(S), NEW n \in Nat
    PROVE  /\ Cut(s, n) \in Seq(S)
           /\ Len(Cut(s, n)) = IF n < Len(s) THEN n ELSE Len(s)
           /\ \A k \in 1 .. Len(Cut(s, n)) : Cut(s, n)[k] = s[k]
<1> DEFINE l == IF n < Len(s) THEN n ELSE Len(s)
<1>1. l \in 0 .. Len(s) /\ Len(s) \in Nat
  OBVIOUS
<1>2. /\ SubSeq(s, 1, l) \in Seq(S) /\ Len(SubSeq(s, 1, l)) = l
      /\ \A k \in 1 .. l : SubSeq(s, 1, l)[k] = s[k]
  <2> HIDE DEF l
  <2>1. \A k \in 1 .. l : s[k] \in S
    BY <1>1
  <2> QED BY <1>1, <2>1
<1> QED BY <1>1, <1>2 DEF Cut

(* A string constant is stored. *)
LEMMA CStrStored ==
    ASSUME NEW s \in Seq(Chars)
    PROVE  Stored(CStr(s), s)
<1>1. Len(s) \in Nat
  OBVIOUS
<1>2. \A k \in 0 .. Len(s) : CStr(s)[k] = IF k < Len(s) THEN s[k + 1] ELSE 0
  BY DEF CStr
<1>3. ASSUME NEW k \in 1 .. Len(s) PROVE CStr(s)[k - 1] = s[k]
  <2>1. k - 1 \in 0 .. Len(s) /\ k - 1 < Len(s) /\ (k - 1) + 1 = k
    BY <1>1
  <2> QED BY <1>2, <2>1
<1> QED BY <1>1, <1>2, <1>3 DEF Stored

(* strnlen counts up to the first 0. *)
LEMMA StrNLenIs ==
    ASSUME NEW m, NEW at \in Int, NEW count \in Nat, NEW l \in 0 .. count,
           l = count \/ m[at + l] = 0,
           \A k \in 0 .. l - 1 : m[at + k] # 0
    PROVE  StrNLen(m, at, count) = l
<1> DEFINE Q(x) == /\ x = count \/ m[at + x] = 0
                   /\ \A k \in 0 .. x - 1 : m[at + k] # 0
<1>1. \A x \in 0 .. count : Q(x) => x = l
  <2> SUFFICES ASSUME NEW x \in 0 .. count, Q(x), x # l PROVE FALSE
    OBVIOUS
  <2>1. CASE x < l
    <3>1. x \in 0 .. l - 1 /\ x # count
      BY <2>1
    <3> QED BY <3>1
  <2>2. CASE l < x
    <3>1. l \in 0 .. x - 1 /\ l # count
      BY <2>2
    <3> QED BY <3>1
  <2> QED BY <2>1, <2>2
<1>2. Q(l)
  OBVIOUS
<1>3. StrNLen(m, at, count) = CHOOSE x \in 0 .. count : Q(x)
  BY Zenon DEF StrNLen
<1> HIDE DEF Q
<1> QED BY <1>1, <1>2, <1>3

(* On a stored text it is the length of the text, or the count. *)
LEMMA StrNLenStored ==
    ASSUME NEW m, NEW s \in Seq(Chars), Stored(m, s), NEW count \in Nat
    PROVE  StrNLen(m, 0, count) = IF count < Len(s) THEN count ELSE Len(s)
<1> DEFINE l == IF count < Len(s) THEN count ELSE Len(s)
<1>1. Len(s) \in Nat /\ l \in 0 .. count /\ l \in Nat /\ l <= Len(s)
  OBVIOUS
<1>2. l = count \/ m[0 + l] = 0
  <2>1. l = count \/ l = Len(s)
    OBVIOUS
  <2>2. 0 + l = l
    BY <1>1
  <2> HIDE DEF l
  <2> QED BY <2>1, <2>2 DEF Stored
<1>3. ASSUME NEW k \in 0 .. l - 1 PROVE m[0 + k] # 0
  <2>1. 0 + k = k /\ k + 1 \in 1 .. Len(s) /\ (k + 1) - 1 = k
    BY <1>1
  <2>2. m[k] = s[k + 1] /\ s[k + 1] \in Chars
    BY <2>1 DEF Stored
  <2> QED BY <2>1, <2>2, StringAssumption
<1> HIDE DEF l
<1>4. StrNLen(m, 0, count) = l
  BY <1>1, <1>2, <1>3, StrNLenIs
<1> QED BY <1>4 DEF l

(* The bytes. *)
Memory == [-1 .. Size -> Int]

(* strlcpy stores the source, cut to the room, and touches nothing else.   *)
LEMMA StrLCpyStores ==
    ASSUME NEW m \in Memory, NEW at \in 0 .. Size - 1, NEW src \in Seq(Chars),
           NEW maxlen \in 1 .. Size - at
    PROVE  LET n == IF maxlen - 1 < Len(src) THEN maxlen - 1 ELSE Len(src)
               r == StrLCpy(m, at, src, maxlen)
           IN  /\ r.mem \in Memory /\ r.ret = n
               /\ \A k \in 1 .. n : r.mem[(at + k) - 1] = src[k]
               /\ r.mem[at + n] = 0
               /\ \A k \in -1 .. Size : k < at \/ k >= at + maxlen => r.mem[k] = m[k]
<1> DEFINE n == IF maxlen - 1 < Len(src) THEN maxlen - 1 ELSE Len(src)
           len == IF n + 1 >= maxlen THEN maxlen - 1 ELSE n + 1
           copy == MemCpy(m, at, CStr(src), len)
           new == [copy EXCEPT ![at + len] = 0]
<1>0. Size \in Nat \ {0} /\ Len(src) \in Nat
  BY StringAssumption
<1>1. StrNLen(CStr(src), 0, maxlen - 1) = n
  BY <1>0, CStrStored, StrNLenStored
<1>2. n \in Nat /\ n <= Len(src) /\ n <= maxlen - 1
      /\ len \in Nat /\ len \in {n, n + 1} /\ len <= maxlen - 1
      /\ (len = n + 1 => n = Len(src))
  BY <1>0
<1>3. StrLCpy(m, at, src, maxlen) = [mem |-> new, ret |-> (n + 1) - 1]
  BY <1>1, Zenon DEF StrLCpy
<1> HIDE DEF n, len
<1>4. \A k \in -1 .. Size : copy[k] = IF k \in at .. (at + len) - 1 THEN CStr(src)[k - at]
                                     ELSE m[k]
  <2>1. (at + len) - 1 = at + len - 1
    BY <1>2
  <2> QED BY <2>1, Zenon DEF MemCpy, Memory
<1>5. DOMAIN copy = -1 .. Size
  BY DEF MemCpy, Memory
<1>6. \A k \in 0 .. Len(src) : CStr(src)[k] = (IF k < Len(src) THEN src[k + 1] ELSE 0)
                              /\ CStr(src)[k] \in Int
  <2> TAKE k \in 0 .. Len(src)
  <2>1. CStr(src)[k] = IF k < Len(src) THEN src[k + 1] ELSE 0
    BY DEF CStr
  <2>2. k < Len(src) => src[k + 1] \in Chars
    BY <1>0
  <2>3. Chars \subseteq Int
    BY StringAssumption
  <2>4. CStr(src)[k] \in Int
    <3>1. CASE k < Len(src)
      BY <2>1, <2>2, <2>3, <3>1
    <3>2. CASE ~(k < Len(src))
      BY <2>1, <3>2
    <3> QED BY <3>1, <3>2
  <2> QED BY <2>1, <2>4
<1>7. copy \in Memory
  <2>1. ASSUME NEW k \in -1 .. Size PROVE copy[k] \in Int
    <3>1. CASE k \in at .. (at + len) - 1
      <4>1. k - at \in 0 .. Len(src)
        BY <1>0, <1>2, <3>1
      <4> QED BY <1>4, <1>6, <3>1, <4>1
    <3>2. CASE ~(k \in at .. (at + len) - 1)
      BY <1>4, <3>2 DEF Memory
    <3> QED BY <3>1, <3>2
  <2>2. copy = [k \in -1 .. Size |-> copy[k]]
    BY <1>5 DEF MemCpy
  <2> HIDE DEF copy
  <2> QED BY <2>1, <2>2 DEF Memory
<1>8. at + len \in -1 .. Size /\ at + len < at + maxlen
  BY <1>0, <1>2
<1> HIDE DEF copy
<1>9. new \in Memory
  BY <1>7, <1>8 DEF Memory
<1>10. \A k \in -1 .. Size : new[k] = IF k = at + len THEN 0 ELSE copy[k]
  BY <1>7, <1>8 DEF Memory
<1> HIDE DEF new
<1>11. ASSUME NEW k \in 1 .. n PROVE new[(at + k) - 1] = src[k]
  <2>1. /\ (at + k) - 1 \in -1 .. Size /\ (at + k) - 1 # at + len
        /\ (at + k) - 1 \in at .. (at + len) - 1 /\ ((at + k) - 1) - at = k - 1
        /\ k - 1 \in 0 .. Len(src) /\ k - 1 < Len(src) /\ (k - 1) + 1 = k
    BY <1>0, <1>2
  <2>2. new[(at + k) - 1] = CStr(src)[k - 1]
    BY <1>4, <1>10, <2>1
  <2> QED BY <1>6, <2>1, <2>2
<1>12. new[at + n] = 0
  <2>1. CASE len = n
    BY <1>8, <1>10, <2>1
  <2>2. CASE len = n + 1
    <3>1. /\ at + n \in -1 .. Size /\ at + n # at + len /\ at + n \in at .. (at + len) - 1
          /\ (at + n) - at = Len(src) /\ Len(src) \in 0 .. Len(src)
      BY <1>0, <1>2, <1>8, <2>2
    <3>2. new[at + n] = CStr(src)[Len(src)]
      BY <1>4, <1>10, <3>1
    <3>3. CStr(src)[Len(src)] = 0
      BY <1>0, <1>6, <3>1
    <3> QED BY <3>2, <3>3
  <2> QED BY <1>2, <2>1, <2>2
<1>13. ASSUME NEW k \in -1 .. Size, k < at \/ k >= at + maxlen PROVE new[k] = m[k]
  <2>1. k # at + len /\ ~(k \in at .. (at + len) - 1)
    BY <1>0, <1>2, <1>8, <1>13
  <2> QED BY <1>4, <1>10, <2>1
<1>14. (n + 1) - 1 = n
  BY <1>2
<1> QED BY <1>3, <1>9, <1>11, <1>12, <1>13, <1>14 DEF n

----------------------------------------------------------------------------
(* A place where strncmp can stop, and the first one. *)
Stops(a, b, n, i) == i = n \/ a[i] = 0 \/ a[i] # b[i]
StopsFirst(a, b, n, i) ==
    Stops(a, b, n, i) /\ \A j \in 0 .. i - 1 : a[j] # 0 /\ a[j] = b[j]

(* It stops at one place. *)
LEMMA StrNCmpStops ==
    ASSUME NEW a, NEW b, NEW n \in Nat
    PROVE  \E i \in 0 .. n : /\ StopsFirst(a, b, n, i)
                             /\ StrNCmp(a, b, n) = IF i = n THEN 0 ELSE a[i] - b[i]
<1> DEFINE S == {i \in 0 .. n : Stops(a, b, n, i)}
<1>1. S # {} /\ S \in SUBSET Nat
  BY DEF Stops
<1>2. PICK i \in S : \A y \in S : i <= y
  BY <1>1, LeastNumber
<1>3. StopsFirst(a, b, n, i)
  <2>1. ASSUME NEW j \in 0 .. i - 1 PROVE a[j] # 0 /\ a[j] = b[j]
    <3>1. j \in 0 .. n /\ j \notin S
      BY <1>2
    <3> QED BY <3>1 DEF Stops
  <2> QED BY <2>1 DEF StopsFirst
<1>4. \A x \in 0 .. n : StopsFirst(a, b, n, x) => x = i
  <2> SUFFICES ASSUME NEW x \in 0 .. n, StopsFirst(a, b, n, x), x # i PROVE FALSE
    OBVIOUS
  <2>1. ~(x < i)
    BY <1>2 DEF StopsFirst
  <2>2. i \in 0 .. x - 1 /\ i # n
    BY <2>1
  <2> QED BY <1>3, <2>2 DEF StopsFirst, Stops
<1>5. StrNCmp(a, b, n)
        = LET x == CHOOSE x \in 0 .. n : StopsFirst(a, b, n, x)
          IN  IF x = n THEN 0 ELSE a[x] - b[x]
  BY DEF StrNCmp, StopsFirst, Stops
<1>6. (CHOOSE x \in 0 .. n : StopsFirst(a, b, n, x)) = i
  BY <1>3, <1>4
<1> QED BY <1>3, <1>5, <1>6

(* Texts that agree on all places are one. *)
LEMMA SameText ==
    ASSUME NEW S, NEW s \in Seq(S), NEW t \in Seq(S), Len(s) = Len(t),
           \A k \in 1 .. Len(s) : s[k] = t[k]
    PROVE  s = t
OBVIOUS

(* strncmp of two stored texts is the order of the dictionary of what they *)
(* begin with.                                                             *)
LEMMA StrNCmpOrders ==
    ASSUME NEW a, NEW b, NEW s \in Seq(Chars), NEW t \in Seq(Chars),
           Stored(a, s), Stored(b, t), NEW n \in Nat
    PROVE  Sign(StrNCmp(a, b, n)) = Order(Cut(s, n), Cut(t, n))
<1> DEFINE S == Cut(s, n)
           T == Cut(t, n)
<1>0. /\ S \in Seq(Chars) /\ Len(S) = IF n < Len(s) THEN n ELSE Len(s)
      /\ T \in Seq(Chars) /\ Len(T) = IF n < Len(t) THEN n ELSE Len(t)
      /\ \A k \in 1 .. Len(S) : S[k] = s[k]
      /\ \A k \in 1 .. Len(T) : T[k] = t[k]
      /\ Len(s) \in Nat /\ Len(t) \in Nat
  BY CutProps
<1> HIDE DEF S, T
<1>1. PICK i \in 0 .. n : /\ StopsFirst(a, b, n, i)
                          /\ StrNCmp(a, b, n) = IF i = n THEN 0 ELSE a[i] - b[i]
  BY StrNCmpStops
<1>2. \A j \in 0 .. i - 1 : a[j] # 0 /\ a[j] = b[j]
  BY <1>1 DEF StopsFirst
<1>3. i <= Len(s) /\ i <= Len(t)
  <2>1. a[Len(s)] = 0 /\ b[Len(t)] = 0
    BY DEF Stored
  <2>2. ~(Len(s) \in 0 .. i - 1) /\ ~(Len(t) \in 0 .. i - 1)
    BY <1>2, <2>1
  <2> QED BY <1>0, <2>2
<1>4. i <= Len(S) /\ i <= Len(T) /\ Len(S) \in Nat /\ Len(T) \in Nat
  BY <1>0, <1>3
<1>5. ASSUME NEW k \in 1 .. i PROVE S[k] = T[k]
  <2>1. k - 1 \in 0 .. i - 1 /\ k \in 1 .. Len(s) /\ k \in 1 .. Len(t)
        /\ k \in 1 .. Len(S) /\ k \in 1 .. Len(T)
    BY <1>0, <1>3, <1>4
  <2>2. a[k - 1] = b[k - 1] /\ a[k - 1] = s[k] /\ b[k - 1] = t[k]
    BY <1>2, <2>1 DEF Stored
  <2> QED BY <1>0, <2>1, <2>2
<1>6. CASE i = n
  <2>1. Len(S) = n /\ Len(T) = n
    BY <1>0, <1>3, <1>6
  <2>2. S = T
    BY <1>0, <1>5, <1>6, <2>1, SameText
  <2>3. StrNCmp(a, b, n) = 0
    BY <1>1, <1>6
  <2> QED BY <2>2, <2>3 DEF Sign, Order, S, T
<1>7. CASE i < n
  <2>1. StrNCmp(a, b, n) = a[i] - b[i] /\ (a[i] = 0 \/ a[i] # b[i])
    BY <1>1, <1>7 DEF StopsFirst, Stops
  <2>2. /\ i = Len(s) => a[i] = 0 /\ Len(S) = i
        /\ i # Len(s) => i + 1 \in 1 .. Len(S) /\ a[i] = S[i + 1] /\ S[i + 1] \in Nat \ {0}
    <3>1. CASE i = Len(s)
      BY <1>0, <1>7, <3>1 DEF Stored
    <3>2. CASE i # Len(s)
      <4>1. i + 1 \in 1 .. Len(s) /\ i + 1 \in 1 .. Len(S) /\ (i + 1) - 1 = i
        BY <1>0, <1>3, <1>7, <3>2
      <4>2. a[i] = s[i + 1]
        BY <4>1 DEF Stored
      <4>3. S[i + 1] \in Chars
        BY <1>0, <4>1
      <4> QED BY <1>0, <3>2, <4>1, <4>2, <4>3, StringAssumption
    <3> QED BY <3>1, <3>2
  <2>3. /\ i = Len(t) => b[i] = 0 /\ Len(T) = i
        /\ i # Len(t) => i + 1 \in 1 .. Len(T) /\ b[i] = T[i + 1] /\ T[i + 1] \in Nat \ {0}
    <3>1. CASE i = Len(t)
      BY <1>0, <1>7, <3>1 DEF Stored
    <3>2. CASE i # Len(t)
      <4>1. i + 1 \in 1 .. Len(t) /\ i + 1 \in 1 .. Len(T) /\ (i + 1) - 1 = i
        BY <1>0, <1>3, <1>7, <3>2
      <4>2. b[i] = t[i + 1]
        BY <4>1 DEF Stored
      <4>3. T[i + 1] \in Chars
        BY <1>0, <4>1
      <4> QED BY <1>0, <3>2, <4>1, <4>2, <4>3, StringAssumption
    <3> QED BY <3>1, <3>2
  <2>4. CASE i = Len(s) /\ i = Len(t)
    <3>1. S = T
      BY <1>0, <1>5, <2>2, <2>3, <2>4, SameText
    <3>2. StrNCmp(a, b, n) = 0
      BY <2>1, <2>2, <2>3, <2>4
    <3> QED BY <3>1, <3>2 DEF Sign, Order, S, T
  <2>5. CASE i # Len(t) /\ (i = Len(s) \/ (i # Len(s) /\ a[i] < b[i]))
    <3>1. StrNCmp(a, b, n) < 0
      BY <2>1, <2>2, <2>3, <2>5
    <3>2. i + 1 \in 1 .. Len(T) /\ (i + 1) - 1 = i
      BY <2>3, <2>5
    <3>3. \A j \in 1 .. i : j <= Len(S) /\ S[j] = T[j]
      BY <1>4, <1>5
    <3>4. i + 1 = Len(S) + 1 \/ (i + 1 <= Len(S) /\ S[i + 1] < T[i + 1])
      BY <1>4, <2>2, <2>3, <2>5
    <3>5. Precedes(S, T)
      BY <3>2, <3>3, <3>4 DEF Precedes
    <3>6. S # T
      <4>1. Len(S) = i \/ S[i + 1] # T[i + 1]
        BY <2>2, <2>3, <2>5
      <4>2. Len(T) # i
        BY <3>2
      <4> QED BY <4>1, <4>2
    <3> QED BY <3>1, <3>5, <3>6 DEF Sign, Order, S, T
  <2>6. CASE i # Len(s) /\ (i = Len(t) \/ (i # Len(t) /\ b[i] < a[i]))
    <3>1. StrNCmp(a, b, n) > 0 /\ ~(StrNCmp(a, b, n) < 0)
      BY <2>1, <2>2, <2>3, <2>6
    <3>2. i + 1 \in 1 .. Len(S)
      BY <2>2, <2>6
    <3>3. i = Len(t) => Len(T) = i
      BY <2>3
    <3>4. i # Len(t) => T[i + 1] < S[i + 1] /\ i + 1 \in 1 .. Len(T)
          /\ S[i + 1] \in Nat /\ T[i + 1] \in Nat
      BY <2>2, <2>3, <2>6
    <3>5. ~Precedes(S, T)
      <4> SUFFICES ASSUME NEW k \in 1 .. Len(T),
                          \A j \in 1 .. k - 1 : j <= Len(S) /\ S[j] = T[j],
                          k = Len(S) + 1 \/ (k <= Len(S) /\ S[k] < T[k])
                   PROVE  FALSE
        BY DEF Precedes
      <4>1. CASE k <= i
        <5>1. k \in 1 .. i /\ k # Len(S) + 1 /\ k \in 1 .. Len(S) /\ k \in 1 .. Len(T)
          BY <1>4, <4>1
        <5>2. S[k] = T[k] /\ S[k] < T[k] /\ S[k] \in Nat
          <6>1. S[k] \in Chars
            BY <1>0, <5>1
          <6> QED BY <1>5, <5>1, <6>1, StringAssumption
        <5> QED BY <5>2
      <4>2. CASE k = i + 1
        BY <1>4, <3>2, <3>3, <3>4, <4>2
      <4>3. CASE k > i + 1
        <5>1. i + 1 \in 1 .. k - 1 /\ i # Len(t)
          BY <1>4, <3>3, <4>3
        <5>2. S[i + 1] = T[i + 1]
          BY <5>1
        <5> QED BY <3>4, <5>1, <5>2
      <4> QED BY <1>4, <4>1, <4>2, <4>3
    <3>6. S # T
      <4>1. Len(T) = i \/ S[i + 1] # T[i + 1]
        BY <3>3, <3>4
      <4>2. Len(S) # i
        BY <3>2
      <4> QED BY <4>1, <4>2
    <3> QED BY <3>1, <3>5, <3>6 DEF Sign, Order, S, T
  <2> QED
    <3>1. i # Len(s) /\ i # Len(t) => a[i] < b[i] \/ b[i] < a[i]
      BY <2>1, <2>2, <2>3
    <3> QED BY <2>4, <2>5, <2>6, <3>1
<1> QED BY <1>6, <1>7

----------------------------------------------------------------------------
(* The text is in the buffer, the bytes beside it are as they were, and a  *)
(* copy or an append has told its length.                                  *)
StrInv ==
    /\ mem \in Memory /\ text \in Seq(Chars) /\ Len(text) < Size
    /\ mem[Size] = Foreign /\ mem[-1] = Foreign
    /\ Stored(mem, text)
    /\ call \in {"strlcpy", "strlcat"} => ret = Len(text)

(* What a copy leaves in the buffer. *)
LEMMA CopyStores ==
    ASSUME NEW m \in Memory, NEW src \in Seq(Chars), NEW maxlen \in 1 .. Size
    PROVE  LET r == StrLCpy(m, 0, src, maxlen)
               s == Cut(src, maxlen - 1)
           IN  /\ r.mem \in Memory /\ Stored(r.mem, s) /\ r.ret = Len(s)
               /\ s \in Seq(Chars) /\ Len(s) < Size
               /\ r.mem[Size] = m[Size] /\ r.mem[-1] = m[-1]
<1> DEFINE r == StrLCpy(m, 0, src, maxlen)
           s == Cut(src, maxlen - 1)
           n == IF maxlen - 1 < Len(src) THEN maxlen - 1 ELSE Len(src)
<1>0. Size \in Nat \ {0} /\ Len(src) \in Nat /\ maxlen - 1 \in Nat
  BY StringAssumption
<1>1. /\ r.mem \in Memory /\ r.ret = n
      /\ \A k \in 1 .. n : r.mem[(0 + k) - 1] = src[k]
      /\ r.mem[0 + n] = 0
      /\ \A k \in -1 .. Size : k < 0 \/ k >= 0 + maxlen => r.mem[k] = m[k]
  <2>1. 0 \in 0 .. Size - 1 /\ maxlen \in 1 .. Size - 0
    BY <1>0
  <2> QED BY <2>1, StrLCpyStores
<1>2. /\ s \in Seq(Chars) /\ Len(s) = n /\ \A k \in 1 .. Len(s) : s[k] = src[k]
  BY <1>0, CutProps
<1>3. n \in Nat /\ n <= maxlen - 1
  BY <1>0
<1> HIDE DEF r, s, n
<1>4. Stored(r.mem, s)
  <2>1. ASSUME NEW k \in 1 .. n PROVE r.mem[k - 1] = src[k]
    <3>1. (0 + k) - 1 = k - 1
      BY <1>3
    <3> QED BY <1>1, <3>1
  <2>2. 0 + n = n
    BY <1>3
  <2> QED BY <1>1, <1>2, <2>1, <2>2 DEF Stored
<1>5. r.mem[Size] = m[Size] /\ r.mem[-1] = m[-1]
  <2>1. Size \in -1 .. Size /\ Size >= 0 + maxlen /\ -1 \in -1 .. Size /\ -1 < 0
    BY <1>0
  <2> QED BY <1>1, <2>1
<1>6. Len(s) < Size
  BY <1>0, <1>2, <1>3
<1> QED BY <1>1, <1>2, <1>4, <1>5, <1>6 DEF r, s

(* What an append leaves in it. *)
LEMMA AppendStores ==
    ASSUME NEW m \in Memory, NEW t \in Seq(Chars), Stored(m, t), Len(t) < Size,
           NEW src \in Seq(Chars), NEW maxlen \in 1 .. Size
    PROVE  LET r == StrLCat(m, src, maxlen)
               s == Cut(t \o src, maxlen - 1)
           IN  /\ r.mem \in Memory /\ Stored(r.mem, s) /\ r.ret = Len(s)
               /\ s \in Seq(Chars) /\ Len(s) < Size
               /\ r.mem[Size] = m[Size] /\ r.mem[-1] = m[-1]
<1> DEFINE used == IF maxlen - 1 < Len(t) THEN maxlen - 1 ELSE Len(t)
           room == maxlen - used
           n == IF room - 1 < Len(src) THEN room - 1 ELSE Len(src)
           c == StrLCpy(m, used, src, room)
           r == StrLCat(m, src, maxlen)
           s == Cut(t \o src, maxlen - 1)
<1>0. Size \in Nat \ {0} /\ Len(src) \in Nat /\ Len(t) \in Nat /\ maxlen - 1 \in Nat
  BY StringAssumption
<1>1. used \in 0 .. Size - 1 /\ room \in 1 .. Size - used /\ used \in Nat
      /\ used <= Len(t) /\ used + room = maxlen
  BY <1>0
<1>2. r.mem = c.mem /\ r.ret = used + c.ret
  <2>1. StrNLen(m, 0, maxlen - 1) = used
    BY <1>0, StrNLenStored
  <2>2. r = [mem |-> c.mem, ret |-> used + c.ret]
    BY <2>1, Zenon DEF StrLCat
  <2> QED BY <2>2
<1>3. /\ t \o src \in Seq(Chars) /\ Len(t \o src) = Len(t) + Len(src)
      /\ \A k \in 1 .. Len(t) : (t \o src)[k] = t[k]
      /\ \A k \in 1 .. Len(src) : (t \o src)[Len(t) + k] = src[k]
  <2>1. /\ t \o src \in Seq(Chars) /\ Len(t \o src) = Len(t) + Len(src)
        /\ \A k \in 1 .. Len(t) + Len(src) :
              (t \o src)[k] = IF k <= Len(t) THEN t[k] ELSE src[k - Len(t)]
    BY ConcatProperties
  <2> QED BY <1>0, <2>1
<1>4. /\ s \in Seq(Chars)
      /\ Len(s) = IF maxlen - 1 < Len(t \o src) THEN maxlen - 1 ELSE Len(t \o src)
      /\ \A k \in 1 .. Len(s) : s[k] = (t \o src)[k]
  BY <1>0, <1>3, CutProps
<1> HIDE DEF s
<1>5. n \in Nat /\ n <= Len(src) /\ n <= room - 1 /\ (n # 0 => used = Len(t))
  <2>1. CASE maxlen - 1 < Len(t)
    <3>1. used = maxlen - 1 /\ room = 1
      BY <1>0, <2>1
    <3> HIDE DEF used, room
    <3> QED BY <1>0, <3>1
  <2>2. CASE ~(maxlen - 1 < Len(t))
    <3>1. used = Len(t)
      BY <2>2
    <3> HIDE DEF used, room
    <3> QED BY <1>0, <1>1, <3>1
  <2> QED BY <2>1, <2>2
<1>6. Len(s) = used + n /\ Len(s) < Size
  <2>1. CASE maxlen - 1 < Len(t)
    <3>1. used = maxlen - 1 /\ room = 1
      BY <1>0, <2>1
    <3>2. n = 0
      <4> HIDE DEF used, room
      <4> QED BY <1>0, <3>1
    <3>3. Len(s) = maxlen - 1
      BY <1>0, <1>3, <1>4, <2>1
    <3> HIDE DEF used, room, n
    <3> QED BY <1>0, <3>1, <3>2, <3>3
  <2>2. CASE ~(maxlen - 1 < Len(t))
    <3>1. used = Len(t) /\ room = maxlen - Len(t)
      BY <2>2
    <3>2. Len(s) = IF maxlen - 1 < Len(t) + Len(src) THEN maxlen - 1 ELSE Len(t) + Len(src)
      BY <1>3, <1>4
    <3> HIDE DEF used, room
    <3>3. CASE room - 1 < Len(src)
      <4>1. n = room - 1
        BY <3>3
      <4> HIDE DEF n
      <4> QED BY <1>0, <2>2, <3>1, <3>2, <3>3, <4>1
    <3>4. CASE ~(room - 1 < Len(src))
      <4>1. n = Len(src)
        BY <3>4
      <4> HIDE DEF n
      <4> QED BY <1>0, <2>2, <3>1, <3>2, <3>4, <4>1
    <3> QED BY <3>3, <3>4
  <2> QED BY <2>1, <2>2
<1> HIDE DEF used, room
<1>7. /\ c.mem \in Memory /\ c.ret = n
      /\ \A k \in 1 .. n : c.mem[(used + k) - 1] = src[k]
      /\ c.mem[used + n] = 0
      /\ \A k \in -1 .. Size : k < used \/ k >= used + room => c.mem[k] = m[k]
  BY <1>1, StrLCpyStores
<1> HIDE DEF c, n, r, s
<1>8. Stored(c.mem, s)
  <2>1. ASSUME NEW k \in 1 .. Len(s) PROVE c.mem[k - 1] = s[k]
    <3>1. CASE k <= used
      <4>1. k - 1 \in -1 .. Size /\ k - 1 < used /\ k \in 1 .. Len(t)
        BY <1>0, <1>1, <3>1
      <4>2. c.mem[k - 1] = t[k]
        BY <1>7, <4>1 DEF Stored
      <4> QED BY <1>3, <1>4, <4>1, <4>2
    <3>2. CASE k > used
      <4>1. k - used \in 1 .. n /\ (used + (k - used)) - 1 = k - 1
            /\ k - used \in 1 .. Len(src) /\ used + (k - used) = k
        BY <1>0, <1>1, <1>5, <1>6, <3>2
      <4>2. used = Len(t)
        BY <1>5, <4>1
      <4>3. c.mem[k - 1] = src[k - used]
        BY <1>7, <4>1
      <4>4. s[k] = src[k - used]
        BY <1>3, <1>4, <4>1, <4>2
      <4> QED BY <4>3, <4>4
    <3> QED BY <1>1, <3>1, <3>2
  <2> QED BY <1>6, <1>7, <2>1 DEF Stored
<1>9. c.mem[Size] = m[Size] /\ c.mem[-1] = m[-1]
  <2>1. Size \in -1 .. Size /\ Size >= used + room /\ -1 \in -1 .. Size /\ -1 < used
    BY <1>0, <1>1
  <2> QED BY <1>7, <2>1
<1> QED BY <1>2, <1>4, <1>6, <1>7, <1>8, <1>9 DEF r, s

----------------------------------------------------------------------------
(* The empty buffer at the start. *)
LEMMA StrInitInv == StrInit => StrInv
<1> SUFFICES ASSUME StrInit PROVE StrInv
  OBVIOUS
<1>0. Size \in Nat \ {0}
  BY StringAssumption
<1>1. /\ mem = [i \in -1 .. Size |-> IF i \in 0 .. Size - 1 THEN 0 ELSE Foreign]
      /\ text = <<>> /\ call = "none"
  BY DEF StrInit
<1>2. mem \in Memory /\ mem[Size] = Foreign /\ mem[-1] = Foreign /\ mem[0] = 0
  BY <1>0, <1>1 DEF Memory, Foreign
<1>3. text \in Seq(Chars) /\ Len(text) = 0
  BY <1>1
<1>4. Stored(mem, text) /\ Len(text) < Size
  BY <1>0, <1>2, <1>3 DEF Stored
<1> QED BY <1>1, <1>2, <1>3, <1>4 DEF StrInv

(* strlcpy. *)
LEMMA CopyStringInv ==
    ASSUME StrInv, NEW src \in Sources, NEW maxlen \in 1 .. Size, CopyString(src, maxlen)
    PROVE  StrInv'
<1> DEFINE r == StrLCpy(mem, 0, src, maxlen)
           s == Cut(src, maxlen - 1)
<1>1. mem \in Memory /\ src \in Seq(Chars)
  BY StringAssumption DEF StrInv
<1>2. /\ r.mem \in Memory /\ Stored(r.mem, s) /\ r.ret = Len(s)
      /\ s \in Seq(Chars) /\ Len(s) < Size
      /\ r.mem[Size] = mem[Size] /\ r.mem[-1] = mem[-1]
  BY <1>1, CopyStores
<1>3. mem' = r.mem /\ ret' = r.ret /\ text' = s
  BY DEF CopyString
<1> HIDE DEF r, s
<1> QED BY <1>2, <1>3 DEF StrInv

(* strlcat. *)
LEMMA AppendStringInv ==
    ASSUME StrInv, NEW src \in Sources, NEW maxlen \in 1 .. Size, AppendString(src, maxlen)
    PROVE  StrInv'
<1> DEFINE r == StrLCat(mem, src, maxlen)
           s == Cut(text \o src, maxlen - 1)
<1>1. mem' = r.mem /\ ret' = r.ret /\ text' = s
  BY DEF AppendString
<1>2. mem \in Memory /\ src \in Seq(Chars) /\ text \in Seq(Chars) /\ Len(text) < Size
      /\ Stored(mem, text)
  BY StringAssumption DEF StrInv
<1>3. /\ r.mem \in Memory /\ Stored(r.mem, s) /\ r.ret = Len(s)
      /\ s \in Seq(Chars) /\ Len(s) < Size
      /\ r.mem[Size] = mem[Size] /\ r.mem[-1] = mem[-1]
  BY <1>2, AppendStores
<1> HIDE DEF r, s
<1> QED BY <1>1, <1>3 DEF StrInv

(* memset. *)
LEMMA ClearInv ==
    ASSUME StrInv, NEW len \in 1 .. Size, Clear(len)
    PROVE  StrInv'
<1> DEFINE z == [i \in 0 .. len - 1 |-> 0]
           m == MemCpy(mem, 0, z, len)
<1>0. Size \in Nat \ {0} /\ mem \in Memory
  BY StringAssumption DEF StrInv
<1>1. m = [i \in -1 .. Size |-> IF i \in 0 .. len - 1 THEN 0 ELSE mem[i]]
  <2>1. 0 + len - 1 = len - 1
    OBVIOUS
  <2>2. m = [i \in -1 .. Size |-> IF i \in 0 .. len - 1 THEN z[i - 0] ELSE mem[i]]
    BY <1>0, <2>1 DEF MemCpy, Memory
  <2>3. \A i \in 0 .. len - 1 : z[i - 0] = 0
    OBVIOUS
  <2> HIDE DEF z, m
  <2> QED BY <2>2, <2>3
<1>2. mem' = m /\ text' = <<>> /\ call' = "memset"
  BY DEF Clear
<1> HIDE DEF m
<1>3. m \in Memory /\ m[0] = 0 /\ m[Size] = mem[Size] /\ m[-1] = mem[-1]
  BY <1>0, <1>1 DEF Memory
<1>4. text' \in Seq(Chars) /\ Len(text') = 0
  BY <1>2
<1>5. Stored(mem', text') /\ Len(text') < Size
  BY <1>0, <1>2, <1>3, <1>4 DEF Stored
<1> QED BY <1>2, <1>3, <1>4, <1>5 DEF StrInv

(* Every call keeps the invariant. *)
LEMMA StrInvStep == StrInv /\ [StrNext]_strVars => StrInv'
<1> SUFFICES ASSUME StrInv, [StrNext]_strVars PROVE StrInv'
  OBVIOUS
<1>1. CASE Vsnprintf \/ UNCHANGED strVars
  BY <1>1 DEF Vsnprintf, strVars, StrInv, Stored
<1>2. ASSUME NEW s \in Sources, NEW n \in 1 .. Size, CopyString(s, n) PROVE StrInv'
  BY <1>2, CopyStringInv
<1>3. ASSUME NEW s \in Sources, NEW n \in 1 .. Size, AppendString(s, n) PROVE StrInv'
  BY <1>3, AppendStringInv
<1>4. ASSUME NEW n \in 1 .. Size, Clear(n) PROVE StrInv'
  BY <1>4, ClearInv
<1> QED BY <1>1, <1>2, <1>3, <1>4 DEF StrNext

(* It says what the callers rely on. *)
LEMMA StrInvSound == StrInv => StringsSound
<1> SUFFICES ASSUME StrInv PROVE StringsSound
  OBVIOUS
<1>1. /\ mem[Size] = Foreign /\ mem[-1] = Foreign
      /\ text \in Seq(Chars) /\ Len(text) < Size /\ Stored(mem, text)
      /\ call \in {"strlcpy", "strlcat"} => ret = Len(text)
  BY DEF StrInv
<1>2. Size \in Nat /\ Len(text) \in Nat
  BY <1>1, StringAssumption
<1>3. /\ StrNLen(mem, 0, Size) = Len(text)
      /\ \A i \in 1 .. Len(text) : mem[i - 1] = text[i]
  <2>1. StrNLen(mem, 0, Size) = IF Size < Len(text) THEN Size ELSE Len(text)
    BY <1>1, <1>2, StrNLenStored
  <2> QED BY <1>1, <1>2, <2>1 DEF Stored
<1>4. ASSUME NEW s \in Sources, NEW n \in 1 .. Size
      PROVE  /\ Sign(StrNCmp(mem, CStr(s), n)) = Order(Cut(text, n), Cut(s, n))
             /\ Sign(StrNCmp(CStr(s), mem, n)) = Order(Cut(s, n), Cut(text, n))
  <2>1. s \in Seq(Chars) /\ n \in Nat
    BY <1>2, StringAssumption
  <2>2. Stored(CStr(s), s)
    BY <2>1, CStrStored
  <2> QED BY <1>1, <2>1, <2>2, StrNCmpOrders
<1> QED BY <1>1, <1>3, <1>4 DEF StringsSound

(* For every buffer and every set of source strings: whatever sequence of  *)
(* strlcpy, strlcat, memset and vsnprintf runs, the buffer holds the text  *)
(* cut to the room given, terminated inside it, the bytes beside it stay   *)
(* untouched, strlcpy and strlcat return the length of what is stored, and *)
(* strncmp orders it by the dictionary.                                    *)
THEOREM StringsCorrect == StrSpec => []StringsSound
<1>1. StrInit => StrInv
  BY StrInitInv
<1>2. StrInv /\ [StrNext]_strVars => StrInv'
  BY StrInvStep
<1>3. StrInv => StringsSound
  BY StrInvSound
<1> QED BY <1>1, <1>2, <1>3, PTL DEF StrSpec

----------------------------------------------------------------------------
(* The timer wraps at most once in what a delay looks at. *)
LEMMA WrapsOnce ==
    ASSUME NEW w \in Nat \ {0}, NEW x \in Int
    PROVE  /\ x \in 0 .. w - 1 => x % w = x
           /\ x \in w .. 2 * w - 1 => x % w = x - w
           /\ x \in -w .. -1 => x % w = x + w
<1>1. x \in 0 .. w - 1 => x % w = x
  OBVIOUS
<1>2. x \in w .. 2 * w - 1 => x % w = x - w
  OBVIOUS
<1>3. x \in -w .. -1 => x % w = x + w
  OBVIOUS
<1> QED BY <1>1, <1>2, <1>3

(* A delay of no more than ticks <= Word - MaxJump ends no earlier than it *)
(* was asked to and no later than the first look after that, and nothing   *)
(* that delay_ticks creates outlives it: the safe half of DelayEndsInTime  *)
(* (delay.c:19-46), and the half that a wrap of the timer endangers.       *)
DelayOnTime ==
    /\ pc # "spin" /\ ticks <= Word - MaxJump =>
         /\ elapsed \in ticks .. ticks + MaxJump
         /\ due < Word => elapsed >= due
    /\ pc \in {"idle", "spin"} => held = {}

(* Between two looks the timer is start + elapsed, modulo Word, and the    *)
(* delay has not run out.                                                  *)
DelayInv ==
    /\ timer \in 0 .. Word - 1 /\ start \in 0 .. Word - 1
    /\ ticks \in Nat /\ due \in Nat /\ elapsed \in Nat
    /\ due < Word => due <= ticks
    /\ pc = "spin" /\ ticks <= Word - MaxJump =>
         /\ elapsed = 0 \/ elapsed < ticks
         /\ timer = IF start + elapsed < Word THEN start + elapsed
                    ELSE (start + elapsed) - Word
    /\ pc \in {"idle", "spin", "queue", "timer", "receive"}
    /\ held = CASE pc = "timer" -> {"queue"} [] pc = "receive" -> {"queue", "timer"}
                [] OTHER -> {}
    /\ DelayOnTime

(* usec_to_timer_ticks gives at least the ticks asked for, if a word holds *)
(* them.                                                                   *)
LEMMA TicksEnough ==
    ASSUME NEW u \in Nat
    PROVE  LET asked == (TimerFrequency * u) \div Second
           IN  /\ asked \in Nat /\ usec_to_timer_ticks(u) \in Nat
               /\ asked < Word => asked <= usec_to_timer_ticks(u)
<1> DEFINE asked == (TimerFrequency * u) \div Second
<1>1. \A n, d \in Nat : n * d \in Nat
  OBVIOUS
<1>2. \A n, d \in Nat : d # 0 => n \div d \in Nat
  OBVIOUS
<1>3. asked \in Nat
  BY <1>1, <1>2, DelayAssumption
<1>4. usec_to_timer_ticks(u)
        = IF asked >= Word THEN Word - 1
          ELSE IF u > 0 /\ asked = 0 THEN 1 ELSE asked
  BY Zenon DEF usec_to_timer_ticks
<1> HIDE DEF asked
<1>5. /\ usec_to_timer_ticks(u) \in Nat
      /\ asked < Word => asked <= usec_to_timer_ticks(u)
  BY <1>3, <1>4, DelayAssumption
<1> QED BY <1>3, <1>5 DEF asked

(* A look at the timer. *)
LEMMA LookStep ==
    ASSUME DelayInv, NEW j \in 0 .. MaxJump, Look(j)
    PROVE  DelayInv'
<1>0. /\ Word \in Nat \ {0} /\ MaxJump \in Nat /\ MaxJump < Word
      /\ MaxElapsed \in Nat /\ Word <= MaxElapsed
  BY DelayAssumption
<1>1. /\ pc = "spin" /\ timer' = (timer + j) % Word
      /\ elapsed' = IF elapsed + j < MaxElapsed THEN elapsed + j ELSE MaxElapsed
      /\ pc' = IF (timer' - start) % Word < ticks THEN "spin" ELSE "idle"
      /\ start' = start /\ ticks' = ticks /\ due' = due /\ held' = held
  BY DEF Look
<1>2. /\ timer \in 0 .. Word - 1 /\ start \in 0 .. Word - 1
      /\ ticks \in Nat /\ due \in Nat /\ elapsed \in Nat /\ (due < Word => due <= ticks)
      /\ held = {}
  BY <1>1 DEF DelayInv
<1>3. timer' \in 0 .. Word - 1 /\ elapsed' \in Nat
  BY <1>0, <1>1, <1>2
<1>4. ASSUME ticks <= Word - MaxJump
      PROVE  /\ elapsed' = elapsed + j /\ elapsed' < Word /\ elapsed' <= ticks + MaxJump
             /\ timer' = IF start + elapsed' < Word THEN start + elapsed'
                         ELSE (start + elapsed') - Word
             /\ (timer' - start) % Word = elapsed'
  <2>1. /\ elapsed = 0 \/ elapsed < ticks
        /\ timer = IF start + elapsed < Word THEN start + elapsed
                   ELSE (start + elapsed) - Word
    BY <1>1, <1>4 DEF DelayInv
  <2>2. elapsed' = elapsed + j /\ elapsed' < Word /\ elapsed' <= ticks + MaxJump
    BY <1>0, <1>1, <1>2, <1>4, <2>1
  <2>3. timer' = IF timer + j < Word THEN timer + j ELSE (timer + j) - Word
    <3> DEFINE x == timer + j
    <3>1. x \in Int /\ x \in 0 .. 2 * Word - 1 /\ timer' = x % Word
      BY <1>0, <1>1, <1>2
    <3> HIDE DEF x
    <3>2. CASE x \in 0 .. Word - 1
      <4>1. x % Word = x
        BY <1>0, <3>1, <3>2, WrapsOnce
      <4>2. x < Word
        BY <1>0, <3>2
      <4> QED BY <3>1, <4>1, <4>2, Zenon DEF x
    <3>3. CASE x \in Word .. 2 * Word - 1
      <4>1. x % Word = x - Word
        BY <1>0, <3>1, <3>3, WrapsOnce
      <4>2. ~(x < Word)
        BY <1>0, <3>3
      <4> QED BY <3>1, <4>1, <4>2, Zenon DEF x
    <3> QED BY <1>0, <3>1, <3>2, <3>3
  <2>4. timer' = IF start + elapsed' < Word THEN start + elapsed'
                 ELSE (start + elapsed') - Word
    BY <1>0, <1>2, <2>1, <2>2, <2>3
  <2>5. (timer' - start) % Word = elapsed'
    <3>1. timer' - start = elapsed' \/ timer' - start = elapsed' - Word
      BY <1>0, <1>2, <1>3, <2>2, <2>4
    <3>2. elapsed' \in 0 .. Word - 1 /\ elapsed' - Word \in -Word .. -1
          /\ elapsed' \in Int /\ elapsed' - Word \in Int
      BY <1>0, <1>3, <2>2
    <3>3. elapsed' % Word = elapsed' /\ (elapsed' - Word) % Word = (elapsed' - Word) + Word
      BY <1>0, <3>2, WrapsOnce
    <3> QED BY <1>0, <1>3, <3>1, <3>3
  <2> QED BY <2>2, <2>4, <2>5
<1>5. DelayOnTime'
  <2>1. CASE ticks <= Word - MaxJump
    <3>1. pc' # "spin" => ~(elapsed' < ticks)
      BY <1>1, <1>4, <2>1
    <3> QED BY <1>0, <1>1, <1>2, <1>3, <1>4, <2>1, <3>1 DEF DelayOnTime
  <2>2. CASE ~(ticks <= Word - MaxJump)
    BY <1>1, <1>2, <2>2 DEF DelayOnTime
  <2> QED BY <2>1, <2>2
<1>6. ASSUME pc' = "spin", ticks <= Word - MaxJump
      PROVE  elapsed' < ticks
  BY <1>1, <1>4, <1>6
<1>7. pc' \in {"spin", "idle"}
  BY <1>1
<1> QED BY <1>1, <1>2, <1>3, <1>4, <1>5, <1>6, <1>7 DEF DelayInv

(* DelayInv is inductive. *)
LEMMA DelayInvStep == DelayInv /\ [DelayNext]_delayVars => DelayInv'
<1> SUFFICES ASSUME DelayInv, [DelayNext]_delayVars PROVE DelayInv'
  OBVIOUS
<1>0. Word \in Nat \ {0} /\ MaxJump \in Nat /\ Delays \subseteq Nat
  BY DelayAssumption
<1>1. ASSUME NEW u \in Delays, Udelay(u) PROVE DelayInv'
  <2>1. /\ usec_to_timer_ticks(u) \in Nat /\ (TimerFrequency * u) \div Second \in Nat
        /\ (TimerFrequency * u) \div Second < Word
             => (TimerFrequency * u) \div Second <= usec_to_timer_ticks(u)
    BY <1>0, TicksEnough
  <2>2. /\ pc = "idle" /\ pc' = "spin" /\ start' = timer /\ timer' = timer
        /\ ticks' = usec_to_timer_ticks(u) /\ elapsed' = 0
        /\ due' = (TimerFrequency * u) \div Second /\ held' = held
    BY <1>1 DEF Udelay
  <2> QED BY <1>0, <2>1, <2>2 DEF DelayInv, DelayOnTime
<1>2. ASSUME NEW j \in 0 .. MaxJump, Look(j) PROVE DelayInv'
  BY <1>2, LookStep
<1>3. CASE DelayTicks
  BY <1>3 DEF DelayTicks, DelayInv, DelayOnTime
<1>4. CASE CreateMessageQueue
  BY <1>4 DEF CreateMessageQueue, DelayInv, DelayOnTime
<1>5. CASE CreateTimer
  BY <1>5 DEF CreateTimer, DelayInv, DelayOnTime
<1>6. CASE Fire
  BY <1>6 DEF Fire, DelayInv, DelayOnTime
<1>7. CASE ReceiveMessage
  BY <1>7 DEF ReceiveMessage, DelayInv, DelayOnTime
<1>8. CASE UNCHANGED delayVars
  BY <1>8 DEF delayVars, DelayInv, DelayOnTime
<1> QED BY <1>1, <1>2, <1>3, <1>4, <1>5, <1>6, <1>7, <1>8
     DEF DelayNext, Working, UdelayRealtime

(* No delay ends early, across a wrap of the timer too, for every width of *)
(* the timer, every frequency and every number of microseconds.            *)
THEOREM DelayCorrect == DelaySpec => []DelayOnTime
<1>1. DelayInit => DelayInv
  BY DelayAssumption DEF DelayInit, DelayInv, DelayOnTime
<1>2. DelayInv => DelayOnTime
  BY DEF DelayInv
<1> QED BY <1>1, <1>2, DelayInvStep, PTL DEF DelaySpec
============================================================================
