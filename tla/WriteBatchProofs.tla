--------------------------- MODULE WriteBatchProofs ---------------------------
(***************************************************************************)
(* For any base of the varints, any operations, any cut of the batch:      *)
(* the iterator delivers what was queued.                                  *)
(***************************************************************************)
EXTENDS WriteBatch, DataInduction, SequenceTheorems

-----------------------------------------------------------------------------
(* Arithmetic. *)

LEMMA DivMod ==
  ASSUME NEW a \in Nat, NEW b \in Nat \ {0}
  PROVE  /\ a \div b \in Nat /\ a % b \in Nat /\ a % b < b
         /\ a = b * (a \div b) + (a % b)
OBVIOUS

LEMMA DivUnique ==
  ASSUME NEW a \in Nat, NEW b \in Nat \ {0}, NEW q \in Nat, NEW r \in Nat, r < b, a = b * q + r
  PROVE  a \div b = q /\ a % b = r
OBVIOUS

LEMMA Product ==
  ASSUME NEW a \in Nat, NEW b \in Nat, NEW c \in Nat
  PROVE  /\ a * b \in Nat /\ a * b = b * a
         /\ a * (b * c) = (a * b) * c /\ a * (b + c) = a * b + a * c
OBVIOUS

LEMMA Monotone ==
  ASSUME NEW a \in Nat, NEW b \in Nat, NEW c \in Nat, a <= b
  PROVE  c * a <= c * b
OBVIOUS

\* Digit by digit: dividing by p and then by b is dividing by b * p.
LEMMA DivDiv ==
  ASSUME NEW v \in Nat, NEW p \in Nat \ {0}, NEW b \in Nat \ {0}
  PROVE  v \div (b * p) = (v \div p) \div b
<1> DEFINE q == v \div p
<1> DEFINE r == v % p
<1> DEFINE h == q \div b
<1> DEFINE g == q % b
<1>1. q \in Nat /\ r \in Nat /\ r < p /\ v = p * q + r
  BY DivMod
<1> HIDE DEF q, r
<1>2. h \in Nat /\ g \in Nat /\ g < b /\ q = b * h + g
  BY <1>1, DivMod
<1> HIDE DEF h, g
<1>3. p * q = (b * p) * h + p * g
  <2>1. p * q = p * (b * h) + p * g
    BY <1>2
  <2>2. p * (b * h) = (b * p) * h
    BY <1>2
  <2>3. QED
    BY <2>1, <2>2
<1>4. p * g + r < b * p
  <2>1. g <= b - 1 /\ b - 1 \in Nat
    BY <1>2
  <2>2. p * g <= p * (b - 1)
    BY <1>2, <2>1, Monotone
  <2>3. p * (b - 1) = p * b - p
    OBVIOUS
  <2>4. p * g \in Nat /\ p * b \in Nat /\ b * p = p * b
    BY <1>2
  <2>5. QED
    BY <1>1, <2>2, <2>3, <2>4
<1>5. b * p \in Nat \ {0} /\ p * g + r \in Nat
  BY <1>1, <1>2
<1>6. v = (b * p) * h + (p * g + r)
  <2>1. (b * p) * h \in Nat /\ p * g \in Nat
    BY <1>2
  <2>2. QED
    BY <1>1, <1>3, <2>1
<1>7. v \div (b * p) = h
  BY <1>2, <1>4, <1>5, <1>6, DivUnique
<1>8. QED
  BY <1>7 DEF h, q

-----------------------------------------------------------------------------
(* Powers of the base. *)

IsPower(f, n) == f = [i \in 0..n |-> IF i = 0 THEN 1 ELSE Base * f[i-1]]

LEMMA PowerExists == \A n \in Nat : \E f : IsPower(f, n)
<1> DEFINE T == {n \in Nat : \E f : IsPower(f, n)}
<1>1. 0 \in T
  <2>1. IsPower([i \in 0..0 |-> 1], 0)
    BY DEF IsPower
  <2>2. QED
    BY <2>1
<1>2. ASSUME NEW n \in Nat, n \in T PROVE n + 1 \in T
  <2>1. PICK f : IsPower(f, n)
    BY <1>2
  <2> DEFINE g == [i \in 0..n + 1 |-> IF i = n + 1 THEN Base * f[n] ELSE f[i]]
  <2>2. \A i \in 0..n : f[i] = IF i = 0 THEN 1 ELSE Base * f[i-1]
    BY <2>1 DEF IsPower
  <2>3. \A i \in 0..n + 1 : g[i] = IF i = 0 THEN 1 ELSE Base * g[i-1]
    BY <2>2
  <2>4. IsPower(g, n + 1)
    BY <2>3 DEF IsPower
  <2>5. QED
    BY <2>4
<1>3. QED
  BY <1>1, <1>2, SetInduction

LEMMA PowerDef ==
  ASSUME NEW n \in Nat
  PROVE  \E f : IsPower(f, n) /\ Power(n) = f[n]
<1>1. \E f : IsPower(f, n)
  BY PowerExists
<1> DEFINE f == CHOOSE f : IsPower(f, n)
<1>2. IsPower(f, n)
  BY <1>1
<1>3. Power(n) = f[n]
  BY DEF Power, IsPower
<1>4. QED
  BY <1>2, <1>3

LEMMA PowerUnique ==
  ASSUME NEW m \in Nat, NEW n \in Nat, m <= n,
         NEW f, IsPower(f, m), NEW g, IsPower(g, n)
  PROVE  f[m] = g[m]
<1> DEFINE T == {i \in Nat : i \in 0..m => f[i] = g[i]}
<1>1. /\ \A i \in 0..m : f[i] = IF i = 0 THEN 1 ELSE Base * f[i-1]
      /\ \A i \in 0..n : g[i] = IF i = 0 THEN 1 ELSE Base * g[i-1]
  BY DEF IsPower
<1>2. 0 \in T
  BY <1>1
<1>3. ASSUME NEW i \in Nat, i \in T PROVE i + 1 \in T
  <2> SUFFICES ASSUME i + 1 \in 0..m PROVE f[i + 1] = g[i + 1]
    OBVIOUS
  <2>1. i \in 0..m /\ i + 1 \in 0..n /\ i + 1 # 0 /\ (i + 1) - 1 = i /\ f[i] = g[i]
    BY <1>3
  <2>2. QED
    BY <1>1, <2>1
<1> HIDE DEF T
<1>4. Nat \subseteq T /\ m \in 0..m
  BY <1>2, <1>3, SetInduction
<1>5. m \in T /\ m \in 0..m
  BY <1>4
<1>6. QED
  BY <1>5, Zenon DEF T

LEMMA PowerZero == Power(0) = 1
<1>1. PICK f : IsPower(f, 0) /\ Power(0) = f[0]
  BY PowerDef
<1>2. QED
  BY <1>1 DEF IsPower

LEMMA PowerStep ==
  ASSUME NEW n \in Nat
  PROVE  Power(n + 1) = Base * Power(n)
<1> DEFINE m == n + 1
<1>1. m \in Nat /\ n <= m /\ m \in 0..m /\ m # 0 /\ m - 1 = n
  OBVIOUS
<1> HIDE DEF m
<1>2. PICK f : IsPower(f, n) /\ Power(n) = f[n]
  BY PowerDef
<1>3. PICK g : IsPower(g, m) /\ Power(m) = g[m]
  BY <1>1, PowerDef
<1>4. f[n] = g[n]
  BY <1>1, <1>2, <1>3, PowerUnique
<1>5. \A i \in 0..m : g[i] = IF i = 0 THEN 1 ELSE Base * g[i-1]
  BY <1>3 DEF IsPower
<1>6. g[m] = Base * g[n]
  BY <1>1, <1>5
<1>7. QED
  BY <1>2, <1>3, <1>4, <1>6 DEF m

LEMMA PowerType == \A n \in Nat : Power(n) \in Nat \ {0}
<1> DEFINE T == {n \in Nat : Power(n) \in Nat \ {0}}
<1>1. 0 \in T
  BY PowerZero
<1>2. ASSUME NEW n \in Nat, n \in T PROVE n + 1 \in T
  <2>1. Power(n + 1) = Base * Power(n) /\ Base \in Nat \ {0} /\ Power(n) \in Nat \ {0}
    BY <1>2, PowerStep, CodecAssumption
  <2>2. Power(n + 1) \in Nat \ {0}
    BY <2>1
  <2>3. QED
    BY <2>2
<1>3. QED
  BY <1>1, <1>2, SetInduction

LEMMA PowerMonotone ==
  ASSUME NEW m \in Nat, NEW n \in Nat, m <= n
  PROVE  Power(m) <= Power(n)
<1> DEFINE T == {d \in Nat : Power(m) <= Power(m + d)}
<1>1. 0 \in T
  BY PowerType
<1>2. ASSUME NEW d \in Nat, d \in T PROVE d + 1 \in T
  <2> DEFINE k == m + d
  <2>1. k \in Nat /\ m + (d + 1) = k + 1 /\ Power(m) <= Power(k)
    BY <1>2
  <2> HIDE DEF k
  <2>2. Power(k + 1) = Base * Power(k) /\ Power(k) \in Nat \ {0} /\ Power(m) \in Nat \ {0}
    BY <2>1, PowerStep, PowerType
  <2>3. Base \in Nat /\ 1 <= Base
    BY CodecAssumption
  <2>4. Power(k) * 1 <= Power(k) * Base
    BY <2>2, <2>3, Monotone
  <2>5. Power(m) <= Power(k + 1)
    BY <2>1, <2>2, <2>3, <2>4
  <2>6. QED
    BY <2>1, <2>5
<1> HIDE DEF T
<1>3. n - m \in Nat /\ m + (n - m) = n
  OBVIOUS
<1>4. n - m \in T
  BY <1>1, <1>2, <1>3, SetInduction
<1>5. Power(m) <= Power(m + (n - m))
  BY <1>4 DEF T
<1>6. QED
  BY <1>3, <1>5

-----------------------------------------------------------------------------
(* Varints. *)

LEMMA WordIs ==
  /\ MaxVarintLen - 1 \in Nat /\ Word \in Nat \ {0}
  /\ Word = 2 * Power(MaxVarintLen - 1) /\ Word \div 2 = Power(MaxVarintLen - 1)
  /\ Word <= Power(MaxVarintLen)
<1> DEFINE p == Power(MaxVarintLen - 1)
<1>1. MaxVarintLen - 1 \in Nat /\ (MaxVarintLen - 1) + 1 = MaxVarintLen
  BY CodecAssumption
<1>2. p \in Nat \ {0}
  BY <1>1, PowerType
<1>3. Power(MaxVarintLen) = Base * p
  BY <1>1, PowerStep
<1> HIDE DEF p
<1>4. p * 2 <= p * Base /\ p * Base = Base * p
  BY <1>2, CodecAssumption, Monotone
<1>5. Word = 2 * p
  BY DEF Word, p
<1>6. Word \div 2 = p
  BY <1>2, <1>5
<1>7. QED
  BY <1>1, <1>2, <1>3, <1>4, <1>5, <1>6 DEF p

LEMMA ByteIs ==
  ASSUME NEW d \in Seq(Byte), NEW i \in 1..Len(d)
  PROVE  d[i] \in Byte /\ d[i] \in Nat
<1>1. d[i] \in Byte
  OBVIOUS
<1>2. Byte \subseteq Nat
  BY CodecAssumption DEF Byte
<1>3. QED
  BY <1>1, <1>2

LEMMA DigitsIs ==
  ASSUME NEW v \in 0..Word - 1
  PROVE  Digits(v) \in 1..MaxVarintLen /\ v < Power(Digits(v))
<1> DEFINE U == {n \in 1..MaxVarintLen : v < Power(n)}
<1>1. MaxVarintLen \in U
  <2>1. Power(MaxVarintLen) \in Nat /\ MaxVarintLen \in 1..MaxVarintLen
    BY CodecAssumption, PowerType
  <2>2. QED
    BY <2>1, WordIs
<1>2. U \subseteq Nat
  OBVIOUS
<1>3. PICK n \in U : \A m \in U : n <= m
  BY <1>1, <1>2, MinExists
<1>4. n \in 1..MaxVarintLen /\ v < Power(n)
  OBVIOUS
<1>5. n > 1 => v >= Power(n - 1)
  <2> SUFFICES ASSUME n > 1 PROVE v >= Power(n - 1)
    OBVIOUS
  <2>1. n - 1 \in 1..MaxVarintLen /\ ~ (n <= n - 1)
    BY <1>4, CodecAssumption
  <2>2. n - 1 \notin U
    BY <1>3, <2>1
  <2>3. ~ (v < Power(n - 1)) /\ Power(n - 1) \in Nat
    BY <2>1, <2>2, PowerType
  <2>4. QED
    BY <2>3, WordIs
<1> HIDE DEF U
<1>6. \E m \in 1..MaxVarintLen : v < Power(m) /\ (m > 1 => v >= Power(m - 1))
  BY <1>4, <1>5
<1>7. QED
  BY <1>6 DEF Digits

\* Every digit but the last has the continuation bit; the last of as many as
\* there may be is 0 or 1.
LEMMA VarintIs ==
  ASSUME NEW v \in 0..Word - 1
  PROVE  LET w == Varint(v)
             n == Digits(v)
         IN  /\ w \in Seq(Byte) /\ Len(w) = n
             /\ \A i \in 1..n : /\ w[i] % Base = (v \div Power(i - 1)) % Base
                                /\ i < n => w[i] >= Base
             /\ w[n] < Base
             /\ n = MaxVarintLen => w[n] <= 1
<1> DEFINE w == Varint(v)
<1> DEFINE n == Digits(v)
<1> DEFINE digit(i) == (v \div Power(i - 1)) % Base
<1>1. n \in 1..MaxVarintLen /\ n \in Nat /\ v < Power(n) /\ Base \in Nat \ {0} /\ v \in Nat
  BY DigitsIs, CodecAssumption, WordIs
<1>2. \A i \in 1..n : digit(i) \in Nat /\ digit(i) < Base
  <2> SUFFICES ASSUME NEW i \in 1..n PROVE digit(i) \in Nat /\ digit(i) < Base
    OBVIOUS
  <2>1. i - 1 \in Nat
    OBVIOUS
  <2>2. Power(i - 1) \in Nat \ {0}
    BY <2>1, PowerType
  <2>3. v \div Power(i - 1) \in Nat
    BY <1>1, <2>2, DivMod
  <2>4. QED
    BY <1>1, <2>3, DivMod
<1>3. w = [i \in 1..n |-> digit(i) + (IF i < n THEN Base ELSE 0)]
  BY DEF Varint
<1> HIDE DEF w, n, digit
<1>4. \A i \in 1..n : w[i] = digit(i) + (IF i < n THEN Base ELSE 0)
  BY <1>3
<1>5. \A i \in 1..n : w[i] \in Byte
  BY <1>1, <1>2, <1>4 DEF Byte
<1>6. w \in Seq(Byte) /\ Len(w) = n
  BY <1>1, <1>3, <1>5
<1>7. ASSUME NEW i \in 1..n PROVE w[i] % Base = digit(i) /\ (i < n => w[i] >= Base)
  <2>1. digit(i) \in Nat /\ digit(i) < Base
    BY <1>2
  <2>2. CASE i < n
    <3>1. w[i] = Base * 1 + digit(i) /\ w[i] \in Nat
      BY <1>1, <1>4, <2>1, <2>2
    <3>2. w[i] % Base = digit(i)
      BY <1>1, <2>1, <3>1, DivUnique
    <3>3. QED
      BY <1>1, <2>1, <3>1, <3>2
  <2>3. CASE ~ (i < n)
    <3>1. w[i] = Base * 0 + digit(i) /\ w[i] \in Nat
      BY <1>1, <1>4, <2>1, <2>3
    <3>2. QED
      BY <1>1, <2>1, <2>3, <3>1, DivUnique
  <2>4. QED
    BY <2>2, <2>3
<1>8. n \in 1..n /\ w[n] = digit(n) /\ w[n] \in Nat /\ w[n] < Base
  BY <1>1, <1>2, <1>4
<1>9. ASSUME n = MaxVarintLen PROVE w[n] <= 1
  <2> DEFINE p == Power(n - 1)
  <2> DEFINE q == v \div p
  <2>1. p \in Nat \ {0} /\ v < 2 * p
    BY <1>9, WordIs, PowerType
  <2> HIDE DEF p
  <2>2. q \in Nat /\ v % p \in Nat /\ v = p * q + (v % p)
    BY <1>1, <2>1, DivMod
  <2> HIDE DEF q
  <2>3. q <= 1
    <3> SUFFICES ASSUME 2 <= q PROVE FALSE
      BY <2>2
    <3>1. p * 2 <= p * q /\ p * q \in Nat
      BY <2>1, <2>2, Monotone
    <3>2. QED
      BY <1>1, <2>1, <2>2, <3>1
  <2>4. q = Base * 0 + q /\ q < Base
    BY <2>2, <2>3, CodecAssumption
  <2>5. q % Base = q
    BY <1>1, <2>2, <2>4, DivUnique
  <2>6. QED
    BY <1>8, <2>3, <2>5 DEF digit, q, p
<1>10. QED
  BY <1>6, <1>7, <1>8, <1>9 DEF w, n, digit

IsSum(f, d, m) ==
  f = [i \in 0..m |-> IF i = 0 THEN 0 ELSE f[i-1] + ((d[i] % Base) * Power(i - 1))]

LEMMA SumExists ==
  ASSUME NEW d
  PROVE  \A m \in Nat : \E f : IsSum(f, d, m)
<1> DEFINE T == {m \in Nat : \E f : IsSum(f, d, m)}
<1>1. 0 \in T
  <2>1. IsSum([i \in 0..0 |-> 0], d, 0)
    BY DEF IsSum
  <2>2. QED
    BY <2>1
<1>2. ASSUME NEW m \in Nat, m \in T PROVE m + 1 \in T
  <2>1. PICK f : IsSum(f, d, m)
    BY <1>2
  <2> DEFINE g == [i \in 0..m + 1 |-> IF i = m + 1 THEN f[m] + ((d[i] % Base) * Power(i - 1)) ELSE f[i]]
  <2>2. \A i \in 0..m : f[i] = IF i = 0 THEN 0 ELSE f[i-1] + ((d[i] % Base) * Power(i - 1))
    BY <2>1 DEF IsSum
  <2>3. \A i \in 0..m + 1 : g[i] = IF i = 0 THEN 0 ELSE g[i-1] + ((d[i] % Base) * Power(i - 1))
    BY <2>2
  <2>4. IsSum(g, d, m + 1)
    BY <2>3 DEF IsSum
  <2>5. QED
    BY <2>4
<1>3. QED
  BY <1>1, <1>2, SetInduction

LEMMA DigitsValueDef ==
  ASSUME NEW d, Len(d) \in Nat
  PROVE  \E f : IsSum(f, d, Len(d)) /\ DigitsValue(d) = f[Len(d)]
<1>1. \E f : IsSum(f, d, Len(d))
  BY SumExists
<1> DEFINE f == CHOOSE f : IsSum(f, d, Len(d))
<1>2. IsSum(f, d, Len(d))
  BY <1>1
<1>3. DigitsValue(d) = f[Len(d)]
  BY DEF DigitsValue, IsSum
<1>4. QED
  BY <1>2, <1>3

LEMMA SumStep ==
  ASSUME NEW d, NEW m \in Nat, NEW f, IsSum(f, d, m), NEW i \in 0..m
  PROVE  f[i] = IF i = 0 THEN 0 ELSE f[i-1] + ((d[i] % Base) * Power(i - 1))
  BY DEF IsSum

\* The digits of v make v.
LEMMA DigitsMakeValue ==
  ASSUME NEW v \in Nat, NEW d \in Seq(Byte), v < Power(Len(d)),
         \A i \in 1..Len(d) : d[i] % Base = (v \div Power(i - 1)) % Base
  PROVE  DigitsValue(d) = v
<1> DEFINE n == Len(d)
<1>1. n \in Nat /\ Base \in Nat \ {0}
  BY CodecAssumption
<1>2. PICK f : IsSum(f, d, n) /\ DigitsValue(d) = f[n]
  BY <1>1, DigitsValueDef
<1>3. \A i \in 1..n : d[i] % Base = (v \div Power(i - 1)) % Base
  OBVIOUS
<1>4. v < Power(n)
  OBVIOUS
<1> HIDE DEF n
<1> DEFINE T == {i \in Nat : i \in 0..n => f[i] \in Nat /\ v = f[i] + Power(i) * (v \div Power(i))}
<1>5. 0 \in T
  <2>1. f[0] = 0
    BY <1>1, <1>2, SumStep
  <2>2. Power(0) = 1 /\ v = 1 * v + 0 /\ v \div 1 = v
    BY PowerZero
  <2>3. QED
    BY <2>1, <2>2
<1>6. ASSUME NEW j \in Nat, j \in T PROVE j + 1 \in T
  <2> SUFFICES ASSUME j + 1 \in 0..n
               PROVE f[j + 1] \in Nat /\ v = f[j + 1] + Power(j + 1) * (v \div Power(j + 1))
    OBVIOUS
  <2> DEFINE i == j + 1
  <2> DEFINE p == Power(j)
  <2> DEFINE q == v \div p
  <2> DEFINE h == q \div Base
  <2> DEFINE g == q % Base
  <2>1. i \in 0..n /\ i \in 1..n /\ i # 0 /\ i - 1 = j /\ j \in 0..n
    BY <1>1
  <2>12. f[j] \in Nat /\ v = f[j] + p * q
    BY <1>6, <2>1, Zenon
  <2>2. p \in Nat \ {0} /\ Power(i) = Base * p
    BY PowerType, PowerStep
  <2>3. v \div Power(i) = h
    BY <1>1, <2>2, DivDiv
  <2>4. d[i] % Base = g
    BY <1>3, <2>1
  <2> HIDE DEF i
  <2>5. f[i] = f[j] + (g * p)
    BY <1>1, <1>2, <2>1, <2>4, SumStep
  <2> HIDE DEF p
  <2>6. q \in Nat
    BY <2>2, DivMod
  <2> HIDE DEF q
  <2>7. h \in Nat /\ g \in Nat /\ q = Base * h + g
    BY <1>1, <2>6, DivMod
  <2> HIDE DEF h, g
  <2>13. g * p \in Nat
    BY <2>2, <2>7, Product
  <2>8. f[i] \in Nat
    BY <2>12, <2>13, <2>5
  <2>9. p * q = (Base * p) * h + g * p
    <3>1. p * q = p * (Base * h) + p * g
      BY <2>2, <2>7, <1>1
    <3>2. p * (Base * h) = (Base * p) * h /\ p * g = g * p
      BY <2>2, <2>7, <1>1
    <3>3. QED
      BY <3>1, <3>2
  <2>10. v = f[i] + (Base * p) * h
    <3>1. (Base * p) * h \in Nat /\ g * p \in Nat
      BY <2>2, <2>7, <1>1
    <3>2. QED
      BY <2>12, <2>5, <2>9, <3>1
  <2>11. QED
    BY <2>2, <2>3, <2>8, <2>10 DEF i
<1> HIDE DEF T
<1>7. n \in T
  BY <1>1, <1>5, <1>6, SetInduction
<1>8. f[n] \in Nat /\ v = f[n] + Power(n) * (v \div Power(n))
  BY <1>1, <1>7 DEF T
<1>9. v \div Power(n) = 0
  <2>1. Power(n) \in Nat \ {0}
    BY <1>1, PowerType
  <2>2. v = Power(n) * 0 + v
    BY <2>1
  <2>3. QED
    BY <1>4, <2>1, <2>2, DivUnique
<1>10. Power(n) * 0 = 0
  BY <1>1, PowerType
<1>11. QED
  BY <1>2, <1>8, <1>9, <1>10

\* Any digits make a number below the power.
LEMMA DigitsBound ==
  ASSUME NEW d \in Seq(Byte)
  PROVE  /\ DigitsValue(d) \in Nat /\ DigitsValue(d) < Power(Len(d))
         /\ Len(d) # 0 /\ d[Len(d)] <= 1 => DigitsValue(d) < 2 * Power(Len(d) - 1)
<1> DEFINE n == Len(d)
<1>1. n \in Nat /\ Base \in Nat \ {0} /\ Base > 1
  BY CodecAssumption
<1>2. PICK f : IsSum(f, d, n) /\ DigitsValue(d) = f[n]
  BY <1>1, DigitsValueDef
<1>3. \A i \in 1..n : d[i] \in Nat
  BY ByteIs
<1> HIDE DEF n
<1> DEFINE T == {i \in Nat : i \in 0..n => f[i] \in Nat /\ f[i] < Power(i)}
<1>4. 0 \in T
  BY <1>1, <1>2, SumStep, PowerZero
<1>5. ASSUME NEW j \in Nat, j \in T PROVE j + 1 \in T
  <2> SUFFICES ASSUME j + 1 \in 0..n PROVE f[j + 1] \in Nat /\ f[j + 1] < Power(j + 1)
    OBVIOUS
  <2> DEFINE i == j + 1
  <2> DEFINE p == Power(j)
  <2> DEFINE g == d[i] % Base
  <2>1. i \in 0..n /\ i \in 1..n /\ i # 0 /\ i - 1 = j /\ j \in 0..n
    BY <1>1
  <2>12. f[j] \in Nat /\ f[j] < p
    BY <1>5, <2>1, Zenon
  <2>2. p \in Nat \ {0} /\ Power(i) = Base * p
    BY PowerType, PowerStep
  <2> HIDE DEF i
  <2>3. f[i] = f[j] + (g * p)
    BY <1>1, <1>2, <2>1, SumStep
  <2>4. g \in Nat /\ g < Base
    BY <1>1, <1>3, <2>1, DivMod
  <2> HIDE DEF p, g
  <2>5. f[i] \in Nat
    BY <2>12, <2>2, <2>3, <2>4
  <2>6. g <= Base - 1 /\ Base - 1 \in Nat
    BY <1>1, <2>4
  <2>7. p * g <= p * (Base - 1)
    BY <2>2, <2>4, <2>6, Monotone
  <2>8. p * (Base - 1) = p * Base - p /\ p * g = g * p /\ p * Base = Base * p
    BY <1>1, <2>2, <2>4
  <2>9. g * p \in Nat /\ Base * p \in Nat
    BY <1>1, <2>2, <2>4
  <2>10. f[i] < Base * p
    BY <2>12, <2>2, <2>3, <2>7, <2>8, <2>9
  <2>11. QED
    BY <2>2, <2>5, <2>10 DEF i
<1> HIDE DEF T
<1>6. Nat \subseteq T
  BY <1>4, <1>5, SetInduction
<1>7. f[n] \in Nat /\ f[n] < Power(n)
  <2>1. n \in T /\ n \in 0..n
    BY <1>1, <1>6
  <2>2. QED
    BY <2>1 DEF T
<1>8. ASSUME n # 0, d[n] <= 1 PROVE f[n] < 2 * Power(n - 1)
  <2> DEFINE m == n - 1
  <2> DEFINE p == Power(m)
  <2> DEFINE g == d[n] % Base
  <2>1. m \in Nat /\ m \in 0..n /\ n \in 0..n /\ n \in 1..n /\ m \in T
    BY <1>1, <1>6, <1>8
  <2>2. f[m] \in Nat /\ f[m] < p /\ p \in Nat \ {0}
    BY <2>1, PowerType DEF T
  <2>3. f[n] = f[m] + (g * p)
    BY <1>1, <1>2, <1>8, <2>1, SumStep
  <2>4. d[n] \in Nat /\ d[n] = Base * 0 + d[n] /\ d[n] < Base
    BY <1>1, <1>3, <1>8, <2>1
  <2>5. g = d[n] /\ (g = 0 \/ g = 1)
    BY <1>1, <1>8, <2>4, DivUnique
  <2> HIDE DEF p, g, m
  <2>6. g * p = 0 \/ g * p = p
    BY <2>2, <2>5
  <2>7. f[n] < 2 * p
    BY <2>2, <2>3, <2>6
  <2>8. QED
    BY <2>7 DEF p, m
<1>9. QED
  BY <1>2, <1>7, <1>8 DEF n

-----------------------------------------------------------------------------
(* Reading a varint. *)

Last_(d) == {i \in 1..Len(d) : i <= MaxVarintLen /\ d[i] < Base}

\* The end of the varint is the first byte without continuation bit.
LEMMA UvarintAt ==
  ASSUME NEW d, Len(d) \in Nat, NEW n \in Last_(d), \A i \in Last_(d) : n <= i
  PROVE  Uvarint(d) = IF n = MaxVarintLen /\ d[n] > 1 THEN [v |-> 0, n |-> -n]
                      ELSE [v |-> DigitsValue(SubSeq(d, 1, n)), n |-> n]
<1> DEFINE k == CHOOSE i \in Last_(d) : \A j \in Last_(d) : i <= j
<1>1. k \in Last_(d) /\ \A j \in Last_(d) : k <= j
  OBVIOUS
<1>2. k = n
  <2>1. k <= n /\ n <= k
    BY <1>1
  <2>2. Last_(d) \subseteq Nat
    BY DEF Last_
  <2> HIDE DEF k
  <2>3. k \in Nat /\ n \in Nat
    BY <1>1, <2>2
  <2>4. QED
    BY <2>1, <2>3
<1>3. Uvarint(d) = IF Last_(d) # {}
                   THEN IF k = MaxVarintLen /\ d[k] > 1 THEN [v |-> 0, n |-> -k]
                        ELSE [v |-> DigitsValue(SubSeq(d, 1, k)), n |-> k]
                   ELSE [v |-> 0, n |-> IF Len(d) > MaxVarintLen THEN -(MaxVarintLen + 1) ELSE 0]
  BY DEF Uvarint, Last_
<1> HIDE DEF k
<1>4. QED
  BY <1>2, <1>3

LEMMA UvarintNone ==
  ASSUME NEW d, Last_(d) = {}
  PROVE  Uvarint(d) = [v |-> 0, n |-> IF Len(d) > MaxVarintLen THEN -(MaxVarintLen + 1) ELSE 0]
  BY DEF Uvarint, Last_

\* What the decoder reads of any bytes.
LEMMA UvarintType ==
  ASSUME NEW d \in Seq(Byte)
  PROVE  Uvarint(d).v \in 0..Word - 1 /\ Uvarint(d).n \in Int /\ Uvarint(d).n <= Len(d)
<1>0. Word \in Nat \ {0} /\ MaxVarintLen \in Nat \ {0}
  BY WordIs, CodecAssumption
<1>1. CASE Last_(d) = {}
  <2>1. Uvarint(d) = [v |-> 0, n |-> IF Len(d) > MaxVarintLen THEN -(MaxVarintLen + 1) ELSE 0]
    BY <1>1, UvarintNone
  <2>2. QED
    BY <1>0, <2>1
<1>2. CASE Last_(d) # {}
  <2>1. Last_(d) \subseteq Nat
    BY DEF Last_
  <2>2. PICK n \in Last_(d) : \A i \in Last_(d) : n <= i
    BY <1>2, <2>1, MinExists
  <2>3. n \in 1..Len(d) /\ n <= MaxVarintLen /\ Len(d) \in Nat
    BY DEF Last_
  <2>4. Uvarint(d) = IF n = MaxVarintLen /\ d[n] > 1 THEN [v |-> 0, n |-> -n]
                     ELSE [v |-> DigitsValue(SubSeq(d, 1, n)), n |-> n]
    BY <2>2, <2>3, UvarintAt
  <2> DEFINE e == SubSeq(d, 1, n)
  <2>5. e \in Seq(Byte) /\ Len(e) = n /\ e[n] = d[n] /\ n # 0
    BY <2>3
  <2> HIDE DEF e
  <2>6. /\ DigitsValue(e) \in Nat /\ DigitsValue(e) < Power(n)
        /\ d[n] <= 1 => DigitsValue(e) < 2 * Power(n - 1)
    BY <2>5, DigitsBound
  <2>7. n # MaxVarintLen \/ d[n] <= 1 => DigitsValue(e) < Word
    <3>1. CASE n = MaxVarintLen
      BY <2>6, <3>1, WordIs
    <3>2. CASE n # MaxVarintLen
      <4>1. n \in Nat /\ MaxVarintLen - 1 \in Nat /\ n <= MaxVarintLen - 1
        BY <1>0, <2>3, <3>2
      <4>2. Power(n) <= Power(MaxVarintLen - 1)
        BY <4>1, PowerMonotone
      <4>3. Power(n) \in Nat /\ Power(MaxVarintLen - 1) \in Nat
        BY <4>1, PowerType
      <4>4. QED
        BY <2>6, <4>2, <4>3, WordIs
    <3>3. QED
      BY <3>1, <3>2
  <2>8. d[n] \in Nat
    BY <2>3, ByteIs
  <2>9. CASE n = MaxVarintLen /\ d[n] > 1
    BY <1>0, <2>3, <2>4, <2>9
  <2>10. CASE ~ (n = MaxVarintLen /\ d[n] > 1)
    <3>1. Uvarint(d) = [v |-> DigitsValue(e), n |-> n]
      BY <2>4, <2>10 DEF e
    <3>2. DigitsValue(e) < Word
      BY <2>7, <2>8, <2>10
    <3>3. QED
      BY <1>0, <2>3, <2>6, <3>1, <3>2
  <2>11. QED
    BY <2>9, <2>10
<1>3. QED
  BY <1>1, <1>2

\* It reads what was encoded,
LEMMA UvarintWhole ==
  ASSUME NEW v \in 0..Word - 1, NEW r \in Seq(Byte)
  PROVE  Uvarint(Varint(v) \o r) = [v |-> v, n |-> Len(Varint(v))]
<1> DEFINE w == Varint(v)
<1> DEFINE n == Digits(v)
<1> DEFINE d == w \o r
<1>1. /\ w \in Seq(Byte) /\ Len(w) = n
      /\ \A i \in 1..n : /\ w[i] % Base = (v \div Power(i - 1)) % Base
                         /\ i < n => w[i] >= Base
      /\ w[n] < Base
      /\ n = MaxVarintLen => w[n] <= 1
  BY VarintIs
<1>2. n \in 1..MaxVarintLen /\ v < Power(n) /\ v \in Nat /\ Base \in Nat
  BY DigitsIs, WordIs, CodecAssumption
<1> HIDE DEF w, n
<1>3. /\ d \in Seq(Byte) /\ Len(d) = n + Len(r) /\ Len(r) \in Nat /\ \A i \in 1..n : d[i] = w[i]
  <2>1. w \in Seq(Byte) /\ Len(w) = n
    BY <1>1
  <2>2. QED
    BY <2>1
<1>4. SubSeq(d, 1, n) = w
  <2>1. SubSeq(d, 1, n) \in Seq(Byte) /\ Len(SubSeq(d, 1, n)) = n /\ \A i \in 1..n : SubSeq(d, 1, n)[i] = d[i]
    BY <1>2, <1>3
  <2>2. QED
    BY <1>1, <1>3, <2>1
<1> HIDE DEF d
<1>5. n \in Last_(d)
  BY <1>1, <1>2, <1>3 DEF Last_
<1>6. ASSUME NEW i \in Last_(d) PROVE n <= i
  <2> SUFFICES ASSUME i < n PROVE FALSE
    BY <1>2 DEF Last_
  <2>1. i \in 1..n /\ d[i] < Base
    BY <1>2 DEF Last_
  <2>2. d[i] >= Base /\ d[i] \in Nat
    BY <1>1, <1>3, <2>1, ByteIs
  <2>3. QED
    BY <1>2, <2>1, <2>2
<1>7. Uvarint(d) = IF n = MaxVarintLen /\ d[n] > 1 THEN [v |-> 0, n |-> -n]
                   ELSE [v |-> DigitsValue(SubSeq(d, 1, n)), n |-> n]
  BY <1>3, <1>5, <1>6, UvarintAt
<1>8. ~ (n = MaxVarintLen /\ d[n] > 1)
  <2>1. n \in 1..n
    BY <1>2
  <2>2. d[n] = w[n] /\ w[n] \in Nat
    BY <1>1, <1>3, <2>1, ByteIs
  <2>3. QED
    BY <1>1, <2>2
<1>9. DigitsValue(w) = v
  BY <1>1, <1>2, DigitsMakeValue
<1>10. QED
  BY <1>1, <1>4, <1>7, <1>8, <1>9 DEF d, w

\* and knows when the bytes end inside it.
LEMMA UvarintCut ==
  ASSUME NEW v \in 0..Word - 1, NEW d \in Seq(Byte), NEW c \in Seq(Byte),
         c # <<>>, Varint(v) = d \o c
  PROVE  Uvarint(d) = [v |-> 0, n |-> 0]
<1> DEFINE w == Varint(v)
<1> DEFINE n == Digits(v)
<1>1. w \in Seq(Byte) /\ Len(w) = n /\ \A i \in 1..n : i < n => w[i] >= Base
  BY VarintIs
<1>2. n \in 1..MaxVarintLen /\ Base \in Nat /\ MaxVarintLen \in Nat
  BY DigitsIs, CodecAssumption
<1>3. w = d \o c
  OBVIOUS
<1> HIDE DEF w, n
<1>4. Len(d) \in Nat /\ Len(c) \in Nat /\ Len(c) # 0 /\ Len(w) = Len(d) + Len(c)
      /\ \A i \in 1..Len(d) : w[i] = d[i]
  BY <1>3
<1>5. Len(d) < n
  BY <1>1, <1>2, <1>4
<1>6. ASSUME NEW i \in 1..Len(d) PROVE ~ (d[i] < Base)
  <2>1. i \in 1..n /\ i < n /\ w[i] = d[i]
    BY <1>2, <1>4, <1>5
  <2>2. d[i] >= Base /\ d[i] \in Nat
    BY <1>1, <2>1, ByteIs
  <2>3. QED
    BY <1>2, <2>2
<1>7. Last_(d) = {}
  BY <1>6 DEF Last_
<1>8. ~ (Len(d) > MaxVarintLen)
  BY <1>2, <1>4, <1>5
<1>9. QED
  BY <1>7, <1>8, UvarintNone

-----------------------------------------------------------------------------
(* Parts of byte strings. *)

LEMMA DropFirstIs ==
  ASSUME NEW S, NEW s \in Seq(S), NEW n \in 0..Len(s)
  PROVE  /\ DropFirst(s, n) \in Seq(S) /\ Len(DropFirst(s, n)) = Len(s) - n
         /\ \A i \in 1..Len(s) - n : DropFirst(s, n)[i] = s[i + n]
  BY DEF DropFirst

LEMMA FirstIs ==
  ASSUME NEW S, NEW s \in Seq(S), NEW n \in 0..Len(s)
  PROVE  /\ SubSeq(s, 1, n) \in Seq(S) /\ Len(SubSeq(s, 1, n)) = n
         /\ \A i \in 1..n : SubSeq(s, 1, n)[i] = s[i]
  OBVIOUS

LEMMA ConcatIs ==
  ASSUME NEW S, NEW s \in Seq(S), NEW t \in Seq(S)
  PROVE  /\ s \o t \in Seq(S) /\ Len(s \o t) = Len(s) + Len(t)
         /\ \A i \in 1..Len(s) : (s \o t)[i] = s[i]
         /\ \A i \in 1..Len(t) : (s \o t)[i + Len(s)] = t[i]
<1>1. s \o t \in Seq(S) /\ Len(s \o t) = Len(s) + Len(t)
  OBVIOUS
<1>2. \A i \in 1..Len(s) : (s \o t)[i] = s[i]
  OBVIOUS
<1>3. \A i \in 1..Len(t) : (s \o t)[i + Len(s)] = t[i]
  OBVIOUS
<1>4. QED
  BY <1>1, <1>2, <1>3

LEMMA SameBytes ==
  ASSUME NEW S, NEW s \in Seq(S), NEW t \in Seq(S), Len(s) = Len(t),
         \A i \in 1..Len(s) : s[i] = t[i]
  PROVE  s = t
  OBVIOUS

LEMMA SplitConcat ==
  ASSUME NEW S, NEW s \in Seq(S), NEW t \in Seq(S)
  PROVE  SubSeq(s \o t, 1, Len(s)) = s /\ DropFirst(s \o t, Len(s)) = t
<1> DEFINE u == s \o t
<1>1. /\ u \in Seq(S) /\ Len(u) = Len(s) + Len(t) /\ Len(s) \in Nat /\ Len(t) \in Nat
      /\ \A i \in 1..Len(s) : u[i] = s[i]
      /\ \A i \in 1..Len(t) : u[i + Len(s)] = t[i]
  BY ConcatIs
<1> HIDE DEF u
<1>2. Len(s) \in 0..Len(u) /\ Len(u) - Len(s) = Len(t)
  BY <1>1
<1>3. SubSeq(u, 1, Len(s)) = s
  <2>1. /\ SubSeq(u, 1, Len(s)) \in Seq(S) /\ Len(SubSeq(u, 1, Len(s))) = Len(s)
        /\ \A i \in 1..Len(s) : SubSeq(u, 1, Len(s))[i] = u[i]
    BY <1>1, <1>2, FirstIs
  <2>2. QED
    BY <1>1, <2>1, SameBytes
<1>4. DropFirst(u, Len(s)) = t
  <2>1. /\ DropFirst(u, Len(s)) \in Seq(S) /\ Len(DropFirst(u, Len(s))) = Len(t)
        /\ \A i \in 1..Len(t) : DropFirst(u, Len(s))[i] = u[i + Len(s)]
    <3>1. /\ DropFirst(u, Len(s)) \in Seq(S) /\ Len(DropFirst(u, Len(s))) = Len(u) - Len(s)
          /\ \A i \in 1..Len(u) - Len(s) : DropFirst(u, Len(s))[i] = u[i + Len(s)]
      BY <1>1, <1>2, DropFirstIs, Zenon
    <3>2. QED
      BY <1>2, <3>1, Zenon
  <2>2. QED
    BY <1>1, <2>1, SameBytes
<1>5. QED
  BY <1>3, <1>4 DEF u

LEMMA JoinParts ==
  ASSUME NEW S, NEW s \in Seq(S), NEW n \in 0..Len(s)
  PROVE  s = SubSeq(s, 1, n) \o DropFirst(s, n)
<1> DEFINE a == SubSeq(s, 1, n)
<1> DEFINE b == DropFirst(s, n)
<1> DEFINE u == a \o b
<1>1. /\ a \in Seq(S) /\ Len(a) = n /\ \A i \in 1..n : a[i] = s[i]
      /\ b \in Seq(S) /\ Len(b) = Len(s) - n /\ \A i \in 1..Len(s) - n : b[i] = s[i + n]
      /\ n \in Nat /\ Len(s) \in Nat /\ n <= Len(s)
  <2>1. n \in Nat /\ Len(s) \in Nat /\ n <= Len(s)
    OBVIOUS
  <2>2. a \in Seq(S) /\ Len(a) = n /\ \A i \in 1..n : a[i] = s[i]
    BY FirstIs, Zenon
  <2>3. b \in Seq(S) /\ Len(b) = Len(s) - n /\ \A i \in 1..Len(s) - n : b[i] = s[i + n]
    BY DropFirstIs, Zenon
  <2>4. QED
    BY <2>1, <2>2, <2>3, Zenon
<1> HIDE DEF a, b
<1>2. /\ u \in Seq(S) /\ Len(u) = Len(a) + Len(b)
      /\ \A i \in 1..Len(a) : u[i] = a[i]
      /\ \A i \in 1..Len(b) : u[i + Len(a)] = b[i]
  <2>1. a \in Seq(S) /\ b \in Seq(S)
    BY <1>1, Zenon
  <2>2. QED
    BY <2>1, ConcatIs
<1> HIDE DEF u
<1>3. Len(u) = Len(s)
  BY <1>1, <1>2
<1>4. ASSUME NEW i \in 1..Len(s) PROVE s[i] = u[i]
  <2>1. CASE i <= n
    <3>1. i \in 1..n
      BY <2>1
    <3>2. QED
      BY <1>1, <1>2, <3>1
  <2>2. CASE ~ (i <= n)
    <3> DEFINE j == i - n
    <3>1. j \in 1..Len(s) - n /\ j + n = i
      BY <1>1, <2>2
    <3> HIDE DEF j
    <3>2. u[j + n] = b[j] /\ b[j] = s[j + n]
      BY <1>1, <1>2, <3>1
    <3>3. QED
      BY <3>1, <3>2
  <2>3. QED
    BY <2>1, <2>2
<1>5. s = u
  BY <1>2, <1>3, <1>4, SameBytes
<1>6. QED
  BY <1>5 DEF u, a, b

LEMMA CancelFront ==
  ASSUME NEW S, NEW a \in Seq(S), NEW s \in Seq(S), NEW t \in Seq(S), a \o s = a \o t
  PROVE  s = t
<1>1. DropFirst(a \o s, Len(a)) = s /\ DropFirst(a \o t, Len(a)) = t
  BY SplitConcat
<1>2. QED
  BY <1>1

LEMMA Associates ==
  ASSUME NEW a \in Seq(Byte), NEW b \in Seq(Byte), NEW c \in Seq(Byte)
  PROVE  a \o (b \o c) = (a \o b) \o c
BY ConcatAssociative, SMTT(30)

\* Joined parts as one operator, which the provers then take for what it is.
Cat(a, b) == a \o b

LEMMA CatIs ==
  ASSUME NEW a \in Seq(Byte), NEW b \in Seq(Byte)
  PROVE  Cat(a, b) \in Seq(Byte)
BY DEF Cat

LEMMA CatAssociates ==
  ASSUME NEW a \in Seq(Byte), NEW b \in Seq(Byte), NEW c \in Seq(Byte)
  PROVE  Cat(Cat(a, b), c) = Cat(a, Cat(b, c))
BY Associates DEF Cat

\* Four parts, joined from the left, from the middle and from the right.
LEMMA FourParts ==
  ASSUME NEW a \in Seq(Byte), NEW b \in Seq(Byte), NEW c \in Seq(Byte), NEW d \in Seq(Byte)
  PROVE  /\ Cat(Cat(Cat(a, b), c), d) = Cat(a, Cat(b, Cat(c, d)))
         /\ Cat(Cat(a, Cat(b, c)), d) = Cat(a, Cat(b, Cat(c, d)))
<1>1. Cat(a, b) \in Seq(Byte) /\ Cat(c, d) \in Seq(Byte)
  BY CatIs
<1>2. Cat(Cat(Cat(a, b), c), d) = Cat(Cat(a, b), Cat(c, d))
  BY <1>1, CatAssociates
<1>3. Cat(Cat(a, b), Cat(c, d)) = Cat(a, Cat(b, Cat(c, d)))
  BY <1>1, CatAssociates
<1>4. Cat(Cat(a, b), c) = Cat(a, Cat(b, c))
  BY CatAssociates
<1>5. QED
  BY <1>2, <1>3, <1>4

Before(d, a) == \E c \in Seq(Byte) : c # <<>> /\ a = d \o c
Within(d, x, a, b) == \E c \in Seq(Byte) : d = a \o c /\ b = c \o x

\* The front d of a \o b ends inside a or after it.
LEMMA BytesEnd ==
  ASSUME NEW d \in Seq(Byte), NEW x \in Seq(Byte), NEW a \in Seq(Byte), NEW b \in Seq(Byte),
         d \o x = a \o b
  PROVE  Within(d, x, a, b) \/ Before(d, a)
<1> DEFINE u == a \o b
<1>1. Len(a) \in Nat /\ Len(d) \in Nat /\ u = d \o x /\ u = a \o b /\ u \in Seq(Byte)
  OBVIOUS
<1>2. /\ SubSeq(u, 1, Len(a)) = a /\ DropFirst(u, Len(a)) = b
      /\ SubSeq(u, 1, Len(d)) = d /\ DropFirst(u, Len(d)) = x
  <2>1. /\ SubSeq(a \o b, 1, Len(a)) = a /\ DropFirst(a \o b, Len(a)) = b
        /\ SubSeq(d \o x, 1, Len(d)) = d /\ DropFirst(d \o x, Len(d)) = x
    BY SplitConcat, Zenon
  <2> HIDE DEF u
  <2>2. QED
    BY <1>1, <2>1, Zenon
<1>3. Len(u) = Len(a) + Len(b) /\ Len(u) = Len(d) + Len(x) /\ Len(b) \in Nat /\ Len(x) \in Nat
  BY <1>1
<1> HIDE DEF u
<1>4. CASE Len(d) >= Len(a)
  <2> DEFINE c == DropFirst(d, Len(a))
  <2>1. Len(a) \in 0..Len(d)
    BY <1>1, <1>4
  <2>2. c \in Seq(Byte) /\ d = SubSeq(d, 1, Len(a)) \o c
    BY <2>1, JoinParts, DropFirstIs
  <2>3. SubSeq(d, 1, Len(a)) = a
    <3>1. Len(a) \in 0..Len(u) /\ \A i \in 1..Len(a) : i \in 1..Len(d)
      BY <1>1, <1>3, <1>4
    <3>2. /\ SubSeq(d, 1, Len(a)) \in Seq(Byte) /\ Len(SubSeq(d, 1, Len(a))) = Len(a)
          /\ \A i \in 1..Len(a) : SubSeq(d, 1, Len(a))[i] = d[i]
      BY <2>1, FirstIs
    <3>3. \A i \in 1..Len(a) : u[i] = a[i]
      BY <1>1, ConcatIs
    <3>4. \A i \in 1..Len(d) : u[i] = d[i]
      BY <1>1, ConcatIs
    <3>5. QED
      BY <3>1, <3>2, <3>3, <3>4, SameBytes
  <2> HIDE DEF c
  <2>4. d = a \o c
    BY <2>2, <2>3
  <2>5. a \o (c \o x) = a \o b
    <3>1. a \o (c \o x) = (a \o c) \o x
      <4>1. a \in Seq(Byte) /\ c \in Seq(Byte) /\ x \in Seq(Byte)
        BY <2>2
      <4>2. QED
        BY <4>1, Associates
    <3>2. QED
      BY <1>1, <2>4, <3>1
  <2>6. c \o x \in Seq(Byte)
    BY <2>2
  <2>7. c \o x = b
    BY <2>5, <2>6, CancelFront
  <2>8. QED
    BY <2>2, <2>4, <2>7 DEF Within
<1>5. CASE ~ (Len(d) >= Len(a))
  <2> DEFINE c == DropFirst(a, Len(d))
  <2>1. Len(d) \in 0..Len(a)
    BY <1>1, <1>5
  <2>2. c \in Seq(Byte) /\ Len(c) = Len(a) - Len(d) /\ a = SubSeq(a, 1, Len(d)) \o c
    BY <2>1, JoinParts, DropFirstIs
  <2>3. SubSeq(a, 1, Len(d)) = d
    <3>1. \A i \in 1..Len(d) : i \in 1..Len(a)
      BY <1>1, <1>5
    <3>2. /\ SubSeq(a, 1, Len(d)) \in Seq(Byte) /\ Len(SubSeq(a, 1, Len(d))) = Len(d)
          /\ \A i \in 1..Len(d) : SubSeq(a, 1, Len(d))[i] = a[i]
      BY <2>1, FirstIs
    <3>3. \A i \in 1..Len(a) : u[i] = a[i]
      BY <1>1, ConcatIs
    <3>4. \A i \in 1..Len(d) : u[i] = d[i]
      BY <1>1, ConcatIs
    <3>5. QED
      BY <3>1, <3>2, <3>3, <3>4, SameBytes
  <2> HIDE DEF c
  <2>4. Len(c) # 0
    BY <1>1, <1>5, <2>2
  <2>5. c # <<>>
    BY <2>4
  <2>6. QED
    BY <2>2, <2>3, <2>5 DEF Before
<1>6. QED
  BY <1>4, <1>5

-----------------------------------------------------------------------------
(* The decoders over whole fields, and over a field cut short. *)

It(data, err, panic, rec) == [data |-> data, err |-> err, panic |-> panic, rec |-> rec]
Rec(t, cf, key, value) == [Type |-> t, CF |-> cf, Key |-> key, Value |-> value]

\* The errors and the assignments of the decoders, by name.
Nil == "nil"
Short == "short buffer"
Malformed == "malformed varint"
WithData(it, x) == [it EXCEPT !.data = x]
WithErr(it, x) == [it EXCEPT !.err = x]
WithPanic(it) == [it EXCEPT !.panic = TRUE]
PutCF(it, x) == [it EXCEPT !.rec.CF = x]
PutKey(it, x) == [it EXCEPT !.rec.Key = x]
PutValue(it, x) == [it EXCEPT !.rec.Value = x]

LEMMA ErrorsDiffer == Nil # Short /\ Nil # Malformed
BY DEF Nil, Short, Malformed

LEMMA ItHas ==
  ASSUME NEW d, NEW e, NEW p, NEW rc
  PROVE  /\ It(d, e, p, rc).data = d /\ It(d, e, p, rc).err = e
         /\ It(d, e, p, rc).panic = p /\ It(d, e, p, rc).rec = rc
BY DEF It

LEMMA ItWith ==
  ASSUME NEW d, NEW e, NEW p, NEW rc, NEW x
  PROVE  /\ WithData(It(d, e, p, rc), x) = It(x, e, p, rc)
         /\ WithErr(It(d, e, p, rc), x) = It(d, x, p, rc)
<1> DEFINE r == [data |-> d, err |-> e, panic |-> p, rec |-> rc]
<1>1. [r EXCEPT !.data = x] = [data |-> x, err |-> e, panic |-> p, rec |-> rc]
  OBVIOUS
<1>2. [r EXCEPT !.err = x] = [data |-> d, err |-> x, panic |-> p, rec |-> rc]
  OBVIOUS
<1>3. QED
  BY <1>1, <1>2, Zenon DEF It, WithData, WithErr

LEMMA ItPanics ==
  ASSUME NEW d, NEW e, NEW p, NEW rc
  PROVE  WithPanic(It(d, e, p, rc)) = It(d, e, TRUE, rc)
<1> DEFINE r == [data |-> d, err |-> e, panic |-> p, rec |-> rc]
<1>1. ASSUME NEW x PROVE [r EXCEPT !.panic = x] = [data |-> d, err |-> e, panic |-> x, rec |-> rc]
  OBVIOUS
<1>2. QED
  BY <1>1, Zenon DEF It, WithPanic

LEMMA RecWith ==
  ASSUME NEW d, NEW e, NEW p, NEW t, NEW cf, NEW key, NEW value, NEW x
  PROVE  /\ PutCF(It(d, e, p, Rec(t, cf, key, value)), x) = It(d, e, p, Rec(t, x, key, value))
         /\ PutKey(It(d, e, p, Rec(t, cf, key, value)), x) = It(d, e, p, Rec(t, cf, x, value))
         /\ PutValue(It(d, e, p, Rec(t, cf, key, value)), x) = It(d, e, p, Rec(t, cf, key, x))
<1> DEFINE rc == [Type |-> t, CF |-> cf, Key |-> key, Value |-> value]
<1> DEFINE r == [data |-> d, err |-> e, panic |-> p, rec |-> rc]
<1>1. [r EXCEPT !.rec.CF = x]
        = [data |-> d, err |-> e, panic |-> p, rec |-> [Type |-> t, CF |-> x, Key |-> key, Value |-> value]]
  OBVIOUS
<1>2. [r EXCEPT !.rec.Key = x]
        = [data |-> d, err |-> e, panic |-> p, rec |-> [Type |-> t, CF |-> cf, Key |-> x, Value |-> value]]
  OBVIOUS
<1>3. [r EXCEPT !.rec.Value = x]
        = [data |-> d, err |-> e, panic |-> p, rec |-> [Type |-> t, CF |-> cf, Key |-> key, Value |-> x]]
  OBVIOUS
<1>4. QED
  BY <1>1, <1>2, <1>3, Zenon DEF It, Rec, PutCF, PutKey, PutValue

\* decodeVarint after the varint has been read.
LEMMA decodeVarintIs ==
  ASSUME NEW d \in Seq(Byte), NEW e, NEW p, NEW rc, NEW v, NEW n \in Int,
         Uvarint(d) = [v |-> v, n |-> n]
  PROVE  /\ decodeVarint(It(d, e, p, rc)).val = v
         /\ n > 0 => decodeVarint(It(d, e, p, rc)).it = It(DropFirst(d, n), e, p, rc)
         /\ n = 0 => decodeVarint(It(d, e, p, rc)).it = It(d, Short, p, rc)
         /\ n < 0 => decodeVarint(It(d, e, p, rc)).it = It(d, Malformed, p, rc)
<1> DEFINE it == It(d, e, p, rc)
<1> DEFINE u == Uvarint(it.data)
<1> DEFINE x == WithData(it, DropFirst(it.data, u.n))
<1> DEFINE y == WithErr(it, Short)
<1> DEFINE z == WithErr(it, Malformed)
<1>1. decodeVarint(it)
        = [val |-> u.v, it |-> CASE u.n > 0 -> x [] u.n = 0 -> y [] OTHER -> z]
  BY Zenon DEF decodeVarint, WithData, WithErr, Short, Malformed
<1>2. it.data = d
  BY ItHas
<1>3. u.v = v /\ u.n = n
  BY <1>2
<1>4. x = It(DropFirst(d, n), e, p, rc)
  BY <1>2, <1>3, ItWith
<1>5. y = It(d, Short, p, rc) /\ z = It(d, Malformed, p, rc)
  BY ItWith
<1> HIDE DEF it, u, x, y, z
<1>6. /\ decodeVarint(it).val = v
      /\ n > 0 => decodeVarint(it).it = x
      /\ n = 0 => decodeVarint(it).it = y
      /\ n < 0 => decodeVarint(it).it = z
  BY <1>1, <1>3
<1>7. QED
  BY <1>4, <1>5, <1>6 DEF it

\* decodeSlice after its length has been read.
Sliced(l, d, e, p, rc) ==
  IF l > Len(d) THEN [val |-> <<>>, it |-> It(d, Short, p, rc)]
  ELSE IF e # Nil THEN [val |-> <<>>, it |-> It(d, e, p, rc)]
  ELSE IF l >= 0 THEN [val |-> SubSeq(d, 1, l), it |-> It(DropFirst(d, l), e, p, rc)]
  ELSE [val |-> <<>>, it |-> It(d, e, TRUE, rc)]

LEMMA decodeSliceIs ==
  ASSUME NEW it, NEW d \in Seq(Byte), NEW e, NEW p, NEW rc, decodeVarint(it).it = It(d, e, p, rc),
         NEW l \in Int, l = ToInt(decodeVarint(it).val)
  PROVE  decodeSlice(it) = Sliced(l, d, e, p, rc)
<1> DEFINE dd == decodeVarint(it)
<1> DEFINE m == ToInt(dd.val)
<1> DEFINE j == IF m > Len(dd.it.data) THEN WithErr(dd.it, Short) ELSE dd.it
<1> DEFINE a == WithData(j, DropFirst(j.data, m))
<1> DEFINE b == WithPanic(j)
<1> DEFINE s == SubSeq(j.data, 1, m)
<1>1. decodeSlice(it)
        = IF j.err # Nil THEN [val |-> <<>>, it |-> j]
          ELSE IF m >= 0 THEN [val |-> s, it |-> a] ELSE [val |-> <<>>, it |-> b]
  BY Zenon DEF decodeSlice, WithData, WithErr, WithPanic, Short, Nil
<1>2. m = l /\ dd.it = It(d, e, p, rc) /\ dd.it.data = d
  BY ItHas
<1>3. CASE l > Len(d)
  <2>1. j = It(d, Short, p, rc)
    BY <1>2, <1>3, ItWith
  <2> HIDE DEF a, b, s, j, m, dd
  <2>2. j.err = Short
    BY <2>1, ItHas
  <2>3. QED
    BY <1>1, <1>3, <2>1, <2>2, ErrorsDiffer DEF Sliced
<1>4. CASE ~ (l > Len(d))
  <2>1. j = It(d, e, p, rc)
    BY <1>2, <1>4
  <2>2. j.data = d /\ j.err = e
    <3> HIDE DEF j
    <3>1. QED
      BY <2>1, ItHas
  <2>3. a = It(DropFirst(d, l), e, p, rc)
    <3> HIDE DEF j, m, dd
    <3>1. QED
      BY <1>2, <2>1, <2>2, ItWith
  <2>4. b = It(d, e, TRUE, rc)
    <3> HIDE DEF j, m, dd
    <3>1. QED
      BY <2>1, ItPanics, Zenon
  <2>5. s = SubSeq(d, 1, l)
    <3> HIDE DEF j, m, dd
    <3>1. QED
      BY <1>2, <2>2
  <2> HIDE DEF a, b, s, j, m, dd
  <2>6. QED
    BY <1>1, <1>2, <1>4, <2>1, <2>2, <2>3, <2>4, <2>5 DEF Sliced
<1>5. QED
  BY <1>3, <1>4

\* A length above what is left, and one that is not.
LEMMA SliceOver ==
  ASSUME NEW it, NEW d \in Seq(Byte), NEW e, NEW p, NEW rc, decodeVarint(it).it = It(d, e, p, rc),
         ToInt(decodeVarint(it).val) \in Int, ToInt(decodeVarint(it).val) > Len(d) \/ e = Short
  PROVE  decodeSlice(it) = [val |-> <<>>, it |-> It(d, Short, p, rc)]
<1> DEFINE l == ToInt(decodeVarint(it).val)
<1>1. l \in Int /\ l = ToInt(decodeVarint(it).val) /\ (l > Len(d) \/ e = Short)
  OBVIOUS
<1> HIDE DEF l
<1>2. decodeSlice(it) = Sliced(l, d, e, p, rc)
  BY <1>1, decodeSliceIs
<1>3. QED
  BY <1>1, <1>2, ErrorsDiffer DEF Sliced

LEMMA SliceWithin ==
  ASSUME NEW it, NEW d \in Seq(Byte), NEW p, NEW rc, decodeVarint(it).it = It(d, Nil, p, rc),
         NEW l \in Nat, l = ToInt(decodeVarint(it).val), l <= Len(d)
  PROVE  decodeSlice(it) = [val |-> SubSeq(d, 1, l), it |-> It(DropFirst(d, l), Nil, p, rc)]
<1>1. l \in Int /\ Len(d) \in Nat
  OBVIOUS
<1>2. decodeSlice(it) = Sliced(l, d, Nil, p, rc)
  BY <1>1, decodeSliceIs
<1>3. QED
  BY <1>1, <1>2 DEF Sliced

LEMMA IntOf ==
  ASSUME NEW v \in 0..Word - 1
  PROVE  ToInt(v) \in -Word..Word /\ (v < Word \div 2 => ToInt(v) = v)
<1>1. Word \in Nat
  BY WordIs
<1>2. QED
  BY <1>1 DEF ToInt

LEMMA FitsWord == Word \div 2 \in Nat \ {0} /\ Word \div 2 <= Word - 1
BY WordIs, PowerType

LEMMA VarintReads ==
  ASSUME NEW v \in 0..Word - 1, NEW r \in Seq(Byte), NEW e, NEW p, NEW rc
  PROVE  /\ decodeVarint(It(Varint(v) \o r, e, p, rc)).val = v
         /\ decodeVarint(It(Varint(v) \o r, e, p, rc)).it = It(r, e, p, rc)
<1> DEFINE w == Varint(v)
<1> DEFINE d == w \o r
<1> DEFINE n == Len(w)
<1>1. w \in Seq(Byte) /\ n = Digits(v) /\ Digits(v) \in 1..MaxVarintLen
  BY VarintIs, DigitsIs
<1>2. Uvarint(d) = [v |-> v, n |-> n]
  BY UvarintWhole
<1>3. n > 0 /\ n \in Int
  BY <1>1
<1>4. DropFirst(d, n) = r /\ d \in Seq(Byte)
  BY <1>1, SplitConcat
<1> HIDE DEF n, d, w
<1>5. decodeVarint(It(d, e, p, rc)).val = v /\ decodeVarint(It(d, e, p, rc)).it = It(r, e, p, rc)
  BY <1>2, <1>3, <1>4, decodeVarintIs
<1>6. QED
  BY <1>5 DEF d, w

LEMMA VarintShort ==
  ASSUME NEW v \in 0..Word - 1, NEW d \in Seq(Byte), Before(d, Varint(v)), NEW e, NEW p, NEW rc
  PROVE  /\ decodeVarint(It(d, e, p, rc)).val = 0
         /\ decodeVarint(It(d, e, p, rc)).it = It(d, Short, p, rc)
<1>1. Uvarint(d) = [v |-> 0, n |-> 0]
  <2>1. PICK c \in Seq(Byte) : c # <<>> /\ Varint(v) = d \o c
    BY DEF Before
  <2>2. QED
    BY <2>1, UvarintCut
<1>2. QED
  BY <1>1, decodeVarintIs

LEMMA SliceReads ==
  ASSUME NEW s \in Lengthy, NEW r \in Seq(Byte), NEW p, NEW rc
  PROVE  decodeSlice(It(Prefixed(s) \o r, Nil, p, rc)) = [val |-> s, it |-> It(r, Nil, p, rc)]
<1> DEFINE l == Len(s)
<1> DEFINE w == Varint(l)
<1> DEFINE x == s \o r
<1> DEFINE d == Prefixed(s) \o r
<1>1. s \in Seq(Byte) /\ l < Word \div 2 /\ l \in Nat
  BY DEF Lengthy
<1>2. l \in 0..Word - 1
  BY <1>1, FitsWord, WordIs
<1>3. w \in Seq(Byte) /\ x \in Seq(Byte)
  BY <1>1, <1>2, VarintIs
<1>4. d = w \o x
  <2>1. (w \o s) \o r = w \o (s \o r)
    BY <1>1, <1>3, ConcatAssociative
  <2>2. QED
    BY <2>1 DEF Prefixed
<1>5. SubSeq(x, 1, l) = s /\ DropFirst(x, l) = r /\ ~ (l > Len(x))
  <2>1. SubSeq(x, 1, l) = s /\ DropFirst(x, l) = r
    BY <1>1, SplitConcat
  <2>2. Len(x) = l + Len(r) /\ Len(r) \in Nat
    BY <1>1
  <2>3. QED
    BY <1>1, <2>1, <2>2
<1> HIDE DEF x, l
<1> DEFINE it == It(w \o x, Nil, p, rc)
<1>6. decodeVarint(it).val = l /\ decodeVarint(it).it = It(x, Nil, p, rc)
  BY <1>2, <1>3, VarintReads
<1>7. ToInt(l) = l /\ l \in Int /\ l >= 0
  BY <1>1, <1>2, IntOf
<1> HIDE DEF it, d, w
<1>8. decodeSlice(it) = [val |-> SubSeq(x, 1, l), it |-> It(DropFirst(x, l), Nil, p, rc)]
  <2>1. l \in Nat /\ l = ToInt(decodeVarint(it).val) /\ l <= Len(x)
    BY <1>1, <1>3, <1>5, <1>6, <1>7
  <2>2. QED
    BY <1>3, <1>6, <2>1, SliceWithin
<1>9. QED
  BY <1>4, <1>5, <1>8 DEF it, d

LEMMA SliceShort ==
  ASSUME NEW s \in Lengthy, NEW d \in Seq(Byte), Before(d, Prefixed(s)), NEW p, NEW rc
  PROVE  \E x \in Seq(Byte) : decodeSlice(It(d, Nil, p, rc)) = [val |-> <<>>, it |-> It(x, Short, p, rc)]
<1> DEFINE l == Len(s)
<1> DEFINE w == Varint(l)
<1>1. s \in Seq(Byte) /\ l < Word \div 2 /\ l \in Nat
  BY DEF Lengthy
<1>2. l \in 0..Word - 1
  BY <1>1, FitsWord, WordIs
<1>3. w \in Seq(Byte)
  BY <1>2, VarintIs
<1>4. PICK c \in Seq(Byte) : c # <<>> /\ d \o c = w \o s
  BY Zenon DEF Prefixed, Before
<1> HIDE DEF w
<1>5. Within(d, c, w, s) \/ Before(d, w)
  BY <1>1, <1>3, <1>4, BytesEnd
<1>6. CASE Within(d, c, w, s)
  <2>1. PICK x \in Seq(Byte) : d = w \o x /\ s = x \o c
    BY <1>6 DEF Within
  <2>2. l > Len(x)
    <3>1. Len(s) = Len(x) + Len(c) /\ Len(x) \in Nat /\ Len(c) \in Nat /\ Len(c) # 0
      BY <1>4, <2>1
    <3>2. QED
      BY <3>1
  <2>3. ToInt(l) = l /\ l \in Int
    BY <1>1, <1>2, IntOf
  <2> HIDE DEF l
  <2>4. decodeVarint(It(w \o x, Nil, p, rc)).val = l
        /\ decodeVarint(It(w \o x, Nil, p, rc)).it = It(x, Nil, p, rc)
    BY <1>2, VarintReads DEF w
  <2>5. decodeSlice(It(d, Nil, p, rc)) = [val |-> <<>>, it |-> It(x, Short, p, rc)]
    BY <2>1, <2>2, <2>3, <2>4, SliceOver
  <2>6. QED
    BY <2>5
<1>7. CASE Before(d, w)
  <2>1. /\ decodeVarint(It(d, Nil, p, rc)).val = 0
        /\ decodeVarint(It(d, Nil, p, rc)).it = It(d, Short, p, rc)
    BY <1>2, <1>7, VarintShort DEF w
  <2>2. ToInt(0) = 0
    <3>1. 0 \in 0..Word - 1 /\ 0 < Word \div 2
      BY FitsWord, WordIs
    <3>2. QED
      BY <3>1, IntOf
  <2>3. decodeSlice(It(d, Nil, p, rc)) = [val |-> <<>>, it |-> It(d, Short, p, rc)]
    BY <2>1, <2>2, SliceOver
  <2>4. QED
    BY <2>3
<1>8. QED
  BY <1>5, <1>6, <1>7

-----------------------------------------------------------------------------
(* An operation's bytes: its type and the fields the type has. *)

CFPart(t, cf) == IF HasCF(t) THEN Varint(cf) ELSE <<>>
KeyPart(t, key) == IF HasKey(t) THEN Prefixed(key) ELSE <<>>
ValuePart(t, value) == IF HasValue(t) THEN Prefixed(value) ELSE <<>>
FieldsPart(t, cf, key, value) == CFPart(t, cf) \o (KeyPart(t, key) \o ValuePart(t, value))

\* The pairs of types, and the types, of a table.
PairOf(p, x, y, key, value) ==
  /\ p = <<x, y>> /\ x \in 0..18 /\ y \in 0..18 /\ ~ HasCF(x) /\ HasCF(y)
  /\ (HasKey(x) <=> key) /\ (HasKey(y) <=> key) /\ (HasValue(x) <=> value) /\ (HasValue(y) <=> value)

TypeOf(x, value) == x \in 0..18 /\ ~ HasCF(x) /\ ~ HasKey(x) /\ (HasValue(x) <=> value) /\ Supported(x)

LEMMA KeyTag ==
  ASSUME NEW op \in DOMAIN KeyTags
  PROVE  PairOf(KeyTags[op], KeyTags[op][1], KeyTags[op][2], TRUE, FALSE)
<1>1. op = "delete" \/ op = "single"
  BY DEF KeyTags
<1>2. KeyTags["delete"] = <<0, 4>> /\ KeyTags["single"] = <<7, 8>>
  BY DEF KeyTags, Deletion, CFDeletion, SingleDeletion, CFSingleDeletion
<1>3. PairOf(<<0, 4>>, 0, 4, TRUE, FALSE) /\ PairOf(<<7, 8>>, 7, 8, TRUE, FALSE)
  BY DEF PairOf, HasCF, HasKey, HasValue, Deletion, Value, Merge, LogData, CFDeletion, CFValue, CFMerge,
         SingleDeletion, CFSingleDeletion, EndPrepareXID, CommitXID, RollbackXID, CFRangeDeletion,
         RangeDeletion, CFBlobIndex, BlobIndex
<1>4. CASE op = "delete"
  <2>1. KeyTags[op] = <<0, 4>>
    BY <1>2, <1>4
  <2>2. KeyTags[op][1] = 0 /\ KeyTags[op][2] = 4
    BY <2>1
  <2>3. QED
    BY <1>3, <2>1, <2>2, Zenon
<1>5. CASE op = "single"
  <2>1. KeyTags[op] = <<7, 8>>
    BY <1>2, <1>5
  <2>2. KeyTags[op][1] = 7 /\ KeyTags[op][2] = 8
    BY <2>1
  <2>3. QED
    BY <1>3, <2>1, <2>2, Zenon
<1>6. QED
  BY <1>1, <1>4, <1>5, Zenon

LEMMA KeyValueTag ==
  ASSUME NEW op \in DOMAIN KeyValueTags
  PROVE  PairOf(KeyValueTags[op], KeyValueTags[op][1], KeyValueTags[op][2], TRUE, TRUE)
<1>1. op = "put" \/ op = "merge" \/ op = "range" \/ op = "blob"
  BY DEF KeyValueTags
<1>2. /\ KeyValueTags["put"] = <<1, 5>> /\ KeyValueTags["merge"] = <<2, 6>>
      /\ KeyValueTags["range"] = <<15, 14>> /\ KeyValueTags["blob"] = <<17, 16>>
  BY DEF KeyValueTags, Value, CFValue, Merge, CFMerge, RangeDeletion, CFRangeDeletion, BlobIndex, CFBlobIndex
<1>3. /\ PairOf(<<1, 5>>, 1, 5, TRUE, TRUE) /\ PairOf(<<2, 6>>, 2, 6, TRUE, TRUE)
      /\ PairOf(<<15, 14>>, 15, 14, TRUE, TRUE) /\ PairOf(<<17, 16>>, 17, 16, TRUE, TRUE)
  BY DEF PairOf, HasCF, HasKey, HasValue, Deletion, Value, Merge, LogData, CFDeletion, CFValue, CFMerge,
         SingleDeletion, CFSingleDeletion, EndPrepareXID, CommitXID, RollbackXID, CFRangeDeletion,
         RangeDeletion, CFBlobIndex, BlobIndex
<1>4. CASE op = "put"
  <2>1. KeyValueTags[op] = <<1, 5>>
    BY <1>2, <1>4
  <2>2. KeyValueTags[op][1] = 1 /\ KeyValueTags[op][2] = 5
    BY <2>1
  <2>3. QED
    BY <1>3, <2>1, <2>2, Zenon
<1>5. CASE op = "merge"
  <2>1. KeyValueTags[op] = <<2, 6>>
    BY <1>2, <1>5
  <2>2. KeyValueTags[op][1] = 2 /\ KeyValueTags[op][2] = 6
    BY <2>1
  <2>3. QED
    BY <1>3, <2>1, <2>2, Zenon
<1>6. CASE op = "range"
  <2>1. KeyValueTags[op] = <<15, 14>>
    BY <1>2, <1>6
  <2>2. KeyValueTags[op][1] = 15 /\ KeyValueTags[op][2] = 14
    BY <2>1
  <2>3. QED
    BY <1>3, <2>1, <2>2, Zenon
<1>7. CASE op = "blob"
  <2>1. KeyValueTags[op] = <<17, 16>>
    BY <1>2, <1>7
  <2>2. KeyValueTags[op][1] = 17 /\ KeyValueTags[op][2] = 16
    BY <2>1
  <2>3. QED
    BY <1>3, <2>1, <2>2, Zenon
<1>8. QED
  BY <1>1, <1>4, <1>5, <1>6, <1>7, Zenon

LEMMA ValueTag ==
  ASSUME NEW op \in DOMAIN ValueTags
  PROVE  TypeOf(ValueTags[op], TRUE)
<1>1. op = "log" \/ op = "end" \/ op = "commit" \/ op = "rollback"
  BY DEF ValueTags
<1>2. ValueTags["log"] = 3 /\ ValueTags["end"] = 10 /\ ValueTags["commit"] = 11 /\ ValueTags["rollback"] = 12
  BY DEF ValueTags, LogData, EndPrepareXID, CommitXID, RollbackXID
<1>3. TypeOf(3, TRUE) /\ TypeOf(10, TRUE) /\ TypeOf(11, TRUE) /\ TypeOf(12, TRUE)
  BY DEF TypeOf, Supported, HasCF, HasKey, HasValue, Deletion, Value, Merge, LogData, CFDeletion, CFValue,
         CFMerge, SingleDeletion, CFSingleDeletion, EndPrepareXID, CommitXID, RollbackXID, CFRangeDeletion,
         RangeDeletion, CFBlobIndex, BlobIndex, Noop, BeginPrepareXID, BeginPersistedPrepareXID
<1>4. QED
  BY <1>1, <1>2, <1>3

LEMMA BareTag ==
  ASSUME NEW op \in DOMAIN BareTags
  PROVE  TypeOf(BareTags[op], FALSE)
<1>1. op = "begin" \/ op = "persisted" \/ op = "noop"
  BY DEF BareTags
<1>2. BareTags["begin"] = 9 /\ BareTags["persisted"] = 18 /\ BareTags["noop"] = 13
  BY DEF BareTags, BeginPrepareXID, BeginPersistedPrepareXID, Noop
<1>3. TypeOf(9, FALSE) /\ TypeOf(18, FALSE) /\ TypeOf(13, FALSE)
  BY DEF TypeOf, Supported, HasCF, HasKey, HasValue, Deletion, Value, Merge, LogData, CFDeletion, CFValue,
         CFMerge, SingleDeletion, CFSingleDeletion, EndPrepareXID, CommitXID, RollbackXID, CFRangeDeletion,
         RangeDeletion, CFBlobIndex, BlobIndex, Noop, BeginPrepareXID, BeginPersistedPrepareXID
<1>4. QED
  BY <1>1, <1>2, <1>3

Ty(o) == Expected(o).Type

\* A record that an operation makes: a field that its type has not is empty.
Fits(t, cf, key, value) ==
  /\ t \in Byte /\ Supported(t) /\ cf \in Families /\ key \in Lengthy /\ value \in Lengthy
  /\ (~ HasCF(t) => cf = 0) /\ (~ HasKey(t) => key = <<>>) /\ (~ HasValue(t) => value = <<>>)

LEMMA ExpectedIs ==
  ASSUME NEW o
  PROVE  Expected(o) = Rec(Ty(o), o.cf, o.key, o.value)
BY DEF Expected, Rec, Ty

LEMMA TyIs ==
  ASSUME NEW o
  PROVE  Ty(o) = CASE o.op \in DOMAIN KeyTags -> KeyTags[o.op][IF o.cf = 0 THEN 1 ELSE 2]
                   [] o.op \in DOMAIN KeyValueTags -> KeyValueTags[o.op][IF o.cf = 0 THEN 1 ELSE 2]
                   [] o.op \in DOMAIN ValueTags -> ValueTags[o.op]
                   [] OTHER -> BareTags[o.op]
<1> DEFINE t == CASE o.op \in DOMAIN KeyTags -> KeyTags[o.op][IF o.cf = 0 THEN 1 ELSE 2]
                  [] o.op \in DOMAIN KeyValueTags -> KeyValueTags[o.op][IF o.cf = 0 THEN 1 ELSE 2]
                  [] o.op \in DOMAIN ValueTags -> ValueTags[o.op]
                  [] OTHER -> BareTags[o.op]
<1>1. Expected(o) = [CF |-> o.cf, Key |-> o.key, Value |-> o.value, Type |-> t]
  BY Zenon DEF Expected
<1> HIDE DEF t
<1>2. Ty(o) = t
  BY <1>1 DEF Ty
<1>3. QED
  BY <1>2 DEF t

LEMMA Tables ==
  /\ DOMAIN KeyTags = {"delete", "single"}
  /\ DOMAIN KeyValueTags = {"put", "merge", "range", "blob"}
  /\ DOMAIN ValueTags = {"log", "end", "commit", "rollback"}
  /\ DOMAIN BareTags = {"begin", "persisted", "noop"}
BY DEF KeyTags, KeyValueTags, ValueTags, BareTags

LEMMA NoBytes == <<>> \in Lengthy /\ 0 \in Families
BY FitsWord DEF Lengthy, Families

\* The bytes of a field.
LEMMA PartsType ==
  ASSUME NEW t, NEW cf \in Families, NEW key \in Lengthy, NEW value \in Lengthy
  PROVE  /\ CFPart(t, cf) \in Seq(Byte) /\ KeyPart(t, key) \in Seq(Byte)
         /\ ValuePart(t, value) \in Seq(Byte) /\ FieldsPart(t, cf, key, value) \in Seq(Byte)
<1>1. cf \in 0..Word - 1
  BY FitsWord, WordIs DEF Families
<1>2. ASSUME NEW s \in Lengthy PROVE Prefixed(s) \in Seq(Byte)
  <2>1. s \in Seq(Byte) /\ Len(s) \in 0..Word - 1
    BY FitsWord, WordIs DEF Lengthy
  <2>2. Varint(Len(s)) \in Seq(Byte)
    BY <2>1, VarintIs
  <2>3. QED
    BY <2>1, <2>2 DEF Prefixed
<1>3. CFPart(t, cf) \in Seq(Byte) /\ KeyPart(t, key) \in Seq(Byte) /\ ValuePart(t, value) \in Seq(Byte)
  <2>1. Varint(cf) \in Seq(Byte) /\ Prefixed(key) \in Seq(Byte) /\ Prefixed(value) \in Seq(Byte)
    BY <1>1, <1>2, VarintIs
  <2>2. QED
    BY <2>1 DEF CFPart, KeyPart, ValuePart
<1>4. QED
  BY <1>3 DEF FieldsPart

LEMMA PartType ==
  ASSUME NEW t
  PROVE  /\ \A cf \in Families : CFPart(t, cf) \in Seq(Byte)
         /\ \A s \in Lengthy : KeyPart(t, s) \in Seq(Byte)
         /\ \A s \in Lengthy : ValuePart(t, s) \in Seq(Byte)
BY NoBytes, PartsType

LEMMA EncodePair ==
  ASSUME NEW o, NEW x, NEW y, NEW p, NEW b, PairOf(p, x, y, TRUE, b),
         p[1] = x, p[2] = y, Ty(o) = p[IF o.cf = 0 THEN 1 ELSE 2],
         o.cf \in Families, o.key \in Lengthy, o.value \in Lengthy, ~ b => o.value = <<>>
  PROVE  /\ Fits(Ty(o), o.cf, o.key, o.value)
         /\ Family(p, o.cf) = <<Ty(o)>> \o CFPart(Ty(o), o.cf)
         /\ HasKey(Ty(o)) /\ (HasValue(Ty(o)) <=> b)
<1>1. /\ p = <<x, y>> /\ x \in 0..18 /\ y \in 0..18 /\ ~ HasCF(x) /\ HasCF(y) /\ HasKey(x) /\ HasKey(y)
      /\ (HasValue(x) <=> b) /\ (HasValue(y) <=> b)
  BY DEF PairOf
<1>2. Ty(o) = IF o.cf = 0 THEN x ELSE y
  OBVIOUS
<1>3. Ty(o) \in 0..18 /\ HasKey(Ty(o)) /\ (HasValue(Ty(o)) <=> b) /\ (~ HasCF(Ty(o)) => o.cf = 0)
  BY <1>1, <1>2
<1>4. Ty(o) \in Byte
  <2>1. 0..18 \subseteq Byte
    BY CodecAssumption DEF Byte
  <2>2. QED
    BY <1>3, <2>1, Zenon
<1>5. Family(p, o.cf) = <<Ty(o)>> \o CFPart(Ty(o), o.cf)
  <2>1. CASE o.cf = 0
    <3>1. <<x>> \o <<>> = <<x>>
      OBVIOUS
    <3>2. QED
      BY <1>1, <1>2, <2>1, <3>1 DEF Family, CFPart
  <2>2. CASE o.cf # 0
    BY <1>1, <1>2, <2>2 DEF Family, CFPart
  <2>3. QED
    BY <2>1, <2>2
<1>6. QED
  BY <1>3, <1>4, <1>5 DEF Fits, Supported

LEMMA EncodeIs ==
  ASSUME NEW o \in Operations
  PROVE  /\ Fits(Ty(o), o.cf, o.key, o.value)
         /\ Encode(o) = <<Ty(o)>> \o FieldsPart(Ty(o), o.cf, o.key, o.value)
<1> DEFINE t == Ty(o)
<1> DEFINE p == o.op \in DOMAIN KeyTags
<1> DEFINE q == o.op \in DOMAIN KeyValueTags
<1> DEFINE r == o.op \in DOMAIN ValueTags
<1>p. p \in BOOLEAN /\ q \in BOOLEAN /\ r \in BOOLEAN
  OBVIOUS
<1>a. /\ p /\ ~ q /\ ~ r => Encode(o) = Family(KeyTags[o.op], o.cf) \o Prefixed(o.key)
      /\ ~ p /\ q /\ ~ r =>
           Encode(o) = Family(KeyValueTags[o.op], o.cf) \o Prefixed(o.key) \o Prefixed(o.value)
      /\ ~ p /\ ~ q /\ r => Encode(o) = <<ValueTags[o.op]>> \o Prefixed(o.value)
      /\ ~ p /\ ~ q /\ ~ r => Encode(o) = <<BareTags[o.op]>>
  <2> DEFINE x == Family(KeyTags[o.op], o.cf) \o Prefixed(o.key)
  <2> DEFINE y == Family(KeyValueTags[o.op], o.cf) \o Prefixed(o.key) \o Prefixed(o.value)
  <2> DEFINE z == <<ValueTags[o.op]>> \o Prefixed(o.value)
  <2> DEFINE w == <<BareTags[o.op]>>
  <2>1. Encode(o) = CASE p -> x [] q -> y [] r -> z [] OTHER -> w
    BY Zenon DEF Encode
  <2> HIDE DEF p, q, r, x, y, z, w
  <2>2. /\ p /\ ~ q /\ ~ r => Encode(o) = x
        /\ ~ p /\ q /\ ~ r => Encode(o) = y
        /\ ~ p /\ ~ q /\ r => Encode(o) = z
        /\ ~ p /\ ~ q /\ ~ r => Encode(o) = w
    BY <1>p, <2>1
  <2>3. QED
    BY <2>2, Zenon DEF x, y, z, w
<1>b. /\ p /\ ~ q /\ ~ r => t = KeyTags[o.op][IF o.cf = 0 THEN 1 ELSE 2]
      /\ ~ p /\ q /\ ~ r => t = KeyValueTags[o.op][IF o.cf = 0 THEN 1 ELSE 2]
      /\ ~ p /\ ~ q /\ r => t = ValueTags[o.op]
      /\ ~ p /\ ~ q /\ ~ r => t = BareTags[o.op]
  <2> DEFINE x == KeyTags[o.op][IF o.cf = 0 THEN 1 ELSE 2]
  <2> DEFINE y == KeyValueTags[o.op][IF o.cf = 0 THEN 1 ELSE 2]
  <2> DEFINE z == ValueTags[o.op]
  <2> DEFINE w == BareTags[o.op]
  <2>1. t = CASE p -> x [] q -> y [] r -> z [] OTHER -> w
    BY TyIs, Zenon
  <2> HIDE DEF p, q, r, t, x, y, z, w
  <2>2. /\ p /\ ~ q /\ ~ r => t = x
        /\ ~ p /\ q /\ ~ r => t = y
        /\ ~ p /\ ~ q /\ r => t = z
        /\ ~ p /\ ~ q /\ ~ r => t = w
    BY <1>p, <2>1
  <2>3. QED
    BY <2>2, Zenon DEF x, y, z, w
<1> HIDE DEF t
<1>1. CASE o \in [op : DOMAIN KeyTags, cf : Families, key : Lengthy, value : {<<>>}]
  <2>1. p /\ ~ q /\ ~ r /\ o.cf \in Families /\ o.key \in Lengthy /\ o.value = <<>>
    BY <1>1, Tables
  <2>2. /\ Fits(t, o.cf, o.key, o.value)
        /\ Family(KeyTags[o.op], o.cf) = <<t>> \o CFPart(t, o.cf)
        /\ HasKey(t) /\ ~ HasValue(t)
    BY <1>b, <2>1, KeyTag, NoBytes, EncodePair DEF t
  <2>3. FieldsPart(t, o.cf, o.key, o.value) = CFPart(t, o.cf) \o Prefixed(o.key)
    <3>1. KeyPart(t, o.key) = Prefixed(o.key) /\ ValuePart(t, o.value) = <<>>
      BY <2>2 DEF KeyPart, ValuePart
    <3>2. KeyPart(t, o.key) \in Seq(Byte)
      BY <2>1, NoBytes, PartsType
    <3>3. Prefixed(o.key) \o <<>> = Prefixed(o.key)
      BY <3>1, <3>2
    <3>4. QED
      BY <3>1, <3>3 DEF FieldsPart
  <2>4. (<<t>> \o CFPart(t, o.cf)) \o Prefixed(o.key) = <<t>> \o (CFPart(t, o.cf) \o Prefixed(o.key))
    <3>1. <<t>> \in Seq(Byte) /\ CFPart(t, o.cf) \in Seq(Byte) /\ Prefixed(o.key) \in Seq(Byte)
      BY <2>1, <2>2, NoBytes, PartsType DEF KeyPart, Fits
    <3>2. QED
      BY <3>1, Associates
  <2>5. QED
    BY <1>a, <2>1, <2>2, <2>3, <2>4 DEF t
<1>2. CASE o \in [op : DOMAIN KeyValueTags, cf : Families, key : Lengthy, value : Lengthy]
  <2>1. ~ p /\ q /\ ~ r /\ o.cf \in Families /\ o.key \in Lengthy /\ o.value \in Lengthy
    BY <1>2, Tables
  <2>2. /\ Fits(t, o.cf, o.key, o.value)
        /\ Family(KeyValueTags[o.op], o.cf) = <<t>> \o CFPart(t, o.cf)
        /\ HasKey(t) /\ HasValue(t)
    BY <1>b, <2>1, KeyValueTag, EncodePair DEF t
  <2>3. KeyPart(t, o.key) = Prefixed(o.key) /\ ValuePart(t, o.value) = Prefixed(o.value)
    BY <2>2 DEF KeyPart, ValuePart
  <2>4. <<t>> \in Seq(Byte) /\ CFPart(t, o.cf) \in Seq(Byte)
        /\ Prefixed(o.key) \in Seq(Byte) /\ Prefixed(o.value) \in Seq(Byte)
    <3>1. <<t>> \in Seq(Byte)
      BY <2>2 DEF Fits
    <3>2. QED
      BY <2>1, <2>3, <3>1, PartsType
  <2>5. ((<<t>> \o CFPart(t, o.cf)) \o Prefixed(o.key)) \o Prefixed(o.value)
          = <<t>> \o (CFPart(t, o.cf) \o (Prefixed(o.key) \o Prefixed(o.value)))
    <3> DEFINE a == <<t>>
    <3> DEFINE b == CFPart(t, o.cf)
    <3> DEFINE c == Prefixed(o.key)
    <3> DEFINE d == Prefixed(o.value)
    <3>1. a \in Seq(Byte) /\ b \in Seq(Byte) /\ c \in Seq(Byte) /\ d \in Seq(Byte)
      BY <2>4
    <3> HIDE DEF a, b, c, d
    <3>2. Cat(Cat(Cat(a, b), c), d) = Cat(a, Cat(b, Cat(c, d)))
      BY <3>1, FourParts
    <3>3. QED
      BY <3>2, Zenon DEF a, b, c, d, Cat
  <2>6. QED
    BY <1>a, <2>1, <2>2, <2>3, <2>5, Zenon DEF t, FieldsPart
<1>3. CASE o \in [op : DOMAIN ValueTags, cf : {0}, key : {<<>>}, value : Lengthy]
  <2>1. /\ ~ p /\ ~ q /\ r
        /\ o.cf = 0 /\ o.key = <<>> /\ o.value \in Lengthy
    BY <1>3, Tables
  <2>2. TypeOf(t, TRUE) /\ Encode(o) = <<t>> \o Prefixed(o.value)
    BY <1>a, <1>b, <2>1, ValueTag
  <2>3. t \in Byte /\ ~ HasCF(t) /\ ~ HasKey(t) /\ HasValue(t) /\ Supported(t)
    BY <2>2, CodecAssumption DEF TypeOf, Byte
  <2>4. ValuePart(t, o.value) \in Seq(Byte)
    BY <2>1, NoBytes, PartsType
  <2>5. FieldsPart(t, o.cf, o.key, o.value) = ValuePart(t, o.value)
    <3>1. CFPart(t, o.cf) = <<>> /\ KeyPart(t, o.key) = <<>>
      BY <2>3 DEF CFPart, KeyPart
    <3>2. <<>> \o (<<>> \o ValuePart(t, o.value)) = ValuePart(t, o.value)
      BY <2>4
    <3>3. QED
      BY <3>1, <3>2 DEF FieldsPart
  <2>6. ValuePart(t, o.value) = Prefixed(o.value)
    BY <2>3 DEF ValuePart
  <2>7. Fits(t, o.cf, o.key, o.value)
    BY <2>1, <2>3, NoBytes DEF Fits
  <2>8. QED
    BY <2>2, <2>5, <2>6, <2>7 DEF t
<1>4. CASE o \in [op : DOMAIN BareTags, cf : {0}, key : {<<>>}, value : {<<>>}]
  <2>1. /\ o.op \in DOMAIN BareTags /\ ~ p /\ ~ q /\ ~ r
        /\ o.cf = 0 /\ o.key = <<>> /\ o.value = <<>>
    BY <1>4, Tables
  <2>2. TypeOf(t, FALSE) /\ Encode(o) = <<t>>
    BY <1>a, <1>b, <2>1, BareTag
  <2>3. t \in Byte /\ ~ HasCF(t) /\ ~ HasKey(t) /\ ~ HasValue(t) /\ Supported(t)
    BY <2>2, CodecAssumption DEF TypeOf, Byte
  <2>4. FieldsPart(t, o.cf, o.key, o.value) = <<>>
    <3>1. CFPart(t, o.cf) = <<>> /\ KeyPart(t, o.key) = <<>> /\ ValuePart(t, o.value) = <<>>
      BY <2>3 DEF CFPart, KeyPart, ValuePart
    <3>2. <<>> \o (<<>> \o <<>>) = <<>>
      OBVIOUS
    <3>3. QED
      BY <3>1, <3>2 DEF FieldsPart
  <2>5. <<t>> \o <<>> = <<t>>
    OBVIOUS
  <2>6. Fits(t, o.cf, o.key, o.value)
    BY <2>1, <2>3, NoBytes DEF Fits
  <2>7. QED
    BY <2>2, <2>4, <2>5, <2>6 DEF t
<1>5. QED
  BY <1>1, <1>2, <1>3, <1>4 DEF Operations

-----------------------------------------------------------------------------
(* The fields of a record, whole and cut short. *)

NoPanic == FALSE

LEMMA WithCFIs ==
  ASSUME NEW d, NEW e, NEW p, NEW t, NEW cf, NEW key, NEW value
  PROVE  WithCF(It(d, e, p, Rec(t, cf, key, value)))
           = IF HasCF(t) THEN PutCF(decodeVarint(It(d, e, p, Rec(t, cf, key, value))).it,
                                    ToInt(decodeVarint(It(d, e, p, Rec(t, cf, key, value))).val))
             ELSE It(d, e, p, Rec(t, cf, key, value))
<1> DEFINE it == It(d, e, p, Rec(t, cf, key, value))
<1>1. it.rec.Type = t
  BY DEF It, Rec
<1>2. WithCF(it) = IF HasCF(it.rec.Type) THEN PutCF(decodeVarint(it).it, ToInt(decodeVarint(it).val)) ELSE it
  BY Zenon DEF WithCF, PutCF
<1> HIDE DEF it
<1>3. QED
  BY <1>1, <1>2 DEF it

LEMMA WithKeyIs ==
  ASSUME NEW d, NEW e, NEW t, NEW cf, NEW key, NEW value
  PROVE  WithKey(It(d, e, NoPanic, Rec(t, cf, key, value)))
           = IF HasKey(t) /\ e = Nil
             THEN PutKey(decodeSlice(It(d, e, NoPanic, Rec(t, cf, key, value))).it,
                         decodeSlice(It(d, e, NoPanic, Rec(t, cf, key, value))).val)
             ELSE It(d, e, NoPanic, Rec(t, cf, key, value))
<1> DEFINE it == It(d, e, NoPanic, Rec(t, cf, key, value))
<1>1. it.rec.Type = t /\ it.err = e /\ it.panic = FALSE
  BY DEF It, Rec, NoPanic
<1>2. WithKey(it) = IF HasKey(it.rec.Type) /\ it.err = Nil /\ ~ it.panic
                    THEN PutKey(decodeSlice(it).it, decodeSlice(it).val) ELSE it
  BY Zenon DEF WithKey, PutKey, Decodable, Nil
<1> HIDE DEF it
<1>3. QED
  BY <1>1, <1>2 DEF it

LEMMA WithValueIs ==
  ASSUME NEW d, NEW e, NEW t, NEW cf, NEW key, NEW value
  PROVE  WithValue(It(d, e, NoPanic, Rec(t, cf, key, value)))
           = IF HasValue(t) /\ e = Nil
             THEN PutValue(decodeSlice(It(d, e, NoPanic, Rec(t, cf, key, value))).it,
                           decodeSlice(It(d, e, NoPanic, Rec(t, cf, key, value))).val)
             ELSE It(d, e, NoPanic, Rec(t, cf, key, value))
<1> DEFINE it == It(d, e, NoPanic, Rec(t, cf, key, value))
<1>1. it.rec.Type = t /\ it.err = e /\ it.panic = FALSE
  BY DEF It, Rec, NoPanic
<1>2. WithValue(it) = IF HasValue(it.rec.Type) /\ it.err = Nil /\ ~ it.panic
                      THEN PutValue(decodeSlice(it).it, decodeSlice(it).val) ELSE it
  BY Zenon DEF WithValue, PutValue, Decodable, Nil
<1> HIDE DEF it
<1>3. QED
  BY <1>1, <1>2 DEF it

LEMMA NothingBefore ==
  ASSUME NEW d \in Seq(Byte)
  PROVE  ~ Before(d, <<>>)
<1>1. ASSUME NEW c \in Seq(Byte), c # <<>>, <<>> = d \o c PROVE FALSE
  <2>1. Len(d \o c) = Len(d) + Len(c) /\ Len(d) \in Nat /\ Len(c) \in Nat /\ Len(c) # 0
    BY <1>1
  <2>2. Len(d \o c) = 0
    BY <1>1
  <2>3. QED
    BY <2>1, <2>2
<1>2. QED
  BY <1>1 DEF Before

LEMMA CFReads ==
  ASSUME NEW t, NEW cf \in Families, HasCF(t) \/ cf = 0, NEW r \in Seq(Byte), NEW key, NEW value
  PROVE  WithCF(It(CFPart(t, cf) \o r, Nil, NoPanic, Rec(t, 0, key, value)))
           = It(r, Nil, NoPanic, Rec(t, cf, key, value))
<1>1. CASE HasCF(t)
  <2>1. cf \in 0..Word - 1 /\ cf < Word \div 2
    BY FitsWord, WordIs DEF Families
  <2> DEFINE it == It(Varint(cf) \o r, Nil, NoPanic, Rec(t, 0, key, value))
  <2>2. decodeVarint(it).val = cf /\ decodeVarint(it).it = It(r, Nil, NoPanic, Rec(t, 0, key, value))
    BY <2>1, VarintReads
  <2>3. ToInt(cf) = cf
    BY <2>1, IntOf
  <2>4. WithCF(it) = PutCF(decodeVarint(it).it, ToInt(decodeVarint(it).val))
    BY <1>1, WithCFIs
  <2> HIDE DEF it
  <2>5. WithCF(it) = PutCF(It(r, Nil, NoPanic, Rec(t, 0, key, value)), cf)
    BY <2>2, <2>3, <2>4
  <2>6. CFPart(t, cf) = Varint(cf)
    BY <1>1 DEF CFPart
  <2>7. QED
    BY <2>5, <2>6, RecWith DEF it
<1>2. CASE ~ HasCF(t)
  <2>1. CFPart(t, cf) = <<>> /\ <<>> \o r = r /\ cf = 0
    BY <1>2 DEF CFPart
  <2>2. WithCF(It(r, Nil, NoPanic, Rec(t, 0, key, value))) = It(r, Nil, NoPanic, Rec(t, 0, key, value))
    BY <1>2, WithCFIs
  <2>3. QED
    BY <2>1, <2>2
<1>3. QED
  BY <1>1, <1>2

\* What is left when a decoder stops at the end of the data.
Stopped(it) ==
  \E d \in Seq(Byte) : \E t, cf, key, value : it = It(d, Short, NoPanic, Rec(t, cf, key, value))

LEMMA CFShort ==
  ASSUME NEW t, NEW cf \in Families, NEW d \in Seq(Byte), Before(d, CFPart(t, cf)), NEW x, NEW key, NEW value
  PROVE  Stopped(WithCF(It(d, Nil, NoPanic, Rec(t, x, key, value))))
<1>1. HasCF(t)
  BY NothingBefore DEF CFPart
<1>2. cf \in 0..Word - 1
  BY FitsWord, WordIs DEF Families
<1> DEFINE it == It(d, Nil, NoPanic, Rec(t, x, key, value))
<1>3. Before(d, Varint(cf))
  BY <1>1 DEF CFPart
<1>4. decodeVarint(it).val = 0 /\ decodeVarint(it).it = It(d, Short, NoPanic, Rec(t, x, key, value))
  BY <1>2, <1>3, VarintShort
<1>5. WithCF(it) = PutCF(decodeVarint(it).it, ToInt(decodeVarint(it).val))
  BY <1>1, WithCFIs
<1> HIDE DEF it
<1>6. WithCF(it) = It(d, Short, NoPanic, Rec(t, ToInt(0), key, value))
  BY <1>4, <1>5, RecWith
<1>7. QED
  BY <1>6, Zenon DEF Stopped, it

LEMMA KeyReads ==
  ASSUME NEW t, NEW s \in Lengthy, HasKey(t) \/ s = <<>>, NEW r \in Seq(Byte), NEW cf, NEW value
  PROVE  WithKey(It(KeyPart(t, s) \o r, Nil, NoPanic, Rec(t, cf, <<>>, value)))
           = It(r, Nil, NoPanic, Rec(t, cf, s, value))
<1> DEFINE n == <<>>
<1> HIDE DEF n
<1>1. CASE HasKey(t)
  <2> DEFINE it == It(Prefixed(s) \o r, Nil, NoPanic, Rec(t, cf, n, value))
  <2>1. decodeSlice(it) = [val |-> s, it |-> It(r, Nil, NoPanic, Rec(t, cf, n, value))]
    BY SliceReads
  <2>2. WithKey(it) = PutKey(decodeSlice(it).it, decodeSlice(it).val)
    BY <1>1, WithKeyIs
  <2> HIDE DEF it
  <2>3. WithKey(it) = PutKey(It(r, Nil, NoPanic, Rec(t, cf, n, value)), s)
    BY <2>1, <2>2
  <2>4. KeyPart(t, s) = Prefixed(s)
    BY <1>1 DEF KeyPart
  <2>5. QED
    BY <2>3, <2>4, RecWith DEF it, n
<1>2. CASE ~ HasKey(t)
  <2>1. KeyPart(t, s) = <<>> /\ <<>> \o r = r /\ s = n
    BY <1>2 DEF KeyPart, n
  <2>2. WithKey(It(r, Nil, NoPanic, Rec(t, cf, n, value))) = It(r, Nil, NoPanic, Rec(t, cf, n, value))
    BY <1>2, WithKeyIs
  <2>3. QED
    BY <2>1, <2>2 DEF n
<1>3. QED
  BY <1>1, <1>2

LEMMA KeyShort ==
  ASSUME NEW t, NEW s \in Lengthy, NEW d \in Seq(Byte), Before(d, KeyPart(t, s)), NEW cf, NEW key, NEW value
  PROVE  Stopped(WithKey(It(d, Nil, NoPanic, Rec(t, cf, key, value))))
<1>1. HasKey(t)
  BY NothingBefore DEF KeyPart
<1> DEFINE it == It(d, Nil, NoPanic, Rec(t, cf, key, value))
<1>2. Before(d, Prefixed(s))
  BY <1>1 DEF KeyPart
<1>3. PICK x \in Seq(Byte) :
        decodeSlice(it) = [val |-> <<>>, it |-> It(x, Short, NoPanic, Rec(t, cf, key, value))]
  BY <1>2, SliceShort
<1>4. WithKey(it) = PutKey(decodeSlice(it).it, decodeSlice(it).val)
  BY <1>1, WithKeyIs
<1> HIDE DEF it
<1>5. WithKey(it) = PutKey(It(x, Short, NoPanic, Rec(t, cf, key, value)), <<>>)
  BY <1>3, <1>4
<1>6. WithKey(it) = It(x, Short, NoPanic, Rec(t, cf, <<>>, value))
  BY <1>5, RecWith
<1>7. QED
  BY <1>6, Zenon DEF Stopped, it

LEMMA ValueReads ==
  ASSUME NEW t, NEW s \in Lengthy, HasValue(t) \/ s = <<>>, NEW r \in Seq(Byte), NEW cf, NEW key
  PROVE  WithValue(It(ValuePart(t, s) \o r, Nil, NoPanic, Rec(t, cf, key, <<>>)))
           = It(r, Nil, NoPanic, Rec(t, cf, key, s))
<1> DEFINE n == <<>>
<1> HIDE DEF n
<1>1. CASE HasValue(t)
  <2> DEFINE it == It(Prefixed(s) \o r, Nil, NoPanic, Rec(t, cf, key, n))
  <2>1. decodeSlice(it) = [val |-> s, it |-> It(r, Nil, NoPanic, Rec(t, cf, key, n))]
    BY SliceReads
  <2>2. WithValue(it) = PutValue(decodeSlice(it).it, decodeSlice(it).val)
    BY <1>1, WithValueIs
  <2> HIDE DEF it
  <2>3. WithValue(it) = PutValue(It(r, Nil, NoPanic, Rec(t, cf, key, n)), s)
    BY <2>1, <2>2
  <2>4. ValuePart(t, s) = Prefixed(s)
    BY <1>1 DEF ValuePart
  <2>5. QED
    BY <2>3, <2>4, RecWith DEF it, n
<1>2. CASE ~ HasValue(t)
  <2>1. ValuePart(t, s) = <<>> /\ <<>> \o r = r /\ s = n
    BY <1>2 DEF ValuePart, n
  <2>2. WithValue(It(r, Nil, NoPanic, Rec(t, cf, key, n))) = It(r, Nil, NoPanic, Rec(t, cf, key, n))
    BY <1>2, WithValueIs
  <2>3. QED
    BY <2>1, <2>2 DEF n
<1>3. QED
  BY <1>1, <1>2

LEMMA ValueShort ==
  ASSUME NEW t, NEW s \in Lengthy, NEW d \in Seq(Byte), Before(d, ValuePart(t, s)), NEW cf, NEW key, NEW value
  PROVE  Stopped(WithValue(It(d, Nil, NoPanic, Rec(t, cf, key, value))))
<1>1. HasValue(t)
  BY NothingBefore DEF ValuePart
<1> DEFINE it == It(d, Nil, NoPanic, Rec(t, cf, key, value))
<1>2. Before(d, Prefixed(s))
  BY <1>1 DEF ValuePart
<1>3. PICK x \in Seq(Byte) :
        decodeSlice(it) = [val |-> <<>>, it |-> It(x, Short, NoPanic, Rec(t, cf, key, value))]
  BY <1>2, SliceShort
<1>4. WithValue(it) = PutValue(decodeSlice(it).it, decodeSlice(it).val)
  BY <1>1, WithValueIs
<1> HIDE DEF it
<1>5. WithValue(it) = PutValue(It(x, Short, NoPanic, Rec(t, cf, key, value)), <<>>)
  BY <1>3, <1>4
<1>6. WithValue(it) = It(x, Short, NoPanic, Rec(t, cf, key, <<>>))
  BY <1>5, RecWith
<1>7. QED
  BY <1>6, Zenon DEF Stopped, it

\* After an error nothing more is decoded.
LEMMA StaysStopped ==
  ASSUME NEW it, Stopped(it)
  PROVE  Stopped(WithKey(it)) /\ Stopped(WithValue(it))
<1>0. PICK d \in Seq(Byte) : \E t, cf, key, value : it = It(d, Short, NoPanic, Rec(t, cf, key, value))
  BY DEF Stopped
<1>1. PICK t, cf, key, value : it = It(d, Short, NoPanic, Rec(t, cf, key, value))
  BY <1>0
<1>2. WithKey(it) = it
  BY <1>1, WithKeyIs, ErrorsDiffer
<1>3. WithValue(it) = it
  BY <1>1, WithValueIs, ErrorsDiffer
<1>4. QED
  BY <1>2, <1>3

-----------------------------------------------------------------------------
(* Next over the bytes of an operation, whole and cut short. *)

LEMMA AdvanceIs ==
  ASSUME NEW t \in Byte, Supported(t), NEW f \in Seq(Byte), NEW rc
  PROVE  Advance(It(<<t>> \o f, Nil, NoPanic, rc))
           = WithValue(WithKey(WithCF(It(f, Nil, NoPanic, Rec(t, 0, <<>>, <<>>)))))
<1> DEFINE d == <<t>> \o f
<1> DEFINE it == It(d, Nil, NoPanic, rc)
<1> DEFINE start == [AfterType(it) EXCEPT
                          !.rec = [Type |-> Head(it.data), CF |-> 0, Key |-> <<>>, Value |-> <<>>],
                          !.err = IF Supported(Head(it.data)) THEN "nil" ELSE "unsupported"]
<1>1. Advance(it) = WithValue(WithKey(WithCF(start)))
  BY Zenon DEF Advance
<1>2. Head(d) = t /\ Tail(d) = f
  OBVIOUS
<1>3. start = It(f, Nil, NoPanic, Rec(t, 0, <<>>, <<>>))
  <2>1. it.data = d
    BY DEF It
  <2> DEFINE r == Rec(t, 0, <<>>, <<>>)
  <2>2. start = [AfterType(it) EXCEPT !.rec = r, !.err = Nil]
    <3> HIDE DEF it, d
    <3>1. Head(it.data) = t
      BY <1>2, <2>1
    <3>2. (IF Supported(Head(it.data)) THEN "nil" ELSE "unsupported") = Nil
      BY <3>1 DEF Nil
    <3>3. [Type |-> Head(it.data), CF |-> 0, Key |-> <<>>, Value |-> <<>>] = r
      BY <3>1 DEF Rec
    <3>4. QED
      BY <3>2, <3>3
  <2>3. AfterType(it) = It(f, Nil, NoPanic, rc)
    <3>1. AfterType(it) = WithData(it, Tail(it.data))
      BY Zenon DEF AfterType, WithData
    <3> HIDE DEF it, d
    <3>2. AfterType(it) = WithData(it, f)
      BY <1>2, <2>1, <3>1
    <3>3. QED
      BY <3>2, ItWith DEF it
  <2> HIDE DEF r, d
  <2> DEFINE a == [data |-> f, err |-> Nil, panic |-> NoPanic, rec |-> rc]
  <2>4. [a EXCEPT !.rec = r, !.err = Nil] = [data |-> f, err |-> Nil, panic |-> NoPanic, rec |-> r]
    <3>1. ASSUME NEW e, NEW p
          PROVE  /\ [[data |-> f, err |-> e, panic |-> p, rec |-> rc] EXCEPT !.rec = r]
                       = [data |-> f, err |-> e, panic |-> p, rec |-> r]
                 /\ [[data |-> f, err |-> e, panic |-> p, rec |-> r] EXCEPT !.err = e]
                       = [data |-> f, err |-> e, panic |-> p, rec |-> r]
      OBVIOUS
    <3>2. [a EXCEPT !.rec = r, !.err = Nil] = [[a EXCEPT !.rec = r] EXCEPT !.err = Nil]
      BY Zenon
    <3>3. QED
      BY <3>1, <3>2, Zenon
  <2>5. It(f, Nil, NoPanic, rc) = a /\ It(f, Nil, NoPanic, r) = [data |-> f, err |-> Nil, panic |-> NoPanic, rec |-> r]
    BY DEF It
  <2> HIDE DEF a
  <2>6. QED
    BY <2>2, <2>3, <2>4, <2>5, Zenon DEF r
<1>4. QED
  BY <1>1, <1>3, Zenon

\* A whole operation is delivered as Record should show it.
LEMMA AdvanceReads ==
  ASSUME NEW o \in Operations, NEW r \in Seq(Byte), NEW rc
  PROVE  Advance(It(Encode(o) \o r, Nil, NoPanic, rc)) = It(r, Nil, NoPanic, Expected(o))
<1> DEFINE t == Ty(o)
<1> DEFINE c == CFPart(t, o.cf)
<1> DEFINE k == KeyPart(t, o.key)
<1> DEFINE v == ValuePart(t, o.value)
<1>1. Fits(t, o.cf, o.key, o.value) /\ Encode(o) = <<t>> \o (c \o (k \o v))
  BY EncodeIs DEF FieldsPart
<1>2. /\ t \in Byte /\ Supported(t) /\ o.cf \in Families /\ o.key \in Lengthy /\ o.value \in Lengthy
      /\ (HasCF(t) \/ o.cf = 0) /\ (HasKey(t) \/ o.key = <<>>) /\ (HasValue(t) \/ o.value = <<>>)
  BY <1>1 DEF Fits
<1>3. c \in Seq(Byte) /\ k \in Seq(Byte) /\ v \in Seq(Byte) /\ <<t>> \in Seq(Byte)
  BY <1>2, PartType
<1>4. /\ WithCF(It(c \o (k \o (v \o r)), Nil, NoPanic, Rec(t, 0, <<>>, <<>>)))
           = It(k \o (v \o r), Nil, NoPanic, Rec(t, o.cf, <<>>, <<>>))
      /\ WithKey(It(k \o (v \o r), Nil, NoPanic, Rec(t, o.cf, <<>>, <<>>)))
           = It(v \o r, Nil, NoPanic, Rec(t, o.cf, o.key, <<>>))
      /\ WithValue(It(v \o r, Nil, NoPanic, Rec(t, o.cf, o.key, <<>>)))
           = It(r, Nil, NoPanic, Rec(t, o.cf, o.key, o.value))
  <2> DEFINE g == v \o r
  <2> DEFINE h == k \o g
  <2> DEFINE n == <<>>
  <2>1. g \in Seq(Byte) /\ h \in Seq(Byte)
    BY <1>3
  <2>2. WithCF(It(c \o h, Nil, NoPanic, Rec(t, 0, n, n))) = It(h, Nil, NoPanic, Rec(t, o.cf, n, n))
    <3> HIDE DEF n, t, h
    <3>1. QED
      BY <1>2, <2>1, CFReads
  <2>3. WithKey(It(k \o g, Nil, NoPanic, Rec(t, o.cf, <<>>, n))) = It(g, Nil, NoPanic, Rec(t, o.cf, o.key, n))
    <3> HIDE DEF n, t, g
    <3>1. QED
      BY <1>2, <2>1, KeyReads
  <2>4. WithValue(It(v \o r, Nil, NoPanic, Rec(t, o.cf, o.key, <<>>)))
           = It(r, Nil, NoPanic, Rec(t, o.cf, o.key, o.value))
    BY <1>2, ValueReads
  <2>5. QED
    BY <2>2, <2>3, <2>4
<1> HIDE DEF t, c, k, v
<1>5. Encode(o) \o r = <<t>> \o (c \o (k \o (v \o r)))
  <2> DEFINE ty == <<t>>
  <2>1. ty \in Seq(Byte)
    BY <1>3
  <2> HIDE DEF ty
  <2>2. Cat(k, v) \in Seq(Byte)
    BY <1>3, CatIs
  <2>3. Cat(Cat(ty, Cat(c, Cat(k, v))), r) = Cat(ty, Cat(c, Cat(Cat(k, v), r)))
    BY <1>3, <2>1, <2>2, FourParts
  <2>4. Cat(Cat(k, v), r) = Cat(k, Cat(v, r))
    BY <1>3, CatAssociates
  <2>5. Cat(Cat(ty, Cat(c, Cat(k, v))), r) = Cat(ty, Cat(c, Cat(k, Cat(v, r))))
    BY <2>3, <2>4
  <2>6. QED
    BY <1>1, <2>5, Zenon DEF ty, Cat
<1>6. Advance(It(<<t>> \o (c \o (k \o (v \o r))), Nil, NoPanic, rc))
        = WithValue(WithKey(WithCF(It(c \o (k \o (v \o r)), Nil, NoPanic, Rec(t, 0, <<>>, <<>>)))))
  <2> DEFINE f == c \o (k \o (v \o r))
  <2>1. f \in Seq(Byte)
    <3>1. v \o r \in Seq(Byte)
      BY <1>3
    <3>2. k \o (v \o r) \in Seq(Byte)
      BY <1>3, <3>1
    <3>3. QED
      BY <1>3, <3>2
  <2> HIDE DEF f
  <2>2. Advance(It(<<t>> \o f, Nil, NoPanic, rc))
          = WithValue(WithKey(WithCF(It(f, Nil, NoPanic, Rec(t, 0, <<>>, <<>>)))))
    BY <1>2, <2>1, AdvanceIs
  <2>3. QED
    BY <2>2 DEF f
<1>7. Expected(o) = Rec(t, o.cf, o.key, o.value)
  BY ExpectedIs DEF t
<1>8. QED
  BY <1>4, <1>5, <1>6, <1>7, Zenon

\* An operation cut short is an error.
LEMMA AdvanceShort ==
  ASSUME NEW o \in Operations, NEW d \in Seq(Byte), d # <<>>, Before(d, Encode(o)), NEW rc
  PROVE  Stopped(Advance(It(d, Nil, NoPanic, rc)))
<1> DEFINE t == Ty(o)
<1> DEFINE c == CFPart(t, o.cf)
<1> DEFINE k == KeyPart(t, o.key)
<1> DEFINE v == ValuePart(t, o.value)
<1>1. Fits(t, o.cf, o.key, o.value) /\ Encode(o) = <<t>> \o (c \o (k \o v))
  BY EncodeIs DEF FieldsPart
<1>2. /\ t \in Byte /\ Supported(t) /\ o.cf \in Families /\ o.key \in Lengthy /\ o.value \in Lengthy
      /\ (HasCF(t) \/ o.cf = 0) /\ (HasKey(t) \/ o.key = <<>>) /\ (HasValue(t) \/ o.value = <<>>)
  BY <1>1 DEF Fits
<1>3. c \in Seq(Byte) /\ k \in Seq(Byte) /\ v \in Seq(Byte) /\ <<t>> \in Seq(Byte)
      /\ k \o v \in Seq(Byte) /\ c \o (k \o v) \in Seq(Byte)
  <2>1. c \in Seq(Byte) /\ k \in Seq(Byte) /\ v \in Seq(Byte) /\ <<t>> \in Seq(Byte)
    BY <1>2, PartType
  <2> HIDE DEF c, k, v
  <2>2. k \o v \in Seq(Byte)
    BY <2>1
  <2>3. c \o (k \o v) \in Seq(Byte)
    BY <2>1, <2>2
  <2>4. QED
    BY <2>1, <2>2, <2>3
<1>4. PICK x \in Seq(Byte) : x # <<>> /\ d \o x = <<t>> \o (c \o (k \o v))
  BY <1>1, Zenon DEF Before
<1> DEFINE start == It(d, Nil, NoPanic, rc)
<1>5. PICK f \in Seq(Byte) : d = <<t>> \o f /\ c \o (k \o v) = f \o x
  <2> HIDE DEF t, c, k, v
  <2>1. Within(d, x, <<t>>, c \o (k \o v)) \/ Before(d, <<t>>)
    BY <1>3, <1>4, BytesEnd
  <2>2. ~ Before(d, <<t>>)
    <3>1. ASSUME NEW y \in Seq(Byte), y # <<>>, <<t>> = d \o y PROVE FALSE
      <4>1. Len(d) \in Nat /\ Len(d) # 0 /\ Len(y) \in Nat /\ Len(y) # 0 /\ Len(d \o y) = Len(d) + Len(y)
        BY <3>1
      <4>2. Len(d \o y) = 1
        <5>1. Len(<<t>>) = 1
          OBVIOUS
        <5>2. QED
          BY <3>1, <5>1, Zenon
      <4>3. QED
        BY <4>1, <4>2
    <3>2. QED
      BY <3>1 DEF Before
  <2>3. QED
    BY <2>1, <2>2 DEF Within
<1> DEFINE i == It(f, Nil, NoPanic, Rec(t, 0, <<>>, <<>>))
<1>6. Advance(It(d, Nil, NoPanic, rc)) = WithValue(WithKey(WithCF(i)))
  BY <1>2, <1>5, AdvanceIs
<1>7. f \o x = c \o (k \o v)
  BY <1>5
<1>8. Within(f, x, c, k \o v) \/ Before(f, c)
  <2> HIDE DEF c, k, v
  <2>1. QED
    BY <1>3, <1>4, <1>7, BytesEnd
<1>9. CASE Before(f, c)
  <2>1. Stopped(WithCF(i))
    <3> DEFINE n == <<>>
    <3> HIDE DEF n
    <3>1. Stopped(WithCF(It(f, Nil, NoPanic, Rec(t, 0, n, n))))
      BY <1>2, <1>5, <1>9, CFShort
    <3>2. QED
      BY <3>1 DEF n
  <2>2. QED
    BY <1>6, <2>1, StaysStopped
<1>10. CASE Within(f, x, c, k \o v)
  <2>1. PICK g \in Seq(Byte) : f = c \o g /\ k \o v = g \o x
    BY <1>10, Zenon DEF Within
  <2> DEFINE j == It(g, Nil, NoPanic, Rec(t, o.cf, <<>>, <<>>))
  <2>2. WithCF(i) = j
    <3> DEFINE n == <<>>
    <3>1. f = CFPart(t, o.cf) \o g
      BY <2>1
    <3> HIDE DEF n, t
    <3>2. WithCF(It(CFPart(t, o.cf) \o g, Nil, NoPanic, Rec(t, 0, n, n)))
            = It(g, Nil, NoPanic, Rec(t, o.cf, n, n))
      BY <1>2, <2>1, CFReads
    <3>3. QED
      BY <3>1, <3>2, Zenon DEF n
  <2>3. Within(g, x, k, v) \/ Before(g, k)
    <3> HIDE DEF c, k, v
    <3>1. g \o x = k \o v
      BY <2>1
    <3>2. QED
      BY <1>3, <1>4, <2>1, <3>1, BytesEnd
  <2>4. CASE Before(g, k)
    <3>1. Stopped(WithKey(j))
      <4> DEFINE n == <<>>
      <4> HIDE DEF n
      <4>1. Stopped(WithKey(It(g, Nil, NoPanic, Rec(t, o.cf, n, n))))
        BY <1>2, <2>1, <2>4, KeyShort
      <4>2. QED
        BY <4>1 DEF n
    <3>2. QED
      BY <1>6, <2>2, <3>1, StaysStopped
  <2>5. CASE Within(g, x, k, v)
    <3>1. PICK h \in Seq(Byte) : g = k \o h /\ v = h \o x
      BY <2>5, Zenon DEF Within
    <3>2. Before(h, v)
      BY <1>4, <3>1, Zenon DEF Before
    <3>3. WithKey(j) = It(h, Nil, NoPanic, Rec(t, o.cf, o.key, <<>>))
      <4> DEFINE n == <<>>
      <4>1. g = KeyPart(t, o.key) \o h
        BY <3>1
      <4> HIDE DEF n, t
      <4>2. WithKey(It(KeyPart(t, o.key) \o h, Nil, NoPanic, Rec(t, o.cf, <<>>, n)))
              = It(h, Nil, NoPanic, Rec(t, o.cf, o.key, n))
        BY <1>2, <3>1, KeyReads
      <4>3. QED
        BY <4>1, <4>2, Zenon DEF n
    <3>4. Stopped(WithValue(It(h, Nil, NoPanic, Rec(t, o.cf, o.key, <<>>))))
      <4> DEFINE n == <<>>
      <4> HIDE DEF n
      <4>1. Stopped(WithValue(It(h, Nil, NoPanic, Rec(t, o.cf, o.key, n))))
        BY <1>2, <3>1, <3>2, ValueShort
      <4>2. QED
        BY <4>1 DEF n
    <3>5. QED
      BY <1>6, <2>2, <3>3, <3>4, Zenon
  <2>6. QED
    BY <2>3, <2>4, <2>5
<1>11. QED
  BY <1>8, <1>9, <1>10

-----------------------------------------------------------------------------
(* The decoders over any bytes: what they leave is the end of what they had. *)

Errs == {Nil, Short, Malformed, "unsupported"}
CFs == -Word..Word
Bytes == Seq(Byte)

IsIter(it) ==
  \E d \in Bytes, e \in Errs, p \in BOOLEAN, t \in Byte, cf \in CFs, key \in Bytes, value \in Bytes :
    it = It(d, e, p, Rec(t, cf, key, value))

EndOf(s, t) == \E n \in 0..Len(t) : s = DropFirst(t, n)

LEMMA EndOfSelf ==
  ASSUME NEW s \in Bytes
  PROVE  EndOf(s, s)
<1>1. Len(s) \in Nat /\ DropFirst(s, 0) = s
  BY DEF DropFirst, Bytes
<1>2. QED
  BY <1>1 DEF EndOf

LEMMA EndOfType ==
  ASSUME NEW s, NEW t \in Bytes, EndOf(s, t)
  PROVE  s \in Bytes
BY DropFirstIs DEF EndOf, Bytes

LEMMA EndOfEnd ==
  ASSUME NEW s, NEW t, NEW u \in Bytes, EndOf(s, t), EndOf(t, u)
  PROVE  EndOf(s, u)
<1>1. PICK n \in 0..Len(u) : t = DropFirst(u, n)
  BY DEF EndOf
<1>2. PICK m \in 0..Len(t) : s = DropFirst(t, m)
  BY DEF EndOf
<1>3. /\ t \in Seq(Byte) /\ Len(t) = Len(u) - n /\ \A i \in 1..Len(u) - n : t[i] = u[i + n]
      /\ Len(u) \in Nat /\ n \in Nat /\ u \in Seq(Byte)
  <2>1. u \in Seq(Byte) /\ Len(u) \in Nat /\ n \in Nat
    BY <1>1 DEF Bytes
  <2>2. /\ DropFirst(u, n) \in Seq(Byte) /\ Len(DropFirst(u, n)) = Len(u) - n
        /\ \A i \in 1..Len(u) - n : DropFirst(u, n)[i] = u[i + n]
    BY <1>1, <2>1, DropFirstIs
  <2>3. QED
    BY <1>1, <2>1, <2>2
<1>4. s \in Seq(Byte) /\ Len(s) = Len(t) - m /\ \A i \in 1..Len(t) - m : s[i] = t[i + m]
  BY <1>2, <1>3, DropFirstIs
<1>5. n + m \in 0..Len(u) /\ m \in Nat
  BY <1>2, <1>3
<1> DEFINE r == DropFirst(u, n + m)
<1>6. r \in Seq(Byte) /\ Len(r) = Len(u) - (n + m) /\ \A i \in 1..Len(u) - (n + m) : r[i] = u[i + (n + m)]
  BY <1>3, <1>5, DropFirstIs
<1> HIDE DEF r
<1>7. Len(s) = Len(r)
  BY <1>3, <1>4, <1>5, <1>6
<1>8. ASSUME NEW i \in 1..Len(s) PROVE s[i] = r[i]
  <2>1. i + m \in 1..Len(u) - n /\ i \in 1..Len(t) - m /\ i \in 1..Len(u) - (n + m)
        /\ (i + m) + n = i + (n + m)
    BY <1>3, <1>4, <1>5, <1>6
  <2>2. s[i] = t[i + m] /\ t[i + m] = u[(i + m) + n] /\ r[i] = u[i + (n + m)]
    BY <1>3, <1>4, <1>6, <2>1
  <2>3. QED
    BY <2>1, <2>2
<1>9. s = r
  BY <1>4, <1>6, <1>7, <1>8, SameBytes
<1>10. QED
  BY <1>5, <1>9 DEF EndOf, r

LEMMA UvarintPair ==
  ASSUME NEW d
  PROVE  Uvarint(d) = [v |-> Uvarint(d).v, n |-> Uvarint(d).n]
<1>1. CASE Last_(d) = {}
  <2>1. Uvarint(d) = [v |-> 0, n |-> IF Len(d) > MaxVarintLen THEN -(MaxVarintLen + 1) ELSE 0]
    BY <1>1, UvarintNone
  <2>2. QED
    BY <2>1
<1>2. CASE Last_(d) # {}
  <2> DEFINE k == CHOOSE i \in Last_(d) : \A j \in Last_(d) : i <= j
  <2>1. Uvarint(d) = IF k = MaxVarintLen /\ d[k] > 1 THEN [v |-> 0, n |-> -k]
                     ELSE [v |-> DigitsValue(SubSeq(d, 1, k)), n |-> k]
    BY <1>2 DEF Uvarint, Last_
  <2> HIDE DEF k
  <2>2. QED
    BY <2>1
<1>3. QED
  BY <1>1, <1>2

\* The iterator after a varint.
LEMMA decodeVarintType ==
  ASSUME NEW d \in Bytes, NEW e \in Errs, NEW p, NEW rc
  PROVE  /\ decodeVarint(It(d, e, p, rc)).val \in 0..Word - 1
         /\ \E x \in Bytes, f \in Errs :
              EndOf(x, d) /\ decodeVarint(It(d, e, p, rc)).it = It(x, f, p, rc)
<1> DEFINE v == Uvarint(d).v
<1> DEFINE n == Uvarint(d).n
<1> DEFINE it == It(d, e, p, rc)
<1>1. v \in 0..Word - 1 /\ n \in Int /\ n <= Len(d) /\ d \in Seq(Byte) /\ Len(d) \in Nat
  BY UvarintType DEF Bytes
<1>2. Uvarint(d) = [v |-> v, n |-> n]
  BY UvarintPair
<1> HIDE DEF v, n
<1>3. /\ decodeVarint(it).val = v
      /\ n > 0 => decodeVarint(it).it = It(DropFirst(d, n), e, p, rc)
      /\ n = 0 => decodeVarint(it).it = It(d, Short, p, rc)
      /\ n < 0 => decodeVarint(it).it = It(d, Malformed, p, rc)
  BY <1>1, <1>2, decodeVarintIs
<1> HIDE DEF it
<1>4. Short \in Errs /\ Malformed \in Errs /\ EndOf(d, d)
  BY EndOfSelf DEF Errs
<1>5. \E x \in Bytes, f \in Errs : EndOf(x, d) /\ decodeVarint(it).it = It(x, f, p, rc)
  <2>1. CASE n > 0
    <3>1. EndOf(DropFirst(d, n), d)
      BY <1>1, <2>1 DEF EndOf
    <3>2. DropFirst(d, n) \in Bytes
      BY <3>1, EndOfType
    <3>3. QED
      BY <1>3, <2>1, <3>1, <3>2
  <2>2. CASE n = 0
    BY <1>3, <1>4, <2>2
  <2>3. CASE n < 0
    BY <1>3, <1>4, <2>3
  <2>4. QED
    BY <1>1, <2>1, <2>2, <2>3
<1>6. QED
  BY <1>1, <1>3, <1>5 DEF it

\* And after a slice.
LEMMA decodeSliceType ==
  ASSUME NEW d \in Bytes, NEW e \in Errs, NEW p \in BOOLEAN, NEW rc
  PROVE  /\ decodeSlice(It(d, e, p, rc)).val \in Bytes
         /\ \E x \in Bytes, f \in Errs, q \in BOOLEAN :
              EndOf(x, d) /\ decodeSlice(It(d, e, p, rc)).it = It(x, f, q, rc)
<1> DEFINE it == It(d, e, p, rc)
<1>1. decodeVarint(it).val \in 0..Word - 1
  BY decodeVarintType
<1>2. PICK x \in Bytes, f \in Errs : EndOf(x, d) /\ decodeVarint(it).it = It(x, f, p, rc)
  BY decodeVarintType
<1> HIDE DEF it
<1> DEFINE l == ToInt(decodeVarint(it).val)
<1>3. l \in Int
  BY <1>1, WordIs, IntOf
<1>4. l = ToInt(decodeVarint(it).val) /\ x \in Seq(Byte) /\ decodeVarint(it).it = It(x, f, p, rc)
  BY <1>2 DEF Bytes
<1> HIDE DEF l
<1>5. decodeSlice(it) = Sliced(l, x, f, p, rc)
  BY <1>3, <1>4, decodeSliceIs
<1>6. <<>> \in Bytes /\ Short \in Errs /\ TRUE \in BOOLEAN /\ Len(x) \in Nat
  BY <1>4 DEF Bytes, Errs
<1>7. CASE l > Len(x)
  <2>1. decodeSlice(it) = [val |-> <<>>, it |-> It(x, Short, p, rc)]
    BY <1>5, <1>7 DEF Sliced
  <2>2. decodeSlice(it).val = <<>> /\ decodeSlice(it).it = It(x, Short, p, rc)
    BY <2>1
  <2>3. QED
    BY <1>2, <1>6, <2>2, Zenon DEF it
<1>8. CASE ~ (l > Len(x)) /\ f # Nil
  <2>1. decodeSlice(it) = [val |-> <<>>, it |-> It(x, f, p, rc)]
    BY <1>5, <1>8 DEF Sliced
  <2>2. decodeSlice(it).val = <<>> /\ decodeSlice(it).it = It(x, f, p, rc)
    BY <2>1
  <2>3. QED
    BY <1>2, <1>6, <2>2, Zenon DEF it
<1>9. CASE ~ (l > Len(x)) /\ f = Nil /\ l >= 0
  <2> DEFINE a == SubSeq(x, 1, l)
  <2> DEFINE b == It(DropFirst(x, l), f, p, rc)
  <2>1. decodeSlice(it) = [val |-> a, it |-> b]
    BY <1>5, <1>9 DEF Sliced
  <2> HIDE DEF a, b
  <2>a. decodeSlice(it).val = a /\ decodeSlice(it).it = b
    BY <2>1
  <2>2. decodeSlice(it).val = SubSeq(x, 1, l) /\ decodeSlice(it).it = It(DropFirst(x, l), f, p, rc)
    BY <2>a, Zenon DEF a, b
  <2>3. l \in 0..Len(x)
    BY <1>3, <1>6, <1>9
  <2>4. SubSeq(x, 1, l) \in Bytes /\ DropFirst(x, l) \in Bytes
    BY <1>4, <2>3, FirstIs, DropFirstIs DEF Bytes
  <2>5. EndOf(DropFirst(x, l), x)
    BY <2>3 DEF EndOf
  <2>6. EndOf(DropFirst(x, l), d)
    BY <1>2, <2>5, EndOfEnd
  <2>7. QED
    BY <1>2, <2>2, <2>4, <2>6, Zenon DEF it
<1>10. CASE ~ (l > Len(x)) /\ f = Nil /\ ~ (l >= 0)
  <2>1. decodeSlice(it) = [val |-> <<>>, it |-> It(x, f, TRUE, rc)]
    BY <1>5, <1>10 DEF Sliced
  <2>2. decodeSlice(it).val = <<>> /\ decodeSlice(it).it = It(x, f, TRUE, rc)
    BY <2>1
  <2>3. QED
    BY <1>2, <1>6, <2>2, Zenon DEF it
<1>11. QED
  BY <1>7, <1>8, <1>9, <1>10

\* A field leaves an iterator over the end of the data.
Reads(it, jt) == IsIter(jt) /\ EndOf(jt.data, it.data)

LEMMA IsIterIntro ==
  ASSUME NEW d \in Bytes, NEW e \in Errs, NEW p \in BOOLEAN, NEW t \in Byte, NEW cf \in CFs,
         NEW key \in Bytes, NEW value \in Bytes
  PROVE  IsIter(It(d, e, p, Rec(t, cf, key, value)))
BY Zenon DEF IsIter

LEMMA ReadsIntro ==
  ASSUME NEW it, NEW jt, NEW d \in Bytes, NEW e \in Errs, NEW p \in BOOLEAN, NEW t \in Byte, NEW cf \in CFs,
         NEW key \in Bytes, NEW value \in Bytes, jt = It(d, e, p, Rec(t, cf, key, value)), EndOf(d, it.data)
  PROVE  Reads(it, jt)
<1>1. IsIter(jt)
  BY Zenon DEF IsIter
<1>2. jt.data = d
  BY ItHas
<1>3. QED
  BY <1>1, <1>2 DEF Reads

LEMMA IterData ==
  ASSUME NEW it, IsIter(it)
  PROVE  it.data \in Bytes /\ it.err \in Errs /\ it.panic \in BOOLEAN /\ it.rec.CF \in CFs
         /\ it = It(it.data, it.err, it.panic, it.rec)
<1>1. PICK d \in Bytes, e \in Errs, p \in BOOLEAN, t \in Byte, cf \in CFs, key \in Bytes, value \in Bytes :
        it = It(d, e, p, Rec(t, cf, key, value))
  BY DEF IsIter
<1>2. it.data = d /\ it.err = e /\ it.panic = p /\ it.rec = Rec(t, cf, key, value)
  BY <1>1, ItHas
<1>3. it.rec.CF = cf
  BY <1>2 DEF Rec
<1>4. QED
  BY <1>1, <1>2, <1>3

LEMMA ReadsSame ==
  ASSUME NEW it, IsIter(it)
  PROVE  Reads(it, it)
BY IterData, EndOfSelf DEF Reads

LEMMA WithCFType ==
  ASSUME NEW it, IsIter(it)
  PROVE  Reads(it, WithCF(it))
<1>1. PICK d \in Bytes, e \in Errs, p \in BOOLEAN, t \in Byte, cf \in CFs, key \in Bytes, value \in Bytes :
        it = It(d, e, p, Rec(t, cf, key, value))
  BY DEF IsIter
<1>2. CASE WithCF(it) = it
  BY <1>2, ReadsSame
<1>3. CASE WithCF(it) # it
  <2>1. WithCF(it) = PutCF(decodeVarint(it).it, ToInt(decodeVarint(it).val))
    BY <1>3, Zenon DEF WithCF, PutCF
  <2>2. ToInt(decodeVarint(it).val) \in CFs
    BY <1>1, decodeVarintType, IntOf DEF CFs
  <2>3. PICK x \in Bytes, f \in Errs :
          EndOf(x, d) /\ decodeVarint(it).it = It(x, f, p, Rec(t, cf, key, value))
    BY <1>1, decodeVarintType
  <2>4. WithCF(it) = It(x, f, p, Rec(t, ToInt(decodeVarint(it).val), key, value))
    BY <2>1, <2>3, RecWith
  <2>5. EndOf(x, it.data)
    BY <1>1, <2>3, ItHas
  <2>6. QED
    BY <2>2, <2>4, <2>5, ReadsIntro
<1>4. QED
  BY <1>2, <1>3

LEMMA WithKeyType ==
  ASSUME NEW it, IsIter(it)
  PROVE  Reads(it, WithKey(it))
<1>1. PICK d \in Bytes, e \in Errs, p \in BOOLEAN, t \in Byte, cf \in CFs, key \in Bytes, value \in Bytes :
        it = It(d, e, p, Rec(t, cf, key, value))
  BY DEF IsIter
<1>2. CASE WithKey(it) = it
  BY <1>2, ReadsSame
<1>3. CASE WithKey(it) # it
  <2>1. WithKey(it) = PutKey(decodeSlice(it).it, decodeSlice(it).val)
    BY <1>3, Zenon DEF WithKey, PutKey
  <2>2. decodeSlice(it).val \in Bytes
    BY <1>1, decodeSliceType
  <2>3. PICK x \in Bytes, f \in Errs, q \in BOOLEAN :
          EndOf(x, d) /\ decodeSlice(it).it = It(x, f, q, Rec(t, cf, key, value))
    BY <1>1, decodeSliceType
  <2>4. WithKey(it) = It(x, f, q, Rec(t, cf, decodeSlice(it).val, value))
    BY <2>1, <2>3, RecWith
  <2>5. EndOf(x, it.data)
    BY <1>1, <2>3, ItHas
  <2>6. QED
    BY <2>2, <2>4, <2>5, ReadsIntro
<1>4. QED
  BY <1>2, <1>3

LEMMA WithValueType ==
  ASSUME NEW it, IsIter(it)
  PROVE  Reads(it, WithValue(it))
<1>1. PICK d \in Bytes, e \in Errs, p \in BOOLEAN, t \in Byte, cf \in CFs, key \in Bytes, value \in Bytes :
        it = It(d, e, p, Rec(t, cf, key, value))
  BY DEF IsIter
<1>2. CASE WithValue(it) = it
  BY <1>2, ReadsSame
<1>3. CASE WithValue(it) # it
  <2>1. WithValue(it) = PutValue(decodeSlice(it).it, decodeSlice(it).val)
    BY <1>3, Zenon DEF WithValue, PutValue
  <2>2. decodeSlice(it).val \in Bytes
    BY <1>1, decodeSliceType
  <2>3. PICK x \in Bytes, f \in Errs, q \in BOOLEAN :
          EndOf(x, d) /\ decodeSlice(it).it = It(x, f, q, Rec(t, cf, key, value))
    BY <1>1, decodeSliceType
  <2>4. WithValue(it) = It(x, f, q, Rec(t, cf, key, decodeSlice(it).val))
    BY <2>1, <2>3, RecWith
  <2>5. EndOf(x, it.data)
    BY <1>1, <2>3, ItHas
  <2>6. QED
    BY <2>2, <2>4, <2>5, ReadsIntro
<1>4. QED
  BY <1>2, <1>3

\* Next consumes the type at least.
LEMMA AdvanceType ==
  ASSUME NEW it, IsIter(it), it.data # <<>>
  PROVE  IsIter(Advance(it)) /\ EndOf(Advance(it).data, DropFirst(it.data, 1))
<1>1. PICK d \in Bytes, e \in Errs, p \in BOOLEAN, t \in Byte, cf \in CFs, key \in Bytes, value \in Bytes :
        it = It(d, e, p, Rec(t, cf, key, value))
  BY DEF IsIter
<1>2. it.data = d
  BY <1>1, ItHas
<1> DEFINE h == Head(it.data)
<1> DEFINE r == [Type |-> h, CF |-> 0, Key |-> <<>>, Value |-> <<>>]
<1> DEFINE g == IF Supported(h) THEN "nil" ELSE "unsupported"
<1> DEFINE a == AfterType(it)
<1> DEFINE start == [a EXCEPT !.rec = r, !.err = g]
<1>3. Advance(it) = WithValue(WithKey(WithCF(start)))
  BY Zenon DEF Advance
<1>4. Head(d) \in Byte /\ Tail(d) \in Bytes /\ Tail(d) = DropFirst(d, 1)
  <2>1. d \in Seq(Byte) /\ d # <<>> /\ Len(d) \in Nat
    BY <1>2 DEF Bytes
  <2>2. QED
    BY <2>1 DEF DropFirst, Bytes
<1>5. g \in Errs /\ 0 \in CFs /\ <<>> \in Bytes
  BY WordIs DEF Errs, CFs, Bytes, Nil
<1>6. r = Rec(Head(d), 0, <<>>, <<>>)
  BY <1>2 DEF Rec
<1>7. a = It(Tail(d), e, p, Rec(t, cf, key, value))
  <2>1. a = WithData(it, Tail(it.data))
    BY Zenon DEF AfterType, WithData
  <2>2. QED
    BY <1>1, <1>2, <2>1, ItWith
<1>8. start = It(Tail(d), g, p, r)
  <2> DEFINE rc == Rec(t, cf, key, value)
  <2> DEFINE b == Tail(d)
  <2>1. start = [a EXCEPT !.rec = r, !.err = g]
    OBVIOUS
  <2> HIDE DEF r, g, h
  <2>2. a = [data |-> b, err |-> e, panic |-> p, rec |-> rc]
    BY <1>7, Zenon DEF It
  <2> HIDE DEF a, b, rc
  <2>3. [a EXCEPT !.rec = r, !.err = g] = [[a EXCEPT !.rec = r] EXCEPT !.err = g]
    BY Zenon
  <2>4. ASSUME NEW x, NEW y
        PROVE  [[data |-> b, err |-> x, panic |-> y, rec |-> rc] EXCEPT !.rec = r]
                 = [data |-> b, err |-> x, panic |-> y, rec |-> r]
    OBVIOUS
  <2>a. ASSUME NEW x, NEW y, NEW z
        PROVE  [[data |-> b, err |-> x, panic |-> y, rec |-> r] EXCEPT !.err = z]
                 = [data |-> b, err |-> z, panic |-> y, rec |-> r]
    OBVIOUS
  <2>5. [[data |-> b, err |-> e, panic |-> p, rec |-> rc] EXCEPT !.rec = r]
          = [data |-> b, err |-> e, panic |-> p, rec |-> r]
    BY <2>4, Zenon
  <2>6. [[data |-> b, err |-> e, panic |-> p, rec |-> r] EXCEPT !.err = g]
          = [data |-> b, err |-> g, panic |-> p, rec |-> r]
    BY <2>a, Zenon
  <2>7. start = [data |-> b, err |-> g, panic |-> p, rec |-> r]
    BY <2>1, <2>2, <2>3, <2>5, <2>6, Zenon
  <2>8. QED
    BY <2>7, Zenon DEF It, b
<1> HIDE DEF r, g, h, start
<1>9. IsIter(start) /\ start.data = DropFirst(it.data, 1)
  <2>1. IsIter(start)
    <3> DEFINE n == <<>>
    <3> DEFINE z == 0
    <3> DEFINE x == Head(d)
    <3> DEFINE b == Tail(d)
    <3>1. start = It(b, g, p, Rec(x, z, n, n)) /\ x \in Byte /\ b \in Bytes /\ n \in Bytes /\ z \in CFs
      BY <1>4, <1>5, <1>6, <1>8, Zenon
    <3> HIDE DEF n, z, x, b
    <3>2. IsIter(It(b, g, p, Rec(x, z, n, n)))
      BY <1>5, <3>1, IsIterIntro
    <3>3. QED
      BY <3>1, <3>2
  <2>2. start.data = Tail(d)
    BY <1>8 DEF It
  <2>3. QED
    BY <1>2, <1>4, <2>1, <2>2
<1> DEFINE i == WithCF(start)
<1> DEFINE j == WithKey(i)
<1>10. IsIter(i) /\ EndOf(i.data, start.data)
  BY <1>9, WithCFType DEF Reads
<1>11. IsIter(j) /\ EndOf(j.data, i.data)
  BY <1>10, WithKeyType DEF Reads
<1> HIDE DEF i, j
<1>12. IsIter(WithValue(j)) /\ EndOf(WithValue(j).data, j.data)
  BY <1>11, WithValueType DEF Reads
<1>13. EndOf(WithValue(j).data, start.data)
  <2>1. i.data \in Bytes /\ start.data \in Bytes
    BY <1>9, <1>10, IterData
  <2>2. EndOf(j.data, start.data)
    BY <1>10, <1>11, <2>1, EndOfEnd
  <2>3. QED
    BY <1>12, <2>1, <2>2, EndOfEnd
<1>14. QED
  BY <1>3, <1>9, <1>12, <1>13 DEF i, j

-----------------------------------------------------------------------------
(* The bytes of a batch. *)

\* The bytes of its first k operations.
UpTo(b, k) == Data(SubSeq(b, 1, k))

LEMMA EncodeType ==
  ASSUME NEW o \in Operations
  PROVE  Encode(o) \in Bytes /\ Len(Encode(o)) \in Nat \ {0}
<1> DEFINE f == FieldsPart(Ty(o), o.cf, o.key, o.value)
<1>1. Fits(Ty(o), o.cf, o.key, o.value) /\ Encode(o) = <<Ty(o)>> \o f
  BY EncodeIs
<1>2. f \in Seq(Byte) /\ Ty(o) \in Byte
  BY <1>1, PartsType DEF Fits
<1> HIDE DEF f
<1>3. <<Ty(o)>> \o f \in Seq(Byte) /\ Len(<<Ty(o)>> \o f) = 1 + Len(f) /\ Len(f) \in Nat
  BY <1>2
<1>4. QED
  BY <1>1, <1>3 DEF Bytes

LEMMA HeaderIs == Header \in Bytes /\ Len(Header) = HeaderLen /\ HeaderLen = 12
<1>1. 0 \in Byte
  BY CodecAssumption DEF Byte
<1>2. HeaderLen = 12
  BY DEF HeaderLen
<1>3. Header \in Seq(Byte) /\ Len(Header) = HeaderLen
  BY <1>1, <1>2 DEF Header
<1>4. QED
  BY <1>2, <1>3 DEF Bytes

\* The encodings of a batch's operations.
Encodings(b) == [i \in 1..Len(b) |-> Encode(b[i])]

LEMMA EncodingsType ==
  ASSUME NEW b \in Seq(Operations)
  PROVE  Encodings(b) \in Seq(Bytes) /\ Len(Encodings(b)) = Len(b)
<1>1. \A i \in 1..Len(b) : Encode(b[i]) \in Bytes
  BY EncodeType
<1>2. QED
  BY <1>1 DEF Encodings

LEMMA DataType ==
  ASSUME NEW b \in Seq(Operations)
  PROVE  Data(b) \in Bytes /\ Records(b) \in Bytes
<1>1. FlattenSeq(Encodings(b)) \in Seq(Byte)
  <2>1. Encodings(b) \in Seq(Seq(Byte))
    BY EncodingsType DEF Bytes
  <2>2. QED
    BY <2>1, FlattenType
<1>2. Records(b) \in Seq(Byte)
  BY <1>1 DEF Records, Encodings
<1>3. Header \in Seq(Byte)
  BY HeaderIs DEF Bytes
<1>4. QED
  BY <1>2, <1>3 DEF Data, Bytes

LEMMA UpToType ==
  ASSUME NEW b \in Seq(Operations), NEW k \in 0..Len(b)
  PROVE  UpTo(b, k) \in Bytes /\ Len(UpTo(b, k)) \in Nat
<1>1. SubSeq(b, 1, k) \in Seq(Operations)
  OBVIOUS
<1>2. UpTo(b, k) \in Bytes
  BY <1>1, DataType DEF UpTo
<1>3. QED
  BY <1>2 DEF Bytes

LEMMA UpToZero ==
  ASSUME NEW b
  PROVE  UpTo(b, 0) = Header
<1>1. SubSeq(b, 1, 0) = <<>>
  OBVIOUS
<1>2. Encodings(<<>>) = <<>>
  BY DEF Encodings
<1>3. Records(<<>>) = <<>>
  BY <1>2, FlattenEmpty DEF Records, Encodings
<1>4. Header \o <<>> = Header
  BY HeaderIs DEF Bytes
<1>5. QED
  BY <1>1, <1>3, <1>4 DEF UpTo, Data

LEMMA UpToAll ==
  ASSUME NEW b \in Seq(Operations)
  PROVE  UpTo(b, Len(b)) = Data(b)
<1>1. SubSeq(b, 1, Len(b)) = b
  OBVIOUS
<1>2. QED
  BY <1>1 DEF UpTo

LEMMA UpToStep ==
  ASSUME NEW b \in Seq(Operations), NEW k \in Nat, k + 1 <= Len(b)
  PROVE  UpTo(b, k + 1) = UpTo(b, k) \o Encode(b[k + 1])
<1> DEFINE x == SubSeq(b, 1, k)
<1> DEFINE y == SubSeq(b, 1, k + 1)
<1> DEFINE e == Encode(b[k + 1])
<1>1. /\ x \in Seq(Operations) /\ Len(x) = k /\ y \in Seq(Operations) /\ Len(y) = k + 1
      /\ \A i \in 1..k : x[i] = b[i]
      /\ \A j \in 1..k + 1 : y[j] = b[j]
      /\ b[k + 1] \in Operations
  <2>1. k \in 0..Len(b) /\ k + 1 \in 0..Len(b) /\ k + 1 \in 1..Len(b)
    OBVIOUS
  <2>2. x \in Seq(Operations) /\ Len(x) = k /\ \A i \in 1..k : x[i] = b[i]
    BY <2>1, FirstIs
  <2>3. y \in Seq(Operations) /\ Len(y) = k + 1 /\ \A i \in 1..k + 1 : y[i] = b[i]
    BY <2>1, FirstIs
  <2>4. QED
    BY <2>1, <2>2, <2>3
<1>2. y = Append(x, b[k + 1])
  <2> DEFINE z == Append(x, b[k + 1])
  <2> HIDE DEF x, y
  <2>1. z \in Seq(Operations) /\ Len(z) = k + 1 /\ z[k + 1] = b[k + 1] /\ \A i \in 1..k : z[i] = x[i]
    BY <1>1
  <2> HIDE DEF z
  <2>2. ASSUME NEW i \in 1..k + 1 PROVE y[i] = z[i]
    <3>1. CASE i = k + 1
      BY <1>1, <2>1, <3>1
    <3>2. CASE i # k + 1
      <4>1. i \in 1..k
        BY <3>2
      <4>2. QED
        BY <1>1, <2>1, <4>1
    <3>3. QED
      BY <3>1, <3>2
  <2>3. y = z
    BY <1>1, <2>1, <2>2, SameBytes
  <2>4. QED
    BY <2>3 DEF z
<1>3. e \in Seq(Byte) /\ Encodings(x) \in Seq(Seq(Byte)) /\ Len(Encodings(x)) = k
  BY <1>1, EncodeType, EncodingsType DEF Bytes
<1>4. Encodings(y) = Append(Encodings(x), e)
  <2> DEFINE s == Encodings(x)
  <2> DEFINE t == Append(s, e)
  <2>1. \A i \in 1..k + 1 : y[i] = IF i = k + 1 THEN b[k + 1] ELSE x[i]
    <3> HIDE DEF x, y
    <3>1. QED
      BY <1>1, <1>2
  <2> HIDE DEF x, y
  <2>2. \A i \in 1..k : s[i] = Encode(x[i])
    BY <1>1 DEF Encodings
  <2>3. Encodings(y) \in Seq(Bytes) /\ Len(Encodings(y)) = k + 1
        /\ \A i \in 1..k + 1 : Encodings(y)[i] = Encode(y[i])
    BY <1>1, EncodingsType DEF Encodings
  <2> HIDE DEF s, e
  <2>4. t \in Seq(Bytes) /\ Len(t) = k + 1 /\ t[k + 1] = e /\ \A i \in 1..k : t[i] = s[i]
    BY <1>3 DEF Bytes, s
  <2>5. ASSUME NEW i \in 1..k + 1 PROVE Encodings(y)[i] = t[i]
    <3>1. CASE i = k + 1
      BY <2>1, <2>3, <2>4, <3>1 DEF e
    <3>2. CASE i # k + 1
      <4>1. i \in 1..k
        BY <3>2
      <4>2. QED
        BY <2>1, <2>2, <2>3, <2>4, <3>2, <4>1
    <3>3. QED
      BY <3>1, <3>2
  <2>6. QED
    BY <2>3, <2>4, <2>5, SameBytes DEF s
<1> HIDE DEF x, y, e
<1>5. Records(y) = Records(x) \o e
  <2>1. FlattenSeq(Append(Encodings(x), e)) = FlattenSeq(Encodings(x)) \o e
    BY <1>3, FlattenAppend
  <2>2. Records(y) = FlattenSeq(Encodings(y)) /\ Records(x) = FlattenSeq(Encodings(x))
    BY DEF Records, Encodings
  <2>3. QED
    BY <1>4, <2>1, <2>2
<1>6. Header \o (Records(x) \o e) = (Header \o Records(x)) \o e
  <2>1. Header \in Seq(Byte) /\ Records(x) \in Seq(Byte)
    BY <1>1, HeaderIs, DataType DEF Bytes
  <2>2. QED
    BY <1>3, <2>1, Associates
<1>7. QED
  BY <1>5, <1>6 DEF UpTo, Data, x, y, e

\* More operations, more bytes.
LEMMA UpToLater ==
  ASSUME NEW b \in Seq(Operations), NEW k \in Nat, NEW m \in Nat, k + m <= Len(b)
  PROVE  \E r \in Bytes : UpTo(b, k + m) = UpTo(b, k) \o r
<1> DEFINE T == {i \in Nat : k + i <= Len(b) => \E r \in Bytes : UpTo(b, k + i) = UpTo(b, k) \o r}
<1>1. 0 \in T
  <2>1. ASSUME k + 0 <= Len(b) PROVE \E r \in Bytes : UpTo(b, k + 0) = UpTo(b, k) \o r
    <3>1. k \in 0..Len(b) /\ k + 0 = k
      BY <2>1
    <3>2. UpTo(b, k) \in Seq(Byte)
      BY <3>1, UpToType DEF Bytes
    <3>3. UpTo(b, k) = UpTo(b, k) \o <<>> /\ <<>> \in Bytes
      BY <3>2 DEF Bytes
    <3>4. QED
      BY <3>1, <3>3
  <2>2. QED
    BY <2>1
<1>2. ASSUME NEW i \in Nat, i \in T PROVE i + 1 \in T
  <2>1. ASSUME k + (i + 1) <= Len(b) PROVE \E r \in Bytes : UpTo(b, k + (i + 1)) = UpTo(b, k) \o r
    <3>0. k + i <= Len(b) /\ (k + i <= Len(b) => \E r \in Bytes : UpTo(b, k + i) = UpTo(b, k) \o r)
      <4>1. k + i <= Len(b)
        BY <2>1
      <4>2. QED
        BY <1>2, <4>1, Zenon
    <3>1. PICK r \in Bytes : UpTo(b, k + i) = UpTo(b, k) \o r
      BY <3>0, Zenon
    <3> DEFINE n == k + i
    <3>2. n \in Nat /\ n + 1 <= Len(b) /\ k + (i + 1) = n + 1 /\ n + 1 \in 1..Len(b) /\ k \in 0..Len(b)
      BY <2>1
    <3> HIDE DEF n
    <3> DEFINE e == Encode(b[n + 1])
    <3>3. UpTo(b, n + 1) = UpTo(b, n) \o e
      BY <3>2, UpToStep
    <3>4. e \in Seq(Byte) /\ r \in Seq(Byte) /\ UpTo(b, k) \in Seq(Byte)
      <4>1. b[n + 1] \in Operations
        BY <3>2
      <4>2. QED
        BY <3>2, <4>1, EncodeType, UpToType DEF Bytes
    <3> HIDE DEF e
    <3>5. UpTo(b, k) \o (r \o e) = (UpTo(b, k) \o r) \o e
      BY <3>4, Associates
    <3>6. r \o e \in Bytes
      BY <3>4 DEF Bytes
    <3>7. UpTo(b, k + (i + 1)) = UpTo(b, k) \o (r \o e)
      BY <3>1, <3>2, <3>3, <3>5 DEF n
    <3>8. QED
      BY <3>6, <3>7
  <2>2. QED
    BY <2>1
<1> HIDE DEF T
<1>3. m \in T
  BY <1>1, <1>2, SetInduction
<1>4. QED
  BY <1>3 DEF T

LEMMA UpToLonger ==
  ASSUME NEW b \in Seq(Operations), NEW k \in 0..Len(b), NEW j \in 0..Len(b), k <= j
  PROVE  Len(UpTo(b, k)) <= Len(UpTo(b, j))
<1> DEFINE m == j - k
<1>1. k \in Nat /\ m \in Nat /\ k + m = j /\ k + m <= Len(b)
  OBVIOUS
<1> HIDE DEF m
<1>2. PICK r \in Bytes : UpTo(b, k + m) = UpTo(b, k) \o r
  BY <1>1, UpToLater
<1>3. UpTo(b, k) \in Seq(Byte) /\ r \in Seq(Byte)
  BY UpToType DEF Bytes
<1>4. Len(UpTo(b, k) \o r) = Len(UpTo(b, k)) + Len(r) /\ Len(UpTo(b, k)) \in Nat /\ Len(r) \in Nat
  BY <1>3
<1>5. UpTo(b, j) = UpTo(b, k) \o r
  BY <1>1, <1>2
<1>6. Len(UpTo(b, j)) = Len(UpTo(b, k)) + Len(r)
  BY <1>4, <1>5, Zenon
<1>7. QED
  BY <1>4, <1>6

LEMMA UpToRest ==
  ASSUME NEW b \in Seq(Operations), NEW k \in 0..Len(b)
  PROVE  \E r \in Bytes : Data(b) = UpTo(b, k) \o r
<1> DEFINE m == Len(b) - k
<1>1. k \in Nat /\ m \in Nat /\ k + m = Len(b) /\ k + m <= Len(b)
  OBVIOUS
<1> HIDE DEF m
<1>2. \E r \in Bytes : UpTo(b, k + m) = UpTo(b, k) \o r
  BY <1>1, UpToLater
<1>3. QED
  BY <1>1, <1>2, UpToAll

LEMMA PrefixRest ==
  ASSUME NEW s \in Bytes, NEW t \in Bytes, IsPrefix(s, t)
  PROVE  \E x \in Bytes : t = s \o x
<1>1. s \in Seq(Byte) /\ t \in Seq(Byte) /\ Len(s) \in 0..Len(t) /\ SubSeq(s, 1, Len(s)) = SubSeq(t, 1, Len(s))
  BY DEF IsPrefix, Bytes
<1>2. SubSeq(s, 1, Len(s)) = s
  BY <1>1
<1>3. t = SubSeq(t, 1, Len(s)) \o DropFirst(t, Len(s))
  BY <1>1, JoinParts
<1>4. DropFirst(t, Len(s)) \in Bytes
  BY <1>1, DropFirstIs DEF Bytes
<1>5. t = s \o DropFirst(t, Len(s))
  BY <1>1, <1>2, <1>3, Zenon
<1>6. QED
  BY <1>4, <1>5

\* What Next finds between two records of a prefix of a batch's bytes: the whole
\* next record, or a cut inside it.
NextWhole(b, s, k, i) ==
  \E g \in Bytes : i = It(g, Nil, NoPanic, Expected(b[k + 1])) /\ s = UpTo(b, k + 1) \o g
NextCut(b, s, i) == Stopped(i) /\ \A j \in 0..Len(b) : s # UpTo(b, j)

LEMMA NextIs ==
  ASSUME NEW b \in Seq(Operations), NEW s \in Bytes, IsPrefix(s, Data(b)), NEW k \in 0..Len(b),
         NEW d \in Bytes, d # <<>>, s = UpTo(b, k) \o d, NEW rc
  PROVE  /\ k + 1 <= Len(b)
         /\ \/ NextWhole(b, s, k, Advance(It(d, Nil, NoPanic, rc)))
            \/ NextCut(b, s, Advance(It(d, Nil, NoPanic, rc)))
<1> DEFINE u == UpTo(b, k)
<1>1. Data(b) \in Bytes /\ Len(b) \in Nat /\ k \in Nat
  BY DataType
<1>2. PICK x \in Bytes : Data(b) = s \o x
  BY <1>1, PrefixRest
<1>3. u \in Seq(Byte) /\ d \in Seq(Byte) /\ x \in Seq(Byte) /\ Len(u) \in Nat /\ Len(d) \in Nat /\ Len(d) # 0
  <2>1. u \in Seq(Byte)
    BY UpToType DEF Bytes
  <2>2. d \in Seq(Byte) /\ x \in Seq(Byte)
    BY DEF Bytes
  <2>3. QED
    BY <2>1, <2>2
<1>4. s = u \o d
  OBVIOUS
<1> HIDE DEF u
<1>5. Data(b) = u \o (d \o x) /\ d \o x \in Seq(Byte)
  <2>1. u \o (d \o x) = (u \o d) \o x
    BY <1>3, Associates
  <2>2. QED
    BY <1>2, <1>3, <1>4, <2>1
<1>6. k + 1 <= Len(b)
  <2> SUFFICES ASSUME k = Len(b) PROVE FALSE
    BY <1>1
  <2>1. Data(b) = u
    BY UpToAll DEF u
  <2>2. Len(u \o (d \o x)) = Len(u) + (Len(d) + Len(x)) /\ Len(x) \in Nat
    BY <1>3
  <2>3. Len(u) = Len(u) + (Len(d) + Len(x))
    BY <1>5, <2>1, <2>2, Zenon
  <2>4. QED
    BY <1>3, <2>2, <2>3
<1> DEFINE o == b[k + 1]
<1> DEFINE e == Encode(o)
<1>7. o \in Operations /\ k + 1 \in 0..Len(b) /\ k + 1 \in 1..Len(b)
  BY <1>1, <1>6
<1>8. e \in Seq(Byte) /\ Len(e) \in Nat \ {0} /\ UpTo(b, k + 1) = u \o e
  <2>1. UpTo(b, k + 1) = u \o e
    BY <1>1, <1>6, UpToStep DEF u
  <2>2. QED
    BY <1>7, <2>1, EncodeType DEF Bytes
<1> HIDE DEF e
<1>9. PICK r \in Bytes : Data(b) = UpTo(b, k + 1) \o r
  BY <1>7, UpToRest
<1>10. r \in Seq(Byte)
  BY DEF Bytes
<1>11. d \o x = e \o r
  <2>0. u \o (e \o r) = (u \o e) \o r
    BY <1>3, <1>8, <1>10, Associates
  <2>1. u \o (e \o r) = (u \o e) \o r /\ e \o r \in Seq(Byte)
    BY <1>8, <1>10, <2>0
  <2>2. u \o (d \o x) = u \o (e \o r)
    BY <1>5, <1>8, <1>9, <2>1, Zenon
  <2>3. QED
    BY <1>3, <1>5, <2>1, <2>2, CancelFront
<1>12. Within(d, x, e, r) \/ Before(d, e)
  BY <1>3, <1>8, <1>10, <1>11, BytesEnd
<1> DEFINE i == Advance(It(d, Nil, NoPanic, rc))
<1>13. CASE Within(d, x, e, r)
  <2>1. PICK g \in Seq(Byte) : d = e \o g
    BY <1>13, Zenon DEF Within
  <2>2. i = It(g, Nil, NoPanic, Expected(o))
    <3>1. Advance(It(Encode(o) \o g, Nil, NoPanic, rc)) = It(g, Nil, NoPanic, Expected(o))
      BY <1>7, AdvanceReads
    <3>2. QED
      BY <2>1, <3>1, Zenon DEF e
  <2>3. s = UpTo(b, k + 1) \o g
    <3>1. u \o (e \o g) = (u \o e) \o g
      BY <1>3, <1>8, Associates
    <3>2. QED
      BY <1>4, <1>8, <2>1, <3>1, Zenon
  <2>4. NextWhole(b, s, k, i)
    BY <2>2, <2>3, Zenon DEF NextWhole, Bytes
  <2>5. QED
    BY <1>6, <2>4
<1>14. CASE Before(d, e)
  <2>1. Stopped(i)
    BY <1>3, <1>7, <1>14, AdvanceShort DEF e
  <2>2. PICK c \in Seq(Byte) : c # <<>> /\ e = d \o c
    BY <1>14 DEF Before
  <2>3. Len(e) > Len(d)
    <3>1. Len(d \o c) = Len(d) + Len(c) /\ Len(c) \in Nat /\ Len(c) # 0
      BY <1>3, <2>2
    <3>2. QED
      BY <1>3, <2>2, <3>1
  <2>4. Len(s) = Len(u) + Len(d) /\ Len(UpTo(b, k + 1)) = Len(u) + Len(e)
    <3>1. Len(u \o d) = Len(u) + Len(d) /\ Len(u \o e) = Len(u) + Len(e)
      BY <1>3, <1>8
    <3>2. QED
      BY <1>4, <1>8, <3>1, Zenon
  <2>5. ASSUME NEW j \in 0..Len(b), s = UpTo(b, j) PROVE FALSE
    <3>1. Len(UpTo(b, j)) = Len(u) + Len(d) /\ Len(e) \in Nat
      BY <1>8, <2>4, <2>5
    <3>2. CASE j <= k
      <4>1. Len(UpTo(b, j)) <= Len(u)
        BY <3>2, UpToLonger DEF u
      <4>2. QED
        BY <1>3, <3>1, <4>1
    <3>3. CASE k + 1 <= j
      <4>1. Len(UpTo(b, k + 1)) <= Len(UpTo(b, j))
        BY <1>7, <3>3, UpToLonger
      <4>2. QED
        BY <1>3, <2>3, <2>4, <3>1, <4>1
    <3>4. QED
      BY <1>1, <3>2, <3>3
  <2>6. NextCut(b, s, i)
    BY <2>1, <2>5 DEF NextCut
  <2>7. QED
    BY <1>6, <2>6
<1>15. QED
  BY <1>12, <1>13, <1>14

-----------------------------------------------------------------------------
(* The inductive invariant. *)

RecType == [Type : Byte, CF : CFs, Key : Bytes, Value : Bytes]

BatchOK ==
  /\ batch \in Seq(Ops) /\ Len(batch) <= MaxOps
  /\ saves \in Seq(0..MaxOps)
  /\ \A i, j \in 1..Len(saves) : saves[i] <= Len(batch) /\ (i <= j => saves[i] <= saves[j])

IterOK == source \in Bytes /\ IsIter(iter) /\ delivered \in Seq(RecType) /\ ended \in BOOLEAN

\* Without bytes there is no iterator.
Idle == source = <<>> => iter = Iterator(<<>>) /\ delivered = <<>> /\ ~ ended

\* Where an iterator over a prefix of the batch's bytes is: the bytes end inside
\* the header; what is left begins where the delivered records end; or it has
\* found that the bytes end inside a record.
WithinHeader == iter.err = Nil /\ Len(source) < HeaderLen /\ delivered = <<>> /\ iter.data = <<>>

BetweenRecords ==
  /\ iter.err = Nil
  /\ source = UpTo(batch, Len(delivered)) \o iter.data
  /\ ended => iter.data = <<>>

InRecord == iter.err # Nil /\ \A k \in 0..Len(batch) : source # UpTo(batch, k)

Delivered ==
  /\ Len(delivered) <= Len(batch)
  /\ \A i \in 1..Len(delivered) : delivered[i] = Expected(batch[i])

Reading ==
  source # <<>> /\ Undamaged =>
    Delivered /\ iter.panic = FALSE /\ (WithinHeader \/ BetweenRecords \/ InRecord)

IInv == BatchOK /\ IterOK /\ Idle /\ Reading

LEMMA FreshIs ==
  ASSUME NEW d \in Bytes
  PROVE  /\ IsIter(Iterator(d)) /\ Iterator(d).data = d /\ Iterator(d).err = Nil /\ Iterator(d).panic = FALSE
<1> DEFINE n == <<>>
<1> DEFINE z == 0
<1>1. Iterator(d) = [data |-> d, err |-> "nil", panic |-> FALSE,
                     rec |-> [Type |-> z, CF |-> z, Key |-> n, Value |-> n]]
  BY DEF Iterator
<1>2. Iterator(d) = It(d, Nil, NoPanic, Rec(z, z, n, n))
  BY <1>1, Zenon DEF It, Rec, Nil, NoPanic
<1>3. z \in Byte /\ z \in CFs /\ n \in Bytes /\ Nil \in Errs /\ NoPanic \in BOOLEAN
  BY CodecAssumption, WordIs DEF Byte, CFs, Bytes, Errs, NoPanic
<1>4. Iterator(d).data = d /\ Iterator(d).err = Nil /\ Iterator(d).panic = FALSE
  BY <1>1 DEF Nil
<1> HIDE DEF n, z
<1>5. IsIter(It(d, Nil, NoPanic, Rec(z, z, n, n)))
  BY <1>3, IsIterIntro
<1>6. QED
  BY <1>2, <1>4, <1>5

\* No iterator is in use after a change of the batch.
LEMMA EndsKeeps ==
  ASSUME IteratorEnds
  PROVE  IterOK' /\ Idle' /\ Reading'
<1>1. <<>> \in Bytes /\ <<>> \in Seq(RecType) /\ FALSE \in BOOLEAN
  BY DEF Bytes
<1>2. IsIter(Iterator(<<>>))
  BY <1>1, FreshIs
<1>3. IterOK'
  BY <1>1, <1>2 DEF IteratorEnds, IterOK
<1>4. Idle'
  BY DEF IteratorEnds, Idle
<1>5. Reading'
  BY DEF IteratorEnds, Reading
<1>6. QED
  BY <1>3, <1>4, <1>5

LEMMA InitIInv == Init => IInv
<1> SUFFICES ASSUME Init PROVE IInv
  OBVIOUS
<1>1. <<>> \in Bytes /\ <<>> \in Seq(RecType) /\ <<>> \in Seq(Ops) /\ <<>> \in Seq(0..MaxOps) /\ Len(<<>>) = 0
  BY DEF Bytes
<1>2. IsIter(Iterator(<<>>))
  BY <1>1, FreshIs
<1>3. IterOK /\ Idle /\ Reading
  BY <1>1, <1>2 DEF Init, IterOK, Idle, Reading
<1>4. BatchOK
  BY <1>1, BoundAssumption DEF Init, BatchOK
<1>5. QED
  BY <1>3, <1>4 DEF IInv

LEMMA QueueStep ==
  ASSUME IInv, NEW o \in Ops, Queue(o)
  PROVE  IInv'
<1>1. IterOK' /\ Idle' /\ Reading'
  BY EndsKeeps DEF Queue
<1>2. batch' \in Seq(Ops) /\ Len(batch') = Len(batch) + 1 /\ Len(batch) \in Nat /\ Len(batch') <= MaxOps
  BY BoundAssumption DEF IInv, BatchOK, Queue
<1>3. saves' = saves
  BY DEF Queue
<1>4. \A i \in 1..Len(saves) : saves[i] \in Nat
  BY BoundAssumption DEF IInv, BatchOK
<1>5. BatchOK'
  BY <1>2, <1>3, <1>4 DEF IInv, BatchOK
<1>6. QED
  BY <1>1, <1>5 DEF IInv

LEMMA ClearStep ==
  ASSUME IInv, Clear
  PROVE  IInv'
<1>1. IterOK' /\ Idle' /\ Reading'
  BY EndsKeeps DEF Clear
<1>2. <<>> \in Seq(Ops) /\ <<>> \in Seq(0..MaxOps) /\ Len(<<>>) = 0
  OBVIOUS
<1>3. BatchOK'
  BY <1>2, BoundAssumption DEF BatchOK, Clear
<1>4. QED
  BY <1>1, <1>3 DEF IInv

\* A step that leaves the batch and the iterator alone.
LEMMA SameKeeps ==
  ASSUME IInv, UNCHANGED <<batch, ivars>>
  PROVE  IterOK' /\ Idle' /\ Reading'
<1>1. batch' = batch /\ source' = source /\ iter' = iter /\ delivered' = delivered /\ ended' = ended
  BY DEF ivars
<1>2. QED
  BY <1>1 DEF IInv, IterOK, Idle, Reading, Undamaged, Delivered, WithinHeader, BetweenRecords, InRecord

LEMMA SetSavePointStep ==
  ASSUME IInv, SetSavePoint
  PROVE  IInv'
<1>1. IterOK' /\ Idle' /\ Reading'
  BY SameKeeps DEF SetSavePoint
<1>2. batch' = batch /\ saves' = Append(saves, Len(batch))
  BY DEF SetSavePoint
<1>3. Len(batch) \in 0..MaxOps /\ saves \in Seq(0..MaxOps)
  BY BoundAssumption DEF IInv, BatchOK
<1>4. saves' \in Seq(0..MaxOps) /\ Len(saves') = Len(saves) + 1 /\ Len(saves) \in Nat
      /\ saves'[Len(saves) + 1] = Len(batch) /\ \A i \in 1..Len(saves) : saves'[i] = saves[i]
  BY <1>2, <1>3
<1>5. ASSUME NEW i \in 1..Len(saves'), NEW j \in 1..Len(saves'), i <= j
      PROVE  saves'[i] <= Len(batch) /\ saves'[i] <= saves'[j]
  <2>1. CASE j \in 1..Len(saves)
    <3>1. i \in 1..Len(saves)
      BY <1>5, <2>1
    <3>2. QED
      BY <1>4, <1>5, <2>1, <3>1 DEF IInv, BatchOK
  <2>2. CASE i \in 1..Len(saves) /\ j = Len(saves) + 1
    BY <1>4, <2>2 DEF IInv, BatchOK
  <2>3. CASE i = Len(saves) + 1
    <3>1. j = Len(saves) + 1
      BY <1>4, <1>5, <2>3
    <3>2. QED
      BY <1>3, <1>4, <2>3, <3>1
  <2>4. QED
    BY <1>4, <2>1, <2>2, <2>3
<1>6. \A i, j \in 1..Len(saves') : saves'[i] <= Len(batch') /\ (i <= j => saves'[i] <= saves'[j])
  <2>1. \A i \in 1..Len(saves') : saves'[i] <= Len(batch) /\ (\A j \in 1..Len(saves') : i <= j => saves'[i] <= saves'[j])
    <3>1. \A i \in 1..Len(saves') : i <= i
      BY <1>4
    <3>2. QED
      BY <1>5, <3>1
  <2>2. QED
    BY <1>2, <2>1
<1>7. BatchOK'
  BY <1>2, <1>4, <1>6 DEF IInv, BatchOK
<1>8. QED
  BY <1>1, <1>7 DEF IInv

LEMMA FrontIs ==
  ASSUME IInv, saves # <<>>
  PROVE  /\ Len(saves) \in Nat \ {0} /\ Front(saves) \in Seq(0..MaxOps) /\ Len(Front(saves)) = Len(saves) - 1
         /\ \A i \in 1..Len(saves) - 1 : Front(saves)[i] = saves[i]
         /\ Last(saves) = saves[Len(saves)] /\ Last(saves) \in 0..Len(batch)
<1>1. saves \in Seq(0..MaxOps) /\ Len(saves) \in Nat /\ Len(saves) # 0
  BY DEF IInv, BatchOK
<1>2. Len(saves) - 1 \in 0..Len(saves) /\ Len(saves) \in 1..Len(saves)
  BY <1>1
<1>3. /\ Front(saves) \in Seq(0..MaxOps) /\ Len(Front(saves)) = Len(saves) - 1
      /\ \A i \in 1..Len(saves) - 1 : Front(saves)[i] = saves[i]
  BY <1>1, <1>2, FirstIs DEF Front
<1>4. Last(saves) = saves[Len(saves)]
  BY DEF Last
<1>5. saves[Len(saves)] \in 0..MaxOps /\ saves[Len(saves)] <= Len(batch)
  <2>1. \A i, j \in 1..Len(saves) : saves[i] <= Len(batch) /\ (i <= j => saves[i] <= saves[j])
    BY DEF IInv, BatchOK
  <2>2. saves[Len(saves)] <= Len(batch)
    BY <1>2, <2>1, Zenon
  <2>3. saves[Len(saves)] \in 0..MaxOps
    <3> DEFINE S == 0..MaxOps
    <3>1. saves \in Seq(S)
      BY <1>1
    <3> HIDE DEF S
    <3>2. saves[Len(saves)] \in S
      BY <1>2, <3>1
    <3>3. QED
      BY <3>2 DEF S
  <2>4. QED
    BY <2>2, <2>3
<1>6. Len(batch) \in Nat /\ MaxOps \in Nat
  BY BoundAssumption DEF IInv, BatchOK
<1>7. QED
  BY <1>1, <1>3, <1>4, <1>5, <1>6

LEMMA PopSavePointStep ==
  ASSUME IInv, PopSavePoint
  PROVE  IInv'
<1>1. IterOK' /\ Idle' /\ Reading'
  BY SameKeeps DEF PopSavePoint
<1>2. batch' = batch /\ saves' = Front(saves) /\ saves # <<>>
  BY DEF PopSavePoint
<1>3. ASSUME NEW i \in 1..Len(saves'), NEW j \in 1..Len(saves')
      PROVE  saves'[i] <= Len(batch) /\ (i <= j => saves'[i] <= saves'[j])
  <2>1. i \in 1..Len(saves) - 1 /\ j \in 1..Len(saves) - 1 /\ i \in 1..Len(saves) /\ j \in 1..Len(saves)
    BY <1>2, FrontIs
  <2>2. saves'[i] = saves[i] /\ saves'[j] = saves[j]
    BY <1>2, <2>1, FrontIs
  <2>3. saves[i] <= Len(batch) /\ (i <= j => saves[i] <= saves[j])
    BY <2>1 DEF IInv, BatchOK
  <2>4. QED
    BY <2>2, <2>3
<1>4. batch' \in Seq(Ops) /\ Len(batch') <= MaxOps /\ saves' \in Seq(0..MaxOps)
  BY <1>2, FrontIs DEF IInv, BatchOK
<1>5. BatchOK'
  BY <1>2, <1>3, <1>4 DEF BatchOK
<1>6. QED
  BY <1>1, <1>5 DEF IInv

LEMMA RollbackStep ==
  ASSUME IInv, RollbackToSavePoint
  PROVE  IInv'
<1>1. IterOK' /\ Idle' /\ Reading'
  BY EndsKeeps DEF RollbackToSavePoint
<1>2. saves' = Front(saves) /\ saves # <<>> /\ batch' = SubSeq(batch, 1, Last(saves))
  BY DEF RollbackToSavePoint
<1> DEFINE n == Last(saves)
<1>3. n \in 0..Len(batch) /\ batch \in Seq(Ops) /\ Len(batch) <= MaxOps
  BY <1>2, FrontIs DEF IInv, BatchOK
<1>4. batch' \in Seq(Ops) /\ Len(batch') = n /\ Len(batch') <= MaxOps
  <2> HIDE DEF n
  <2>1. SubSeq(batch, 1, n) \in Seq(Ops) /\ Len(SubSeq(batch, 1, n)) = n
    BY <1>3, FirstIs
  <2>2. QED
    BY <1>2, <1>3, <2>1, BoundAssumption DEF n
<1>5. ASSUME NEW i \in 1..Len(saves'), NEW j \in 1..Len(saves')
      PROVE  saves'[i] <= Len(batch') /\ (i <= j => saves'[i] <= saves'[j])
  <2>1. i \in 1..Len(saves) - 1 /\ j \in 1..Len(saves) - 1 /\ Len(saves) \in 1..Len(saves)
        /\ i \in 1..Len(saves) /\ j \in 1..Len(saves) /\ i <= Len(saves)
    BY <1>2, FrontIs
  <2>2. saves'[i] = saves[i] /\ saves'[j] = saves[j] /\ n = saves[Len(saves)]
    BY <1>2, <2>1, FrontIs
  <2>3. saves[i] <= saves[Len(saves)] /\ (i <= j => saves[i] <= saves[j])
    BY <2>1 DEF IInv, BatchOK
  <2>4. QED
    BY <1>4, <2>2, <2>3
<1>6. BatchOK'
  BY <1>2, <1>4, <1>5, FrontIs DEF BatchOK
<1>7. QED
  BY <1>1, <1>6 DEF IInv

LEMMA BatchOps ==
  ASSUME BatchOK
  PROVE  batch \in Seq(Operations) /\ Len(batch) \in Nat /\ Data(batch) \in Bytes
<1>1. batch \in Seq(Operations) /\ Len(batch) \in Nat
  BY OpsAssumption DEF BatchOK
<1>2. QED
  BY <1>1, DataType

LEMMA SkipHeaderType ==
  ASSUME NEW s \in Bytes
  PROVE  SkipHeader(s) \in Bytes
<1>1. s \in Seq(Byte) /\ <<>> \in Bytes /\ Len(s) \in Nat
  BY DEF Bytes
<1>2. CASE Len(s) < HeaderLen
  BY <1>1, <1>2 DEF SkipHeader
<1>3. CASE ~ (Len(s) < HeaderLen)
  <2>1. HeaderLen \in 0..Len(s)
    BY <1>1, <1>3, HeaderIs
  <2>2. DropFirst(s, HeaderLen) \in Bytes
    BY <1>1, <2>1, DropFirstIs DEF Bytes
  <2>3. QED
    BY <1>3, <2>2 DEF SkipHeader
<1>4. QED
  BY <1>2, <1>3

\* A prefix of the batch's bytes that is no shorter than a header begins with it.
LEMMA HeaderFirst ==
  ASSUME BatchOK, NEW s \in Bytes, IsPrefix(s, Data(batch)), ~ (Len(s) < HeaderLen)
  PROVE  s = UpTo(batch, 0) \o SkipHeader(s)
<1>1. /\ batch \in Seq(Operations) /\ Header \in Seq(Byte) /\ Records(batch) \in Seq(Byte)
      /\ s \in Seq(Byte) /\ Len(s) \in Nat /\ Data(batch) \in Bytes
  BY BatchOps, HeaderIs, DataType DEF Bytes
<1>2. HeaderLen \in 0..Len(s)
  BY <1>1, HeaderIs
<1>3. PICK x \in Bytes : Data(batch) = s \o x
  BY <1>1, PrefixRest
<1>4. s \o x = Header \o Records(batch) /\ x \in Seq(Byte)
  BY <1>3 DEF Data, Bytes
<1>5. Within(s, x, Header, Records(batch)) \/ Before(s, Header)
  BY <1>1, <1>4, BytesEnd
<1>6. ~ Before(s, Header)
  <2>1. ASSUME NEW c \in Seq(Byte), c # <<>>, Header = s \o c PROVE FALSE
    <3>1. Len(s \o c) = Len(s) + Len(c) /\ Len(c) \in Nat /\ Len(c) # 0
      BY <1>1, <2>1
    <3>2. Len(Header) = HeaderLen /\ HeaderLen = 12
      BY HeaderIs
    <3>3. Len(s) + Len(c) = HeaderLen
      BY <2>1, <3>1, <3>2, Zenon
    <3>4. QED
      BY <1>1, <3>1, <3>2, <3>3
  <2>2. QED
    BY <2>1 DEF Before
<1>7. PICK g \in Seq(Byte) : s = Header \o g
  BY <1>5, <1>6 DEF Within
<1>8. DropFirst(Header \o g, Len(Header)) = g
  BY <1>1, SplitConcat
<1>9. SkipHeader(s) = g
  <2>1. SkipHeader(s) = DropFirst(s, HeaderLen) /\ Len(Header) = HeaderLen
    BY HeaderIs DEF SkipHeader
  <2>2. QED
    BY <1>7, <1>8, <2>1, Zenon
<1>10. QED
  BY <1>7, <1>9, UpToZero

LEMMA NewIteratorStep ==
  ASSUME IInv, NEW s \in Bytes, NewIterator(s)
  PROVE  IInv'
<1>1. batch' = batch /\ saves' = saves /\ source' = s /\ iter' = Iterator(SkipHeader(s))
      /\ delivered' = <<>> /\ ended' = FALSE
  BY DEF NewIterator
<1>2. BatchOK' /\ BatchOK
  BY <1>1 DEF IInv, BatchOK
<1> DEFINE d == SkipHeader(s)
<1>3. d \in Bytes
  BY SkipHeaderType
<1>4. IsIter(iter') /\ iter'.data = d /\ iter'.err = Nil /\ iter'.panic = FALSE
  BY <1>1, <1>3, FreshIs
<1>5. <<>> \in Seq(RecType) /\ FALSE \in BOOLEAN /\ Len(<<>>) = 0
  OBVIOUS
<1>6. IterOK'
  BY <1>1, <1>4, <1>5 DEF IterOK
<1>7. Idle'
  <2>1. s = <<>> => d = <<>>
    <3>1. Len(<<>>) = 0
      OBVIOUS
    <3>2. QED
      BY <3>1, HeaderIs DEF SkipHeader
  <2>2. QED
    BY <1>1, <2>1 DEF Idle
<1>8. ASSUME source' # <<>>, Undamaged'
      PROVE  Delivered' /\ iter'.panic = FALSE /\ (WithinHeader' \/ BetweenRecords' \/ InRecord')
  <2>1. Delivered'
    <3>1. Len(batch) \in Nat
      BY <1>2, BatchOps
    <3>2. QED
      BY <1>1, <1>5, <3>1 DEF Delivered
  <2>2. CASE Len(s) < HeaderLen
    <3>1. d = <<>>
      BY <2>2 DEF SkipHeader
    <3>2. WithinHeader'
      BY <1>1, <1>4, <2>2, <3>1 DEF WithinHeader
    <3>3. QED
      BY <1>4, <2>1, <3>2
  <2>3. CASE ~ (Len(s) < HeaderLen)
    <3>1. IsPrefix(s, Data(batch))
      BY <1>1, <1>8 DEF Undamaged
    <3>2. s = UpTo(batch, 0) \o d
      BY <1>2, <2>3, <3>1, HeaderFirst
    <3> HIDE DEF d
    <3>3. BetweenRecords'
      BY <1>1, <1>4, <1>5, <3>2 DEF BetweenRecords
    <3>4. QED
      BY <1>4, <2>1, <3>3
  <2>4. QED
    BY <2>2, <2>3
<1>9. Reading'
  BY <1>8 DEF Reading
<1>10. QED
  BY <1>2, <1>6, <1>7, <1>9 DEF IInv

\* What Next leaves, whatever the bytes.
LEMMA Next_Type ==
  ASSUME IInv, Next_
  PROVE  /\ IterOK'
         /\ Len(delivered') > Len(delivered) =>
              ~ Exhausted(iter) /\ iter.data # <<>> /\ EndOf(iter'.data, DropFirst(iter.data, 1))
<1>1. IsIter(iter) /\ delivered \in Seq(RecType) /\ ended \in BOOLEAN /\ source' = source /\ source \in Bytes
  BY DEF IInv, IterOK, Next_
<1>2. CASE Exhausted(iter)
  <2>1. iter' = iter /\ delivered' = delivered /\ ended' = ~ iter'.panic
    BY <1>2 DEF Next_
  <2>2. ended' \in BOOLEAN
    BY <2>1
  <2>3. ~ (Len(delivered') > Len(delivered))
    BY <1>1, <2>1
  <2>4. QED
    BY <1>1, <2>1, <2>2, <2>3 DEF IterOK
<1>3. CASE ~ Exhausted(iter)
  <2>1. iter' = Advance(iter) /\ iter.data # <<>>
    BY <1>3 DEF Next_, Exhausted
  <2>2. IsIter(iter') /\ EndOf(iter'.data, DropFirst(iter.data, 1))
    BY <1>1, <2>1, AdvanceType
  <2>3. iter'.rec \in RecType
    <3>1. PICK d \in Bytes, e \in Errs, p \in BOOLEAN, t \in Byte, cf \in CFs, key \in Bytes, value \in Bytes :
            iter' = It(d, e, p, Rec(t, cf, key, value))
      BY <2>2 DEF IsIter
    <3>2. iter'.rec = Rec(t, cf, key, value)
      BY <3>1, ItHas
    <3>3. QED
      BY <3>2 DEF Rec, RecType
  <2>4. delivered' \in Seq(RecType) /\ ended' \in BOOLEAN
    <3>1. CASE Decodable(iter')
      <4>1. delivered' = Append(delivered, iter'.rec) /\ ended' = ended
        BY <1>3, <3>1 DEF Next_
      <4>2. QED
        BY <1>1, <2>3, <4>1
    <3>2. CASE ~ Decodable(iter')
      <4>1. delivered' = delivered /\ ended' = ~ iter'.panic
        BY <1>3, <3>2 DEF Next_
      <4>2. QED
        BY <1>1, <4>1
    <3>3. QED
      BY <3>1, <3>2
  <2>5. QED
    BY <1>1, <1>3, <2>1, <2>2, <2>4 DEF IterOK
<1>4. QED
  BY <1>2, <1>3

\* Next over a prefix of the batch's bytes.
LEMMA Next_Reads ==
  ASSUME IInv, Next_, source # <<>>, Undamaged
  PROVE  Delivered' /\ iter'.panic = FALSE /\ (WithinHeader' \/ BetweenRecords' \/ InRecord')
<1>1. batch' = batch /\ source' = source /\ ~ ended
  BY DEF Next_
<1>2. Delivered /\ iter.panic = FALSE /\ (WithinHeader \/ BetweenRecords \/ InRecord)
  BY DEF IInv, Reading
<1>3. /\ BatchOK /\ source \in Bytes /\ IsIter(iter) /\ delivered \in Seq(RecType)
      /\ batch \in Seq(Operations) /\ Len(batch) \in Nat /\ Len(delivered) \in Nat
  BY BatchOps DEF IInv, IterOK
<1>4. CASE Exhausted(iter)
  <2>1. iter' = iter /\ delivered' = delivered
    BY <1>4 DEF Next_
  <2>2. Delivered' /\ iter'.panic = FALSE
    BY <1>1, <1>2, <2>1 DEF Delivered
  <2>3. WithinHeader => WithinHeader'
    BY <1>1, <2>1 DEF WithinHeader
  <2>4. BetweenRecords => BetweenRecords'
    BY <1>1, <1>4, <2>1 DEF BetweenRecords, Exhausted, Nil
  <2>5. InRecord => InRecord'
    BY <1>1, <2>1 DEF InRecord
  <2>6. QED
    BY <1>2, <2>2, <2>3, <2>4, <2>5
<1>5. CASE ~ Exhausted(iter)
  <2> DEFINE k == Len(delivered)
  <2> DEFINE d == iter.data
  <2> DEFINE rc == iter.rec
  <2>1. d # <<>> /\ iter.err = Nil /\ iter' = Advance(iter)
    BY <1>5 DEF Next_, Exhausted, Nil
  <2>2. source = UpTo(batch, k) \o d
    BY <1>2, <2>1 DEF WithinHeader, BetweenRecords, InRecord
  <2>3. d \in Bytes /\ iter = It(d, Nil, NoPanic, rc)
    <3>1. iter = It(iter.data, iter.err, iter.panic, iter.rec) /\ iter.data \in Bytes
      BY <1>3, IterData
    <3>2. iter.err = Nil /\ iter.panic = NoPanic
      BY <1>2, <2>1 DEF NoPanic
    <3>3. QED
      BY <3>1, <3>2, Zenon
  <2>4. k \in 0..Len(batch) /\ IsPrefix(source, Data(batch))
    BY <1>2, <1>3 DEF Delivered, Undamaged
  <2> HIDE DEF d, rc
  <2>5. /\ k + 1 <= Len(batch)
        /\ NextWhole(batch, source, k, Advance(It(d, Nil, NoPanic, rc)))
             \/ NextCut(batch, source, Advance(It(d, Nil, NoPanic, rc)))
    BY <1>3, <2>1, <2>2, <2>3, <2>4, NextIs DEF d
  <2>6. Advance(It(d, Nil, NoPanic, rc)) = iter'
    BY <2>1, <2>3
  <2>7. CASE NextWhole(batch, source, k, iter')
    <3>1. PICK g \in Bytes : iter' = It(g, Nil, NoPanic, Expected(batch[k + 1])) /\ source = UpTo(batch, k + 1) \o g
      BY <2>7 DEF NextWhole
    <3>2. iter'.data = g /\ iter'.err = Nil /\ iter'.panic = FALSE /\ iter'.rec = Expected(batch[k + 1])
      BY <3>1 DEF It, NoPanic
    <3>3. Decodable(iter')
      BY <3>2 DEF Decodable, Nil
    <3>4. delivered' = Append(delivered, Expected(batch[k + 1])) /\ ended' = ended
      BY <1>5, <3>2, <3>3 DEF Next_
    <3>5. Len(delivered') = k + 1 /\ delivered'[k + 1] = Expected(batch[k + 1])
          /\ \A i \in 1..k : delivered'[i] = delivered[i]
      BY <1>3, <3>4
    <3>6. Delivered'
      <4>1. ASSUME NEW i \in 1..k + 1 PROVE delivered'[i] = Expected(batch[i])
        <5>1. CASE i = k + 1
          BY <3>5, <5>1
        <5>2. CASE i # k + 1
          <6>1. i \in 1..k
            BY <1>3, <5>2
          <6>2. QED
            BY <1>2, <3>5, <6>1 DEF Delivered
        <5>3. QED
          BY <5>1, <5>2
      <4>2. QED
        BY <1>1, <2>5, <3>5, <4>1 DEF Delivered
    <3>7. BetweenRecords'
      BY <1>1, <3>1, <3>2, <3>4, <3>5 DEF BetweenRecords
    <3>8. QED
      BY <3>2, <3>6, <3>7
  <2>8. CASE NextCut(batch, source, iter')
    <3>1. Stopped(iter') /\ \A j \in 0..Len(batch) : source # UpTo(batch, j)
      BY <2>8 DEF NextCut
    <3>2. iter'.err = Short /\ iter'.panic = FALSE
      <4>1. PICK x \in Seq(Byte) : \E t, cf, key, value : iter' = It(x, Short, NoPanic, Rec(t, cf, key, value))
        BY <3>1 DEF Stopped
      <4>2. PICK t, cf, key, value : iter' = It(x, Short, NoPanic, Rec(t, cf, key, value))
        BY <4>1
      <4>3. QED
        BY <4>2 DEF It, NoPanic
    <3>3. ~ Decodable(iter')
      BY <3>2, ErrorsDiffer DEF Decodable, Nil
    <3>4. delivered' = delivered
      BY <1>5, <3>3 DEF Next_
    <3>5. Delivered'
      BY <1>1, <1>2, <3>4 DEF Delivered
    <3>6. InRecord'
      BY <1>1, <3>1, <3>2, ErrorsDiffer DEF InRecord
    <3>7. QED
      BY <3>2, <3>5, <3>6
  <2>9. QED
    BY <2>5, <2>6, <2>7, <2>8
<1>6. QED
  BY <1>4, <1>5

LEMMA Next_Step ==
  ASSUME IInv, Next_
  PROVE  IInv'
<1>1. batch' = batch /\ saves' = saves /\ source' = source /\ source # <<>>
  BY DEF Next_
<1>2. BatchOK'
  BY <1>1 DEF IInv, BatchOK
<1>3. IterOK'
  BY Next_Type
<1>4. Idle'
  BY <1>1 DEF Idle
<1>5. Reading'
  <2>1. Undamaged' => Undamaged
    BY <1>1 DEF Undamaged
  <2>2. QED
    BY <1>1, <2>1, Next_Reads DEF Reading
<1>6. QED
  BY <1>2, <1>3, <1>4, <1>5 DEF IInv

LEMMA NextIInv == IInv /\ [Next]_vars => IInv'
<1> SUFFICES ASSUME IInv, [Next]_vars PROVE IInv'
  OBVIOUS
<1>1. ASSUME NEW o \in Ops, Queue(o) PROVE IInv'
  BY <1>1, QueueStep
<1>2. CASE Clear
  BY <1>2, ClearStep
<1>3. CASE SetSavePoint
  BY <1>3, SetSavePointStep
<1>4. CASE RollbackToSavePoint
  BY <1>4, RollbackStep
<1>5. CASE PopSavePoint
  BY <1>5, PopSavePointStep
<1>6. ASSUME NEW n \in 1..Len(Data(batch)), NewIterator(SubSeq(Data(batch), 1, n)) PROVE IInv'
  <2>1. Data(batch) \in Bytes
    BY BatchOps DEF IInv
  <2>2. SubSeq(Data(batch), 1, n) \in Bytes
    BY <2>1 DEF Bytes
  <2>3. QED
    BY <1>6, <2>2, NewIteratorStep
<1>7. ASSUME NEW s \in Damage(Data(batch)), s \in Seq(Byte), NewIterator(s) PROVE IInv'
  BY <1>7, NewIteratorStep DEF Bytes
<1>8. CASE Next_
  BY <1>8, Next_Step
<1>9. CASE UNCHANGED vars
  <2>1. UNCHANGED <<batch, ivars>> /\ saves' = saves /\ batch' = batch
    BY <1>9 DEF vars, ivars
  <2>2. QED
    BY <2>1, SameKeeps DEF IInv, BatchOK
<1>10. QED
  BY <1>1, <1>2, <1>3, <1>4, <1>5, <1>6, <1>7, <1>8, <1>9 DEF Next

LEMMA IInvAlways == Spec => []IInv
BY InitIInv, NextIInv, PTL DEF Spec

-----------------------------------------------------------------------------
(* The theorems. *)

\* The types, whatever bytes the iterator is given: the column family is read as
\* an int, the error is one of the three that write_batch.go makes.
THEOREM TypeOKAlways == Spec => []TypeOK
<1>1. IInv => TypeOK
  <2> SUFFICES ASSUME IInv PROVE TypeOK
    OBVIOUS
  <2>1. /\ iter.data \in Seq(Byte) /\ iter.rec.CF \in -Word..Word /\ iter.panic \in BOOLEAN
        /\ iter.err \in {"nil", "short buffer", "malformed varint", "unsupported"}
    BY IterData DEF IInv, IterOK, Bytes, CFs, Errs, Nil, Short, Malformed
  <2>2. ASSUME NEW i \in 1..Len(saves)
        PROVE  saves[i] <= Len(batch) /\ (i > 1 => saves[i - 1] <= saves[i])
    <3>1. i > 1 => i - 1 \in 1..Len(saves) /\ i - 1 <= i
      BY DEF IInv, BatchOK
    <3>2. \A j, k \in 1..Len(saves) : saves[j] <= Len(batch) /\ (j <= k => saves[j] <= saves[k])
      BY DEF IInv, BatchOK
    <3>3. saves[i] <= Len(batch)
      BY <3>2, Zenon
    <3>4. i > 1 => saves[i - 1] <= saves[i]
      BY <3>1, <3>2, Zenon
    <3>5. QED
      BY <3>3, <3>4
  <2>3. QED
    BY <2>1, <2>2 DEF TypeOK, IInv, BatchOK, IterOK
<1>2. QED
  BY <1>1, IInvAlways, PTL

\* Whatever the operations and wherever the bytes are cut, the records that Next
\* and Record give are the first operations of the batch, whole and in order.
THEOREM DeliversBatchAlways == Spec => []DeliversBatch
<1>1. IInv => DeliversBatch
  <2> SUFFICES ASSUME IInv, Undamaged
               PROVE  /\ Len(delivered) <= Len(batch)
                      /\ \A i \in 1..Len(delivered) : delivered[i] = Expected(batch[i])
    BY DEF DeliversBatch
  <2>1. CASE source = <<>>
    <3>1. delivered = <<>> /\ Len(<<>>) = 0
      BY <2>1 DEF IInv, Idle
    <3>2. Len(batch) \in Nat
      BY BatchOps DEF IInv
    <3>3. QED
      BY <3>1, <3>2
  <2>2. CASE source # <<>>
    BY <2>2 DEF IInv, Reading, Delivered
  <2>3. QED
    BY <2>1, <2>2
<1>2. QED
  BY <1>1, IInvAlways, PTL

\* When Next has returned false, Error is nil exactly if the bytes end after the
\* last record delivered, or inside the header.
THEOREM ErrorTellsCutAlways == Spec => []ErrorTellsCut
<1>1. IInv => ErrorTellsCut
  <2> SUFFICES ASSUME IInv, Undamaged, ended
               PROVE  IF iter.err = Nil
                      THEN source = UpTo(batch, Len(delivered)) \/ Len(source) < HeaderLen
                      ELSE \A k \in 0..Len(batch) : source # UpTo(batch, k)
    BY DEF ErrorTellsCut, Nil, UpTo
  <2>1. source # <<>>
    BY DEF IInv, Idle
  <2>2. Delivered /\ (WithinHeader \/ BetweenRecords \/ InRecord)
    BY <2>1 DEF IInv, Reading
  <2>3. CASE WithinHeader
    BY <2>3 DEF WithinHeader
  <2>4. CASE BetweenRecords
    <3>1. source = UpTo(batch, Len(delivered)) \o <<>>
      BY <2>4 DEF BetweenRecords
    <3>2. UpTo(batch, Len(delivered)) \in Seq(Byte)
      <4>1. batch \in Seq(Operations) /\ Len(batch) \in Nat /\ Len(delivered) \in Nat
        BY BatchOps DEF IInv, IterOK
      <4>2. Len(delivered) \in 0..Len(batch)
        BY <2>2, <4>1 DEF Delivered
      <4>3. QED
        BY <4>1, <4>2, UpToType DEF Bytes
    <3>3. source = UpTo(batch, Len(delivered))
      BY <3>1, <3>2
    <3>4. QED
      BY <2>4, <3>3 DEF BetweenRecords
  <2>5. CASE InRecord
    BY <2>5 DEF InRecord
  <2>6. QED
    BY <2>2, <2>3, <2>4, <2>5
<1>2. QED
  BY <1>1, IInvAlways, PTL

LEMMA SuffixIs ==
  ASSUME NEW t \in Seq(Byte), NEW n \in 1..Len(t)
  PROVE  IsSuffix(DropFirst(t, n), t) /\ Len(DropFirst(t, n)) < Len(t)
<1> DEFINE s == DropFirst(t, n)
<1>1. Len(t) \in Nat /\ n \in 0..Len(t)
  OBVIOUS
<1>2. s \in Seq(Byte) /\ Len(s) = Len(t) - n /\ \A i \in 1..Len(t) - n : s[i] = t[i + n]
  BY <1>1, DropFirstIs
<1> HIDE DEF s
<1> DEFINE a == Reverse(s)
<1> DEFINE b == Reverse(t)
<1>3. a \in Seq(Byte) /\ Len(a) = Len(s) /\ \A i \in 1..Len(s) : a[i] = s[(Len(s) - i) + 1]
  <2>1. Len(s) \in Nat /\ \A i \in 1..Len(s) : (Len(s) - i) + 1 \in 1..Len(s)
    BY <1>1, <1>2
  <2>2. QED
    BY <1>2, <2>1 DEF Reverse
<1>4. b \in Seq(Byte) /\ Len(b) = Len(t) /\ \A i \in 1..Len(t) : b[i] = t[(Len(t) - i) + 1]
  <2>1. Len(t) \in Nat /\ \A i \in 1..Len(t) : (Len(t) - i) + 1 \in 1..Len(t)
    BY <1>1
  <2>2. QED
    BY <2>1 DEF Reverse
<1> HIDE DEF a, b
<1>5. ASSUME NEW i \in 1..Len(s) PROVE a[i] = b[i]
  <2> DEFINE j == (Len(s) - i) + 1
  <2>1. j \in 1..Len(t) - n /\ j + n = (Len(t) - i) + 1 /\ i \in 1..Len(t)
    BY <1>1, <1>2
  <2>2. a[i] = s[j] /\ b[i] = t[(Len(t) - i) + 1]
    BY <1>3, <1>4, <2>1
  <2> HIDE DEF j
  <2>3. s[j] = t[j + n]
    BY <1>2, <2>1
  <2>4. QED
    BY <2>1, <2>2, <2>3
<1>6. Len(a) \in 0..Len(a) /\ Len(a) \in 0..Len(b) /\ Len(a) <= Len(b) /\ Len(s) < Len(t)
  BY <1>1, <1>2, <1>3, <1>4
<1>7. SubSeq(a, 1, Len(a)) = SubSeq(b, 1, Len(a))
  <2>1. /\ SubSeq(a, 1, Len(a)) \in Seq(Byte) /\ Len(SubSeq(a, 1, Len(a))) = Len(a)
        /\ \A i \in 1..Len(a) : SubSeq(a, 1, Len(a))[i] = a[i]
    BY <1>3, <1>6, FirstIs
  <2>2. /\ SubSeq(b, 1, Len(a)) \in Seq(Byte) /\ Len(SubSeq(b, 1, Len(a))) = Len(a)
        /\ \A i \in 1..Len(a) : SubSeq(b, 1, Len(a))[i] = b[i]
    BY <1>4, <1>6, FirstIs
  <2>3. QED
    BY <1>3, <1>5, <2>1, <2>2, SameBytes
<1>8. QED
  BY <1>6, <1>7 DEF IsSuffix, IsPrefix, a, b, s

\* Over any bytes, a record that is delivered has consumed bytes from the front,
\* and at least one.
THEOREM ConsumesFrontAlways == Spec => ConsumesFront
<1> DEFINE Consumes == Len(delivered') > Len(delivered) =>
                         IsSuffix(iter'.data, iter.data) /\ Len(iter'.data) < Len(iter.data)
<1>1. IInv /\ [Next]_vars => [Consumes]_vars
  <2> SUFFICES ASSUME IInv, Next, Len(delivered') > Len(delivered)
               PROVE  IsSuffix(iter'.data, iter.data) /\ Len(iter'.data) < Len(iter.data)
    OBVIOUS
  <2>1. Len(delivered) \in Nat /\ Len(<<>>) = 0
    BY DEF IInv, IterOK
  <2>2. delivered' # <<>> /\ delivered' # delivered
    BY <2>1
  <2>3. Next_
    BY <2>2 DEF Next, Queue, Clear, SetSavePoint, RollbackToSavePoint, PopSavePoint, NewIterator,
                IteratorEnds, ivars
  <2>4. iter.data # <<>> /\ EndOf(iter'.data, DropFirst(iter.data, 1))
    BY <2>3, Next_Type
  <2>5. iter.data \in Seq(Byte)
    BY IterData DEF IInv, IterOK, Bytes
  <2> DEFINE t == iter.data
  <2>6. PICK n \in 1..Len(t) : iter'.data = DropFirst(t, n)
    <3>1. Len(t) \in Nat \ {0} /\ 1 \in 0..Len(t)
      BY <2>4, <2>5
    <3>2. PICK m \in 0..Len(DropFirst(t, 1)) : iter'.data = DropFirst(DropFirst(t, 1), m)
      BY <2>4 DEF EndOf
    <3> DEFINE r == DropFirst(t, 1)
    <3>3. r \in Seq(Byte) /\ Len(r) = Len(t) - 1 /\ \A i \in 1..Len(t) - 1 : r[i] = t[i + 1]
      BY <2>5, <3>1, DropFirstIs
    <3> HIDE DEF r
    <3>4. m \in 0..Len(r) /\ m \in Nat /\ m + 1 \in 1..Len(t) /\ m + 1 \in 0..Len(t)
      BY <3>1, <3>2, <3>3 DEF r
    <3>5. DropFirst(r, m) \in Seq(Byte) /\ Len(DropFirst(r, m)) = Len(r) - m
          /\ \A i \in 1..Len(r) - m : DropFirst(r, m)[i] = r[i + m]
      BY <3>3, <3>4, DropFirstIs
    <3>6. DropFirst(t, m + 1) \in Seq(Byte) /\ Len(DropFirst(t, m + 1)) = Len(t) - (m + 1)
          /\ \A i \in 1..Len(t) - (m + 1) : DropFirst(t, m + 1)[i] = t[i + (m + 1)]
      BY <2>5, <3>4, DropFirstIs
    <3>7. DropFirst(r, m) = DropFirst(t, m + 1)
      <4> DEFINE x == DropFirst(r, m)
      <4> DEFINE y == DropFirst(t, m + 1)
      <4>1. Len(x) = Len(y)
        BY <3>1, <3>3, <3>4, <3>5, <3>6
      <4>2. ASSUME NEW i \in 1..Len(x) PROVE x[i] = y[i]
        <5>1. i + m \in 1..Len(t) - 1 /\ i \in 1..Len(r) - m /\ i \in 1..Len(t) - (m + 1)
              /\ (i + m) + 1 = i + (m + 1)
          BY <3>1, <3>3, <3>4, <3>5
        <5>2. x[i] = r[i + m] /\ r[i + m] = t[(i + m) + 1] /\ y[i] = t[i + (m + 1)]
          BY <3>3, <3>5, <3>6, <5>1
        <5>3. QED
          BY <5>1, <5>2
      <4> HIDE DEF x, y
      <4>3. x \in Seq(Byte) /\ y \in Seq(Byte)
        BY <3>5, <3>6 DEF x, y
      <4>4. QED
        BY <4>1, <4>2, <4>3, SameBytes DEF x, y
    <3>8. QED
      BY <3>2, <3>4, <3>7 DEF r
  <2> HIDE DEF t
  <2>7. QED
    BY <2>5, <2>6, SuffixIs DEF t
<1>2. QED
  BY <1>1, IInvAlways, PTL DEF Spec, ConsumesFront

\* The panic of Next needs damaged bytes: on a batch of the library's own making,
\* whole or cut anywhere, the length that decodeSlice reads is never negative.
THEOREM UndamagedNeverPanics == Spec => [](Undamaged => NeverPanics)
<1>1. IInv => (Undamaged => NeverPanics)
  <2> SUFFICES ASSUME IInv, Undamaged PROVE NeverPanics
    OBVIOUS
  <2>1. CASE source = <<>>
    <3>1. iter = Iterator(<<>>)
      BY <2>1 DEF IInv, Idle
    <3>2. QED
      BY <3>1, EmptySeq DEF NeverPanics, Iterator
  <2>2. CASE source # <<>>
    <3>1. iter.panic = FALSE
      BY <2>2 DEF IInv, Reading
    <3>2. QED
      BY <3>1 DEF NeverPanics
  <2>3. QED
    BY <2>1, <2>2
<1>2. QED
  BY <1>1, IInvAlways, PTL

\* What a reader of a batch sees of it once a loop over Next has come to its end.
RoundTrip ==
  source = Data(batch) /\ ended =>
    /\ iter.err = "nil"
    /\ Len(delivered) = Len(batch)
    /\ \A i \in 1..Len(delivered) : delivered[i] = Expected(batch[i])

\* A batch that is read whole comes back whole: when the loop over Next ends,
\* every queued operation has been delivered, in order, and Error is nil.
THEOREM RoundTripAlways == Spec => []RoundTrip
<1>1. IInv => RoundTrip
  <2> SUFFICES ASSUME IInv, source = Data(batch), ended
               PROVE  /\ iter.err = Nil /\ Len(delivered) = Len(batch)
                      /\ \A i \in 1..Len(delivered) : delivered[i] = Expected(batch[i])
    BY DEF RoundTrip, Nil
  <2>1. batch \in Seq(Operations) /\ Len(batch) \in Nat /\ Data(batch) \in Bytes /\ Len(delivered) \in Nat
    BY BatchOps DEF IInv, IterOK
  <2>2. 0 \in 0..Len(batch) /\ Len(batch) \in 0..Len(batch)
    BY <2>1
  <2>3. source = UpTo(batch, Len(batch)) /\ ~ (Len(source) < HeaderLen)
    <3>1. source = UpTo(batch, Len(batch))
      BY <2>1, UpToAll
    <3>2. Len(UpTo(batch, 0)) <= Len(UpTo(batch, Len(batch)))
      BY <2>1, <2>2, UpToLonger
    <3>3. Len(UpTo(batch, 0)) = HeaderLen
      BY UpToZero, HeaderIs
    <3>4. Len(UpTo(batch, Len(batch))) \in Nat
      BY <2>1, <2>2, UpToType
    <3>5. Len(source) = Len(UpTo(batch, Len(batch)))
      BY <3>1
    <3>6. Len(source) \in Nat /\ HeaderLen <= Len(source)
      BY <3>2, <3>3, <3>4, <3>5, Zenon
    <3>7. ~ (Len(source) < HeaderLen)
      BY <3>6, HeaderIs
    <3>8. QED
      BY <3>1, <3>7
  <2>4. source # <<>>
    BY DEF IInv, Idle
  <2>5. Undamaged
    <3>1. Data(batch) \in Seq(Byte) /\ Len(Data(batch)) \in Nat
      BY <2>1 DEF Bytes
    <3>2. QED
      BY <3>1 DEF Undamaged, IsPrefix
  <2>6. Delivered /\ (WithinHeader \/ BetweenRecords \/ InRecord)
    BY <2>4, <2>5 DEF IInv, Reading
  <2>7. BetweenRecords
    BY <2>2, <2>3, <2>6 DEF WithinHeader, InRecord
  <2> DEFINE k == Len(delivered)
  <2>8. k \in 0..Len(batch)
    BY <2>1, <2>6 DEF Delivered
  <2>9. UpTo(batch, k) = UpTo(batch, Len(batch))
    <3>1. UpTo(batch, k) \in Seq(Byte)
      BY <2>1, <2>8, UpToType DEF Bytes
    <3>2. source = UpTo(batch, k) \o <<>>
      BY <2>7 DEF BetweenRecords
    <3>3. QED
      BY <2>3, <3>1, <3>2
  <2>10. ASSUME k < Len(batch) PROVE FALSE
    <3> DEFINE e == Encode(batch[k + 1])
    <3>1. k \in Nat /\ k + 1 \in 0..Len(batch) /\ k + 1 <= Len(batch) /\ batch[k + 1] \in Operations
      BY <2>1, <2>8, <2>10
    <3>2. e \in Seq(Byte) /\ Len(e) \in Nat \ {0}
      BY <3>1, EncodeType DEF Bytes
    <3> HIDE DEF k
    <3>3. UpTo(batch, k + 1) = UpTo(batch, k) \o e
      BY <2>1, <3>1, UpToStep
    <3> HIDE DEF e
    <3>4. UpTo(batch, k) \in Seq(Byte)
      BY <2>1, <2>8, UpToType DEF Bytes
    <3>5. Len(UpTo(batch, k) \o e) = Len(UpTo(batch, k)) + Len(e) /\ Len(UpTo(batch, k)) \in Nat
      BY <3>2, <3>4
    <3>6. Len(UpTo(batch, k + 1)) <= Len(UpTo(batch, Len(batch)))
      BY <2>1, <2>2, <3>1, UpToLonger
    <3>7. Len(UpTo(batch, k)) + Len(e) <= Len(UpTo(batch, k))
      BY <2>9, <3>3, <3>5, <3>6, Zenon
    <3>8. QED
      BY <3>2, <3>5, <3>7
  <2>11. k = Len(batch)
    BY <2>1, <2>8, <2>10
  <2>12. QED
    BY <2>6, <2>7, <2>11 DEF BetweenRecords, Delivered
<1>2. QED
  BY <1>1, IInvAlways, PTL

\* What is delivered and what is left, never more than the bytes given.
Spent == Len(delivered) + Len(iter.data) <= Len(source)

LEMMA StepSpends ==
  ASSUME IInv, Spent, [Next]_vars
  PROVE  Spent'
<1>1. /\ delivered \in Seq(RecType) /\ Len(delivered) \in Nat
      /\ iter.data \in Seq(Byte) /\ Len(iter.data) \in Nat /\ Len(source) \in Nat
  BY IterData DEF IInv, IterOK, Bytes
<1>2. ASSUME IteratorEnds PROVE Spent'
  <2>1. <<>> \in Bytes /\ Len(<<>>) = 0
    BY DEF Bytes
  <2>2. Iterator(<<>>).data = <<>>
    BY <2>1, FreshIs
  <2>3. Len(delivered') = 0 /\ Len(source') = 0 /\ Len((iter.data)') = 0
    BY <1>2, <2>1, <2>2 DEF IteratorEnds
  <2>4. QED
    BY <2>3 DEF Spent
<1>3. ASSUME NEW s \in Bytes, NewIterator(s) PROVE Spent'
  <2>1. SkipHeader(s) \in Bytes /\ Len(s) \in Nat /\ s \in Seq(Byte)
    BY SkipHeaderType DEF Bytes
  <2>2. Iterator(SkipHeader(s)).data = SkipHeader(s)
    BY <2>1, FreshIs
  <2>3. Len(SkipHeader(s)) <= Len(s)
    <3>1. CASE Len(s) < HeaderLen
      BY <2>1, <3>1 DEF SkipHeader
    <3>2. CASE ~ (Len(s) < HeaderLen)
      <4>1. HeaderLen \in 0..Len(s) /\ HeaderLen \in Nat
        BY <2>1, <3>2, HeaderIs
      <4>2. Len(DropFirst(s, HeaderLen)) = Len(s) - HeaderLen
        BY <2>1, <4>1, DropFirstIs
      <4>3. QED
        BY <2>1, <3>2, <4>1, <4>2 DEF SkipHeader
    <3>3. QED
      BY <3>1, <3>2
  <2>4. iter'.data = SkipHeader(s) /\ source' = s /\ Len(delivered') = 0
    BY <1>3, <2>2 DEF NewIterator
  <2>5. Len(SkipHeader(s)) \in Nat
    BY <2>1 DEF Bytes
  <2>6. QED
    BY <2>3, <2>4, <2>5 DEF Spent
<1>4. CASE Next_
  <2>1. source' = source
    BY <1>4 DEF Next_
  <2>2. CASE Exhausted(iter)
    <3>1. iter' = iter /\ delivered' = delivered
      BY <1>4, <2>2 DEF Next_
    <3>2. QED
      BY <2>1, <3>1 DEF Spent
  <2>3. CASE ~ Exhausted(iter)
    <3>1. iter' = Advance(iter) /\ iter.data # <<>> /\ IsIter(iter)
      BY <1>4, <2>3 DEF Next_, Exhausted, IInv, IterOK
    <3>2. EndOf(iter'.data, DropFirst(iter.data, 1))
      BY <3>1, AdvanceType
    <3> DEFINE r == DropFirst(iter.data, 1)
    <3>3. 1 \in 0..Len(iter.data)
      BY <1>1, <3>1
    <3>a. r \in Seq(Byte) /\ Len(r) = Len(iter.data) - 1
      BY <1>1, <3>3, DropFirstIs, Zenon
    <3> HIDE DEF r
    <3>4. r \in Seq(Byte) /\ Len(r) = Len(iter.data) - 1 /\ Len(r) \in Nat
      BY <3>a
    <3>5. PICK n \in 0..Len(r) : iter'.data = DropFirst(r, n)
      BY <3>2, Zenon DEF EndOf, r
    <3>6. Len(iter'.data) = Len(r) - n
      BY <3>4, <3>5, DropFirstIs
    <3>7. Len(delivered') <= Len(delivered) + 1 /\ Len(delivered') \in Nat
      <4>1. delivered' = delivered \/ delivered' = Append(delivered, iter'.rec)
        BY <1>4 DEF Next_
      <4>2. Len(Append(delivered, iter'.rec)) = Len(delivered) + 1
        BY <1>1
      <4>3. QED
        BY <1>1, <4>1, <4>2
    <3>8. QED
      BY <1>1, <2>1, <3>4, <3>5, <3>6, <3>7 DEF Spent
  <2>4. QED
    BY <2>2, <2>3
<1>5. CASE UNCHANGED ivars
  BY <1>5 DEF ivars, Spent
<1>6. ASSUME NEW n \in 1..Len(Data(batch)), NewIterator(SubSeq(Data(batch), 1, n)) PROVE Spent'
  <2>1. Data(batch) \in Bytes
    BY BatchOps DEF IInv
  <2>2. SubSeq(Data(batch), 1, n) \in Bytes
    BY <2>1 DEF Bytes
  <2>3. QED
    BY <1>3, <1>6, <2>2
<1>7. ASSUME NEW s \in Damage(Data(batch)), s \in Seq(Byte), NewIterator(s) PROVE Spent'
  BY <1>3, <1>7 DEF Bytes
<1>8. CASE UNCHANGED vars
  <2>1. UNCHANGED ivars
    BY <1>8 DEF vars, ivars
  <2>2. QED
    BY <1>5, <2>1
<1>9. QED
  BY <1>2, <1>4, <1>5, <1>6, <1>7, <1>8
  DEF Next, Queue, Clear, SetSavePoint, RollbackToSavePoint, PopSavePoint

\* Over any bytes, damaged ones too, Next delivers at most as many records as there
\* are bytes: no iterator makes a loop over Next go on for ever.
THEOREM DeliveriesBounded == Spec => [](Len(delivered) <= Len(source))
<1>1. Init => Spent
  <2> SUFFICES ASSUME Init PROVE Spent
    OBVIOUS
  <2>1. <<>> \in Bytes /\ Len(<<>>) = 0
    BY DEF Bytes
  <2>2. Iterator(<<>>).data = <<>>
    BY <2>1, FreshIs
  <2>3. Len(delivered) = 0 /\ Len(source) = 0 /\ Len(iter.data) = 0
    BY <2>1, <2>2 DEF Init
  <2>4. QED
    BY <2>3 DEF Spent
<1>2. IInv /\ Spent /\ [Next]_vars => Spent'
  BY StepSpends
<1>3. IInv /\ Spent => Len(delivered) <= Len(source)
  <2> SUFFICES ASSUME IInv, Spent PROVE Len(delivered) <= Len(source)
    OBVIOUS
  <2>1. Len(delivered) \in Nat /\ Len(iter.data) \in Nat /\ Len(source) \in Nat
    BY IterData DEF IInv, IterOK, Bytes
  <2>2. QED
    BY <2>1 DEF Spent
<1>4. QED
  BY <1>1, <1>2, <1>3, IInvAlways, PTL DEF Spec
===============================================================================
