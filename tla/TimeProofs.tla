----------------------------- MODULE TimeProofs -----------------------------
(***************************************************************************)
(* Proofs about PosixTime as it runs in MCData: the arithmetic of times    *)
(* and durations is exact for any number of nanoseconds in a second.       *)
(***************************************************************************)
EXTENDS MCData, TLAPS

-----------------------------------------------------------------------------
(* Products and quotients of integers.                                     *)

LEMMA Distributes ==
  ASSUME NEW a \in Int, NEW b \in Int, NEW c \in Int
  PROVE  (a + b) * c = a * c + b * c /\ (a - b) * c = a * c - b * c
  OBVIOUS

LEMMA Associates ==
  ASSUME NEW a \in Int, NEW b \in Int, NEW c \in Int
  PROVE  (a * b) * c = a * (b * c) /\ a * b = b * a /\ a * b \in Int
  OBVIOUS

LEMMA SignOfProduct ==
  ASSUME NEW a \in Int, NEW b \in Int, b > 0
  PROVE  /\ a * b \in Int
         /\ a > 0 => a * b > 0 /\ a * b >= b
         /\ a = 0 => a * b = 0
         /\ a < 0 => a * b < 0 /\ a * b <= -b
  OBVIOUS

LEMMA DivOf ==
  ASSUME NEW a \in Nat, NEW b \in Nat, b > 0
  PROVE  a \div b \in Nat /\ b * (a \div b) <= a /\ a < b * (a \div b) + b
  OBVIOUS

LEMMA DivIs ==
  ASSUME NEW a \in Nat, NEW b \in Nat, b > 0, NEW q \in Int, NEW r \in Int,
         a = b * q + r, 0 <= r, r < b
  PROVE  a \div b = q
  OBVIOUS

\* C's quotient: the remainder has the sign of the dividend.
LEMMA QuotOf ==
  ASSUME NEW a \in Int, NEW b \in Nat, b > 0
  PROVE  /\ TmQuot(a, b) \in Int /\ b * TmQuot(a, b) \in Int
         /\ a >= 0 => /\ TmQuot(a, b) >= 0
                      /\ b * TmQuot(a, b) <= a /\ a < b * TmQuot(a, b) + b
         /\ a <= 0 => /\ TmQuot(a, b) <= 0
                      /\ a <= b * TmQuot(a, b) /\ b * TmQuot(a, b) - b < a
<1>1. CASE a >= 0
  <2>1. TmQuot(a, b) = a \div b
    BY <1>1 DEF TmQuot, TmAbs
  <2>2. a \in Nat
    BY <1>1
  <2>3. a \div b \in Nat /\ b * (a \div b) <= a /\ a < b * (a \div b) + b
    BY <2>2, DivOf
  <2>4. a = 0 => a \div b = 0
    BY DivIs
  <2>5. b * (a \div b) \in Int /\ (a = 0 => b * (a \div b) = 0)
    BY <2>3, <2>4
  <2> QED
    BY <1>1, <2>1, <2>3, <2>4, <2>5
<1>2. CASE a < 0
  <2>1. TmQuot(a, b) = -((-a) \div b)
    BY <1>2 DEF TmQuot, TmAbs
  <2>2. -a \in Nat
    BY <1>2
  <2>3. PICK q : q = (-a) \div b
    OBVIOUS
  <2>4. q \in Nat /\ b * q <= -a /\ -a < b * q + b
    BY <2>2, <2>3, DivOf
  <2>5. b * (-q) = -(b * q) /\ b * q \in Int
    BY <2>4
  <2> QED
    BY <1>2, <2>1, <2>3, <2>4, <2>5
<1> QED
  BY <1>1, <1>2

LEMMA QuotIs ==
  ASSUME NEW a \in Int, NEW b \in Nat, b > 0, NEW q \in Int, NEW r \in Int,
         a = b * q + r, -b < r, r < b,
         a >= 0 => r >= 0, a <= 0 => r <= 0
  PROVE  TmQuot(a, b) = q
<1>1. CASE a >= 0
  <2>1. TmQuot(a, b) = a \div b
    BY <1>1 DEF TmQuot, TmAbs
  <2> QED
    BY <1>1, <2>1, DivIs
<1>2. CASE a < 0
  <2>1. TmQuot(a, b) = -((-a) \div b)
    BY <1>2 DEF TmQuot, TmAbs
  <2>2. -a \in Nat /\ -q \in Int /\ -r \in Int /\ 0 <= -r /\ -r < b
    BY <1>2
  <2>3. -a = b * (-q) + (-r)
    OBVIOUS
  <2>4. (-a) \div b = -q
    BY <2>2, <2>3, DivIs
  <2> QED
    BY <2>1, <2>4
<1> QED
  BY <1>1, <1>2

\* A multiple of the divisor that has the dividend's sign goes through.
LEMMA QuotShift ==
  ASSUME NEW a \in Int, NEW b \in Nat, b > 0, NEW k \in Int,
         k > 0 => a >= 0, k < 0 => a <= 0
  PROVE  TmQuot(b * k + a, b) = k + TmQuot(a, b)
<1>1. PICK q : q = TmQuot(a, b)
  OBVIOUS
<1>2. PICK m : m = b * q
  OBVIOUS
<1>3. PICK n : n = b * k
  OBVIOUS
<1>4. /\ q \in Int /\ m \in Int
      /\ a >= 0 => q >= 0 /\ m <= a /\ a < m + b
      /\ a <= 0 => q <= 0 /\ a <= m /\ m - b < a
  BY <1>1, <1>2, QuotOf
<1>5. /\ n \in Int
      /\ k > 0 => n >= b
      /\ k = 0 => n = 0
      /\ k < 0 => n <= -b
  BY <1>3, SignOfProduct, Associates
<1>6. b * (k + q) = n + m
  BY <1>2, <1>3, <1>4
<1>7. /\ n + a \in Int /\ k + q \in Int /\ a - m \in Int
      /\ n + a = b * (k + q) + (a - m) /\ -b < a - m /\ a - m < b
  BY <1>4, <1>5, <1>6
<1>8. /\ n + a >= 0 => a - m >= 0
      /\ n + a <= 0 => a - m <= 0
  BY <1>4, <1>5
<1>9. TmQuot(n + a, b) = k + q
  BY ONLY <1>7, <1>8, QuotIs, b \in Nat, b > 0
<1> QED
  BY <1>1, <1>3, <1>9, Zenon

-----------------------------------------------------------------------------
(* Times and durations.  TmIs(t, n): t is the normal form of n nanoseconds.*)

TmOk(s, n) == /\ s \in Int /\ n \in Int
              /\ s > 0 => n >= 0
              /\ s < 0 => n <= 0
              /\ -TmNs <= n /\ n <= TmNs

TmIs(t, ticks) == \E s, n : t = Tm(s, n) /\ TmOk(s, n) /\ ticks = s * TmNs + n

LEMMA TmPositive ==
  TmNs \in Nat /\ TmNs > 0
  BY TmBases

LEMMA TmFields ==
  ASSUME NEW s, NEW n
  PROVE  Tm(s, n).sec = s /\ Tm(s, n).nsec = n
  BY DEF Tm

LEMMA TmIsInt ==
  ASSUME NEW t, NEW ticks, TmIs(t, ticks)
  PROVE  /\ t.sec \in Int /\ t.nsec \in Int /\ ticks \in Int
         /\ TmTicks(t) = ticks /\ ticks = t.sec * TmNs + t.nsec
         /\ TmOk(t.sec, t.nsec)
<1>1. PICK s, n : t = Tm(s, n) /\ TmOk(s, n) /\ ticks = s * TmNs + n
  BY Zenon DEF TmIs
<1>2. t.sec = s /\ t.nsec = n
  BY <1>1, TmFields
<1>3. s \in Int /\ n \in Int
  BY <1>1, Zenon DEF TmOk
<1>4. s * TmNs \in Int
  BY <1>3, TmPositive
<1>5. ticks \in Int
  BY <1>1, <1>3, <1>4
<1> QED
  BY <1>1, <1>2, <1>3, <1>5, Zenon DEF TmTicks

\* normalize_timespec() keeps the value and makes it normal, whatever the fields.
LEMMA Normalizes ==
  ASSUME NEW s \in Int, NEW n \in Int
  PROVE  TmIs(TmNormalize(Tm(s, n)), s * TmNs + n)
<1>1. PICK w : w = TmWhole(n)
  OBVIOUS
<1>2. PICK m : m = TmNs * w
  OBVIOUS
<1>3. PICK u : u = TmNs /\ u \in Nat /\ u > 0
  BY TmPositive
<1>4. /\ w \in Int /\ m \in Int
      /\ -u <= n - m /\ n - m <= u
      /\ n > 0 => n - m >= 0
      /\ n < 0 => n - m <= 0
  <2>1. CASE n > u
    <3>1. w = (n - 1) \div u /\ n - 1 \in Nat
      BY <1>1, <1>3, <2>1 DEF TmWhole
    <3>2. w \in Nat /\ u * w <= n - 1 /\ n - 1 < u * w + u
      BY <1>3, <3>1, DivOf
    <3> QED
      BY <1>2, <1>3, <2>1, <3>2
  <2>2. CASE n < -u
    <3>1. w = -((-n - 1) \div u) /\ -n - 1 \in Nat
      BY <1>1, <1>3, <2>2 DEF TmWhole
    <3>2. PICK q : q = (-n - 1) \div u
      OBVIOUS
    <3>3. q \in Nat /\ u * q <= -n - 1 /\ -n - 1 < u * q + u
      BY <1>3, <3>1, <3>2, DivOf
    <3>4. u * (-q) = -(u * q) /\ u * q \in Int
      BY <1>3, <3>3
    <3> QED
      BY <1>2, <1>3, <2>2, <3>1, <3>2, <3>3, <3>4
  <2>3. CASE ~(n > u) /\ ~(n < -u)
    <3>1. w = 0
      BY <1>1, <1>3, <2>3 DEF TmWhole
    <3>2. m = 0
      BY <1>2, <1>3, <3>1
    <3> QED
      BY <1>3, <2>3, <3>1, <3>2
  <2> QED
    BY <2>1, <2>2, <2>3
<1>5. TmCarry(Tm(s, n)) = Tm(s + w, n - m)
  BY <1>1, <1>2, TmFields, Zenon DEF TmCarry
<1>6. PICK x : x = s + w
  OBVIOUS
<1>7. PICK y : y = n - m
  OBVIOUS
<1>8. x \in Int /\ y \in Int /\ -u <= y /\ y <= u
  BY <1>4, <1>6, <1>7
<1>9. x * u + y = s * TmNs + n
  <2>1. x * u = s * u + w * u /\ w * u = m /\ s * u \in Int
    BY <1>2, <1>3, <1>4, <1>6
  <2> QED
    BY <1>3, <1>4, <1>7, <2>1
<1>10. TmNormalize(Tm(s, n)) = TmSigns(Tm(x, y))
  BY <1>5, <1>6, <1>7, Zenon DEF TmNormalize
<1>11. CASE x > 0 /\ y < 0
  <2>1. TmSigns(Tm(x, y)) = Tm(x - 1, y + TmNs)
    BY <1>11, TmFields, Zenon DEF TmSigns
  <2>2. TmOk(x - 1, y + TmNs)
    BY <1>3, <1>8, <1>11 DEF TmOk
  <2>3. (x - 1) * u + (y + u) = x * u + y
    BY <1>3, <1>8
  <2> QED
    BY <1>3, <1>9, <1>10, <2>1, <2>2, <2>3, Zenon DEF TmIs
<1>12. CASE x < 0 /\ y > 0
  <2>1. ~(x > 0 /\ y < 0)
    BY <1>8, <1>12
  <2>2. TmSigns(Tm(x, y)) = Tm(x + 1, y - TmNs)
    BY <1>12, <2>1, TmFields, Zenon DEF TmSigns
  <2>3. TmOk(x + 1, y - TmNs)
    BY <1>3, <1>8, <1>12 DEF TmOk
  <2>4. (x + 1) * u + (y - u) = x * u + y
    BY <1>3, <1>8
  <2> QED
    BY <1>3, <1>9, <1>10, <2>2, <2>3, <2>4, Zenon DEF TmIs
<1>13. CASE ~(x > 0 /\ y < 0) /\ ~(x < 0 /\ y > 0)
  <2>1. TmSigns(Tm(x, y)) = Tm(x, y)
    BY <1>13, TmFields, Zenon DEF TmSigns
  <2>2. TmOk(x, y)
    BY <1>3, <1>8, <1>13 DEF TmOk
  <2> QED
    BY <1>3, <1>9, <1>10, <2>1, <2>2, Zenon DEF TmIs
<1> QED
  BY <1>11, <1>12, <1>13

\* The sum and the difference of two values are those of their nanoseconds.
LEMMA AddsUp ==
  ASSUME NEW t, NEW a, TmIs(t, a), NEW v, NEW b, TmIs(v, b)
  PROVE  TmIs(TmPlus(t, v), a + b) /\ TmIs(TmMinus(t, v), a - b)
<1>1. /\ t.sec \in Int /\ t.nsec \in Int /\ a = t.sec * TmNs + t.nsec
      /\ v.sec \in Int /\ v.nsec \in Int /\ b = v.sec * TmNs + v.nsec
  BY TmIsInt, Zenon
<1>2. PICK s, n, x, y : s = t.sec /\ n = t.nsec /\ x = v.sec /\ y = v.nsec
  OBVIOUS
<1>3. PICK u : u = TmNs /\ u \in Nat
  BY TmPositive
<1>4. s \in Int /\ n \in Int /\ x \in Int /\ y \in Int /\ a = s * u + n /\ b = x * u + y
  BY <1>1, <1>2, <1>3, Zenon
<1>5. /\ (s + x) * u + (n + y) = a + b
      /\ (s - x) * u + (n - y) = a - b
  <2>1. (s + x) * u = s * u + x * u /\ (s - x) * u = s * u - x * u
    BY <1>3, <1>4
  <2>2. s * u \in Int /\ x * u \in Int
    BY <1>3, <1>4
  <2> QED
    BY <1>4, <2>1, <2>2
<1>6. s + x \in Int /\ n + y \in Int /\ s - x \in Int /\ n - y \in Int
  BY <1>4
<1>7. /\ TmIs(TmNormalize(Tm(s + x, n + y)), (s + x) * u + (n + y))
      /\ TmIs(TmNormalize(Tm(s - x, n - y)), (s - x) * u + (n - y))
  BY <1>3, <1>6, Normalizes, Zenon
<1> QED
  BY <1>2, <1>5, <1>7, Zenon DEF TmPlus, TmMinus

\* The constructors.
LEMMA FromNsec ==
  ASSUME NEW a \in Int
  PROVE  TmIs(TmFromNsec(a), a)
<1>1. PICK u : u = TmNs /\ u \in Nat /\ u > 0
  BY TmPositive
<1>2. PICK q : q = TmQuot(a, u)
  OBVIOUS
<1>3. PICK m : m = u * q
  OBVIOUS
<1>4. /\ q \in Int /\ m \in Int
      /\ a >= 0 => q >= 0 /\ m <= a /\ a < m + u
      /\ a <= 0 => q <= 0 /\ a <= m /\ m - u < a
  BY <1>1, <1>2, <1>3, QuotOf
<1>5. TmFromNsec(a) = Tm(q, a - m)
  BY <1>1, <1>2, <1>3, Zenon DEF TmFromNsec, TmRem
<1>6. TmOk(q, a - m)
  BY <1>1, <1>4 DEF TmOk
<1>7. q * u = m
  BY <1>1, <1>3, <1>4
<1>8. a = q * u + (a - m)
  BY <1>4, <1>7
<1> QED
  BY <1>1, <1>5, <1>6, <1>8, Zenon DEF TmIs

\* Nanoseconds in a millisecond.
LEMMA TmPerMs ==
  /\ TmNs \div TmMs \in Nat /\ TmNs \div TmMs > 0
  /\ TmMs \in Nat /\ TmMs > 0
  /\ TmMs * (TmNs \div TmMs) = TmNs
<1>1. TmNs \in Nat /\ TmNs > 0 /\ TmMs \in Nat /\ TmMs > 0 /\ TmNs % TmMs = 0
  BY TmBases
<1>2. TmNs = TmMs * (TmNs \div TmMs) + (TmNs % TmMs) /\ TmNs \div TmMs \in Nat
  BY <1>1
<1>3. TmNs \div TmMs # 0
  BY <1>1, <1>2
<1> QED
  BY <1>1, <1>2, <1>3

LEMMA FromMsec ==
  ASSUME NEW a \in Int
  PROVE  TmIs(TmFromMsec(a), a * (TmNs \div TmMs))
<1>1. PICK u, N, M : u = TmNs /\ N = TmNs \div TmMs /\ M = TmMs
  OBVIOUS
<1>2. u \in Nat /\ u > 0 /\ N \in Nat /\ N > 0 /\ M \in Nat /\ M > 0 /\ M * N = u
  BY <1>1, TmPerMs, TmPositive, Zenon
<1>3. PICK q : q = TmQuot(a, M)
  OBVIOUS
<1>4. PICK r : r = a - M * q
  OBVIOUS
<1>5. /\ q \in Int /\ r \in Int
      /\ a >= 0 => q >= 0 /\ 0 <= r /\ r < M
      /\ a <= 0 => q <= 0 /\ r <= 0 /\ -M < r
  <2>1. PICK m : m = M * q
    OBVIOUS
  <2>2. /\ q \in Int /\ m \in Int
        /\ a >= 0 => q >= 0 /\ m <= a /\ a < m + M
        /\ a <= 0 => q <= 0 /\ a <= m /\ m - M < a
    BY <1>2, <1>3, <2>1, QuotOf
  <2>3. r = a - m
    BY <1>4, <2>1
  <2> QED
    BY <1>2, <2>2, <2>3
<1>6. TmFromMsec(a) = Tm(q, r * N)
  BY <1>1, <1>3, <1>4, Zenon DEF TmFromMsec, TmRem
<1>7. /\ r * N \in Int
      /\ r >= 0 => r * N >= 0
      /\ r <= 0 => r * N <= 0
      /\ r < M => r * N <= u
      /\ -M < r => -u <= r * N
  BY <1>2, <1>5
<1>8. TmOk(q, r * N)
  BY <1>1, <1>2, <1>5, <1>7 DEF TmOk
<1>9. a * N = q * u + r * N
  <2>1. a = M * q + r
    BY <1>2, <1>4, <1>5
  <2>2. a * N = (M * q) * N + r * N
    BY <1>2, <1>5, <2>1
  <2>3. (M * q) * N = q * (M * N)
    BY <1>2, <1>5
  <2> QED
    BY <1>2, <2>2, <2>3
<1> QED
  BY <1>1, <1>6, <1>8, <1>9, Zenon DEF TmIs

LEMMA FromHalves ==
  ASSUME NEW p \in Int
  PROVE  TmIs(TmFromSec(p, 2), TmQuot(p * TmNs, 2))
<1>1. PICK u : u = TmNs /\ u \in Nat /\ u > 0
  BY TmPositive
<1>2. PICK q : q = TmQuot(p, 2)
  OBVIOUS
<1>3. PICK r : r = p - 2 * q
  OBVIOUS
<1>4. /\ q \in Int /\ r \in Int
      /\ p >= 0 => q >= 0 /\ 0 <= r /\ r < 2
      /\ p <= 0 => q <= 0 /\ r <= 0 /\ -2 < r
  <2>1. PICK m : m = 2 * q
    OBVIOUS
  <2>2. /\ q \in Int /\ m \in Int
        /\ p >= 0 => q >= 0 /\ m <= p /\ p < m + 2
        /\ p <= 0 => q <= 0 /\ p <= m /\ m - 2 < p
    <3>1. 2 \in Nat /\ 2 > 0
      OBVIOUS
    <3> QED
      BY <1>2, <2>1, <3>1, QuotOf
  <2>3. r = p - m
    BY <1>3, <2>1
  <2> QED
    BY <2>2, <2>3
<1>5. PICK k : k = TmQuot(r * u, 2)
  OBVIOUS
<1>6. TmFromSec(p, 2) = Tm(q, k)
  BY <1>1, <1>2, <1>3, <1>5, Zenon DEF TmFromSec
<1>7. /\ r * u \in Int
      /\ r >= 0 => r * u >= 0 /\ r * u <= u
      /\ r <= 0 => r * u <= 0 /\ -u <= r * u
  <2>1. r = 0 \/ r = 1 \/ r = -1
    BY <1>4
  <2> QED
    BY <1>1, <2>1
<1>8. PICK ru : ru = r * u
  OBVIOUS
<1>9. ru \in Int /\ k = TmQuot(ru, 2) /\ 2 \in Nat /\ 2 > 0
  BY <1>5, <1>7, <1>8
<1>10. /\ k \in Int
       /\ ru >= 0 => k >= 0 /\ 2 * k <= ru
       /\ ru <= 0 => k <= 0 /\ ru <= 2 * k
  BY <1>9, QuotOf
<1>11. TmOk(q, k)
  BY <1>1, <1>4, <1>7, <1>8, <1>10 DEF TmOk
<1>12. PICK qu : qu = q * u
  OBVIOUS
<1>13. /\ qu \in Int
       /\ q > 0 => qu > 0
       /\ q < 0 => qu < 0
       /\ q = 0 => qu = 0
  BY <1>1, <1>4, <1>12
<1>14. qu > 0 => ru >= 0
  BY <1>4, <1>7, <1>8, <1>13
<1>15. qu < 0 => ru <= 0
  BY <1>4, <1>7, <1>8, <1>13
<1>16. TmQuot(2 * qu + ru, 2) = qu + TmQuot(ru, 2)
  BY ONLY <1>9, <1>13, <1>14, <1>15, QuotShift
<1>17. p * u = 2 * qu + ru
  <2>1. p = 2 * q + r
    BY <1>3, <1>4
  <2>2. p * u = (2 * q) * u + r * u
    BY <1>1, <1>4, <2>1
  <2> QED
    BY <1>1, <1>4, <1>8, <1>12, <2>2
<1>18. TmQuot(p * TmNs, 2) = q * TmNs + k
  BY <1>1, <1>9, <1>12, <1>16, <1>17, Zenon
<1> QED
  BY <1>6, <1>11, <1>18, Zenon DEF TmIs

\* The conversion to milliseconds is that of the whole value.
LEMMA ToMsec ==
  ASSUME NEW t, NEW a, TmIs(t, a)
  PROVE  TmToMsec(t) = TmQuot(a, TmNs \div TmMs)
<1>1. PICK u, N, M : u = TmNs /\ N = TmNs \div TmMs /\ M = TmMs
  OBVIOUS
<1>2. u \in Nat /\ u > 0 /\ N \in Nat /\ N > 0 /\ M \in Nat /\ M > 0 /\ M * N = u
  BY <1>1, TmPerMs, TmPositive, Zenon
<1>3. PICK s, n : s = t.sec /\ n = t.nsec
  OBVIOUS
<1>4. TmOk(s, n) /\ a = s * u + n
  BY <1>1, <1>3, TmIsInt, Zenon
<1>5. s \in Int /\ n \in Int /\ (s > 0 => n >= 0) /\ (s < 0 => n <= 0)
  BY <1>4 DEF TmOk
<1>6. PICK k : k = s * M
  OBVIOUS
<1>7. k \in Int /\ (s > 0 => k > 0) /\ (s < 0 => k < 0) /\ (s = 0 => k = 0)
  BY <1>2, <1>5, <1>6
<1>8. (k > 0 => n >= 0) /\ (k < 0 => n <= 0)
  BY <1>5, <1>7
<1>9. TmQuot(N * k + n, N) = k + TmQuot(n, N)
  BY ONLY <1>2, <1>5, <1>7, <1>8, QuotShift
<1>10. N * k + n = a
  <2>1. N * (s * M) = s * (M * N)
    BY <1>2, <1>5
  <2> QED
    BY <1>2, <1>4, <1>6, <2>1, Zenon
<1> QED
  BY <1>1, <1>3, <1>6, <1>9, <1>10, Zenon DEF TmToMsec

-----------------------------------------------------------------------------
(* The invariant, and its steps.                                           *)

TmInv == TmIs(tmD, tmDTicks) /\ TmIs(tmT, tmTTicks) /\ \E n : TmIs(tmNow, n)

LEMMA TmStart ==
  ASSUME TmInit
  PROVE  TmInv
<1>1. 0 * TmNs + 0 = 0
  BY TmPositive
<1>2. TmOk(0, 0)
  BY TmPositive DEF TmOk
<1>3. TmIs(Tm(0, 0), 0 * TmNs + 0)
  BY <1>2, Zenon DEF TmIs
<1>4. TmIs(Tm(0, 0), 0)
  BY <1>1, <1>3, Zenon
<1>5. tmD = Tm(0, 0) /\ tmDTicks = 0 /\ tmT = Tm(0, 0) /\ tmTTicks = 0 /\ tmNow = Tm(0, 0)
  BY Zenon DEF TmInit
<1> QED
  BY <1>4, <1>5, Zenon DEF TmInv

LEMMA TmSets ==
  /\ \A d, ticks : TmInv /\ TmIs(d, ticks) /\ TmSetD(d, ticks) => TmInv'
  /\ \A t, ticks : TmInv /\ TmIs(t, ticks) /\ TmSetT(t, ticks) => TmInv'
<1>1. ASSUME NEW d, NEW ticks, TmInv, TmIs(d, ticks), TmSetD(d, ticks)
      PROVE  TmInv'
  <2>1. /\ tmD' = d /\ tmDTicks' = ticks
        /\ tmT' = tmT /\ tmTTicks' = tmTTicks /\ tmNow' = tmNow
    BY <1>1 DEF TmSetD
  <2>2. TmIs(tmT, tmTTicks) /\ \E n : TmIs(tmNow, n)
    BY <1>1, Zenon DEF TmInv
  <2>3. TmIs(tmD', tmDTicks') /\ TmIs(tmT', tmTTicks') /\ \E n : TmIs(tmNow', n)
    BY <1>1, <2>1, <2>2, Zenon
  <2> QED
    BY <2>3, Zenon DEF TmInv, TmIs, TmOk
<1>2. ASSUME NEW t, NEW ticks, TmInv, TmIs(t, ticks), TmSetT(t, ticks)
      PROVE  TmInv'
  <2>1. /\ tmT' = t /\ tmTTicks' = ticks
        /\ tmD' = tmD /\ tmDTicks' = tmDTicks /\ tmNow' = tmNow
    BY <1>2 DEF TmSetT
  <2>2. TmIs(tmD, tmDTicks) /\ \E n : TmIs(tmNow, n)
    BY <1>2, Zenon DEF TmInv
  <2>3. TmIs(tmD', tmDTicks') /\ TmIs(tmT', tmTTicks') /\ \E n : TmIs(tmNow', n)
    BY <1>2, <2>1, <2>2, Zenon
  <2> QED
    BY <2>3, Zenon DEF TmInv, TmIs, TmOk
<1> QED
  BY <1>1, <1>2, Zenon

LEMMA TmKept ==
  ASSUME TmInv, [TmNext]_tmVars
  PROVE  TmInv'
<1>1. PICK now : TmIs(tmNow, now)
  BY Zenon DEF TmInv
<1>2. TmIs(tmD, tmDTicks) /\ TmIs(tmT, tmTTicks)
  BY Zenon DEF TmInv
<1>3. TmTicks(tmNow) = now /\ TmTicks(tmD) = tmDTicks
  BY <1>1, <1>2, TmIsInt, Zenon
<1>4. /\ now \in Int /\ tmDTicks \in Int
  BY <1>1, <1>2, TmIsInt, Zenon
<1>5. CASE TmMake
  <2>1. ASSUME NEW n \in TmSpan, TmSetD(TmFromNsec(n), n)
        PROVE  TmInv'
    <3>1. n \in Int
      BY TmPositive, TmBound DEF TmSpan
    <3> QED
      BY <2>1, <3>1, FromNsec, TmSets, Zenon
  <2>2. ASSUME NEW m \in -(TmMaxSec * TmMs)..(TmMaxSec * TmMs),
               TmSetD(TmFromMsec(m), m * (TmNs \div TmMs))
        PROVE  TmInv'
    <3>1. m \in Int
      BY TmPerMs, TmBound
    <3> QED
      BY <2>2, <3>1, FromMsec, TmSets, Zenon
  <2>3. ASSUME NEW p \in -TmMaxSec..TmMaxSec, TmSetD(TmFromSec(p, 2), TmQuot(p * TmNs, 2))
        PROVE  TmInv'
    <3>1. p \in Int
      BY TmBound
    <3> QED
      BY <2>3, <3>1, FromHalves, TmSets, Zenon
  <2>4. ASSUME NEW s \in -TmMaxSec..TmMaxSec, NEW n \in -(2 * TmNs)..(2 * TmNs),
               TmSetD(TmNormalize(Tm(s, n)), s * TmNs + n)
        PROVE  TmInv'
    <3>1. s \in Int /\ n \in Int
      BY TmPositive, TmBound
    <3> QED
      BY <2>4, <3>1, Normalizes, TmSets, Zenon
  <2> QED
    BY <1>5, <2>1, <2>2, <2>3, <2>4, Zenon DEF TmMake
<1>6. CASE TmScale
  <2>1. PICK f \in TmFactors : TmSetD(TmScaled(tmD, f[1], f[2]), TmQuot(tmDTicks * f[1], f[2]))
    BY <1>6, Zenon DEF TmScale
  <2>2. f[1] \in Int /\ f[2] \in Nat /\ f[2] > 0
    BY DEF TmFactors
  <2>3. PICK n : n = tmDTicks * f[1]
    OBVIOUS
  <2>4. n \in Int
    BY <1>4, <2>2, <2>3
  <2>5. TmQuot(n, f[2]) \in Int
    BY <2>2, <2>4, QuotOf
  <2>6. TmIs(TmFromNsec(TmQuot(n, f[2])), TmQuot(n, f[2]))
    BY <2>5, FromNsec, Zenon
  <2>7. TmIs(TmScaled(tmD, f[1], f[2]), TmQuot(tmDTicks * f[1], f[2]))
    BY <1>3, <2>3, <2>6, Zenon DEF TmScaled
  <2> QED
    BY <2>1, <2>7, TmSets, Zenon
<1>7. CASE TmAddSub
  <2>1. PICK e \in TmSpan : \/ TmSetD(TmPlus(tmD, TmFromNsec(e)), tmDTicks + e)
                            \/ TmSetD(TmMinus(tmD, TmFromNsec(e)), tmDTicks - e)
    BY <1>7, Zenon DEF TmAddSub
  <2>2. e \in Int
    BY TmPositive, TmBound DEF TmSpan
  <2>3. TmIs(TmFromNsec(e), e)
    BY <2>2, FromNsec, Zenon
  <2>4. /\ TmIs(TmPlus(tmD, TmFromNsec(e)), tmDTicks + e)
        /\ TmIs(TmMinus(tmD, TmFromNsec(e)), tmDTicks - e)
    BY <1>2, <2>3, AddsUp, Zenon
  <2> QED
    BY <2>1, <2>4, TmSets, Zenon
<1>8. CASE TmFromNow
  <2>1. TmIs(TmPlus(tmNow, tmD), TmTicks(tmNow) + tmDTicks)
    BY <1>1, <1>2, <1>3, AddsUp, Zenon
  <2> QED
    BY <1>8, <2>1, TmSets, Zenon DEF TmFromNow
<1>9. CASE TmShift
  <2>1. /\ TmIs(TmPlus(tmT, tmD), tmTTicks + tmDTicks)
        /\ TmIs(TmMinus(tmT, tmD), tmTTicks - tmDTicks)
    BY <1>2, AddsUp, Zenon
  <2> QED
    BY <1>9, <2>1, TmSets, Zenon DEF TmShift
<1>10. CASE TmRead
  BY <1>1, <1>3, <1>10, TmSets, Zenon DEF TmRead
<1>11. CASE TmElapsed
  <2>1. TmIs(TmMinus(tmNow, tmT), TmTicks(tmNow) - tmTTicks)
    BY <1>1, <1>2, <1>3, AddsUp, Zenon
  <2> QED
    BY <1>11, <2>1, TmSets, Zenon DEF TmElapsed
<1>12. CASE TmTick
  <2>1. /\ tmNow' = TmFromNsec(now + 1)
        /\ tmD' = tmD /\ tmDTicks' = tmDTicks /\ tmT' = tmT /\ tmTTicks' = tmTTicks
    BY <1>3, <1>12 DEF TmTick
  <2>2. now + 1 \in Int
    BY <1>4
  <2>3. TmIs(TmFromNsec(now + 1), now + 1)
    BY <2>2, FromNsec, Zenon
  <2>4. TmIs(tmD', tmDTicks') /\ TmIs(tmT', tmTTicks') /\ TmIs(tmNow', now + 1)
    BY <1>2, <2>1, <2>3, Zenon
  <2> QED
    BY <2>4, Zenon DEF TmInv, TmIs, TmOk
<1>13. CASE UNCHANGED tmVars
  <2>1. /\ tmNow' = tmNow /\ tmD' = tmD /\ tmDTicks' = tmDTicks
        /\ tmT' = tmT /\ tmTTicks' = tmTTicks
    BY <1>13 DEF tmVars
  <2>2. TmIs(tmD', tmDTicks') /\ TmIs(tmT', tmTTicks') /\ TmIs(tmNow', now)
    BY <1>1, <1>2, <2>1, Zenon
  <2> QED
    BY <2>2, Zenon DEF TmInv, TmIs, TmOk
<1> QED
  BY <1>5, <1>6, <1>7, <1>8, <1>9, <1>10, <1>11, <1>12, <1>13, Zenon DEF TmNext

\* Seconds and nanoseconds that agree in sign, the latter less than a second, are
\* the only ones of their value.
LEMMA OneForm ==
  ASSUME NEW u \in Nat, u > 0, NEW s \in Int, NEW n \in Int, NEW x \in Int, NEW y \in Int,
         -u < n, n < u, -u < y, y < u,
         s > 0 => n >= 0, s < 0 => n <= 0, x > 0 => y >= 0, x < 0 => y <= 0,
         s * u + n = x * u + y
  PROVE  s = x /\ n = y
<1>1. PICK d \in Int : d = s - x
  OBVIOUS
<1>2. d * u = y - n
  <2>1. (s - x) * u = s * u - x * u
    BY Distributes
  <2>2. PICK a \in Int, b \in Int : a = s * u /\ b = x * u
    OBVIOUS
  <2>3. a + n = b + y
    BY <2>2
  <2>4. a - b = y - n
    BY <2>3
  <2> QED
    BY <1>1, <2>1, <2>2, <2>4
<1>3. ASSUME d > 0
      PROVE  FALSE
  <2>1. d * u >= u /\ d * u \in Int
    BY <1>3, SignOfProduct
  <2>2. y - n >= u
    BY <1>2, <2>1
  <2>3. y > 0 /\ n < 0
    BY <2>2
  <2> QED
    BY <1>1, <1>3, <2>3
<1>4. ASSUME d < 0
      PROVE  FALSE
  <2>1. d * u <= -u /\ d * u \in Int
    BY <1>4, SignOfProduct
  <2>2. n - y >= u
    BY <1>2, <2>1
  <2>3. n > 0 /\ y < 0
    BY <2>2
  <2> QED
    BY <1>1, <1>4, <2>3
<1>5. d = 0
  BY <1>3, <1>4
<1> QED
  BY <1>1, <1>2, <1>5, SignOfProduct

\* Times and durations (os/posix/CtrlrFx/Time.h) made from any unit, added,
\* subtracted, scaled and read from the clock are in normal form and worth
\* exactly the nanoseconds they should be, and convert to milliseconds as the
\* whole value does: for any number of nanoseconds and of milliseconds in a
\* second that divide, and any values.  The normal form allows nanoseconds of
\* exactly one second, as normalize_timespec() does; without them == and the
\* order of times agree.
THEOREM TimesAgree == MCSpec => []TmAgrees
<1> DEFINE MCVars == <<part, vars, cqVars, stVars, kyVars, slVars, acVars,
                       tmVars, bfVars, bcVars, dsVars, bsVars, soVars, dvVars>>
<1>1. MCInit => TmInv
  BY TmStart, Zenon DEF MCInit
<1>2. TmInv /\ [MCNext]_MCVars => TmInv'
  <2>1. MCNext => [TmNext]_tmVars
    BY Zenon DEF MCNext
  <2>2. UNCHANGED MCVars => UNCHANGED tmVars
    OBVIOUS
  <2> QED
    BY <2>1, <2>2, TmKept, Zenon
<1>3. TmInv => TmAgrees
  <2> SUFFICES ASSUME TmInv PROVE TmAgrees
    OBVIOUS
  <2>1. TmIs(tmD, tmDTicks) /\ TmIs(tmT, tmTTicks)
    BY Zenon DEF TmInv
  <2>2. TmExact
    BY <2>1, TmIsInt, Zenon DEF TmExact
  <2>3. TmToMsec(tmD) = TmQuot(tmDTicks, TmNs \div TmMs)
    BY <2>1, ToMsec, Zenon
  <2>4. ASSUME NEW t \in {tmD, tmT}
        PROVE  /\ t.sec > 0 => t.nsec >= 0
               /\ t.sec < 0 => t.nsec <= 0
               /\ TmAbs(t.nsec) <= TmNs
    <3>1. TmOk(t.sec, t.nsec)
      BY <2>1, TmIsInt, Zenon
    <3>2. PICK s, n : s = t.sec /\ n = t.nsec
      OBVIOUS
    <3>3. TmOk(s, n)
      BY <3>1, <3>2, Zenon
    <3>4. (s > 0 => n >= 0) /\ (s < 0 => n <= 0) /\ TmAbs(n) <= TmNs
      BY <3>3, TmPositive DEF TmOk, TmAbs
    <3> QED
      BY <3>2, <3>4, Zenon
  <2>5. PICK now : TmIs(tmNow, now)
    BY Zenon DEF TmInv
  <2>6. TmUnique
    <3>1. PICK s, n, x, y : /\ s = tmT.sec /\ n = tmT.nsec
                            /\ x = tmNow.sec /\ y = tmNow.nsec
      OBVIOUS
    <3>2. TmOk(s, n) /\ TmOk(x, y)
      BY <2>1, <2>5, <3>1, TmIsInt, Zenon
    <3>3. TmTicks(tmT) = s * TmNs + n /\ TmTicks(tmNow) = x * TmNs + y
      BY <3>1 DEF TmTicks
    <3>4. ASSUME TmAbs(n) < TmNs, TmAbs(y) < TmNs, s * TmNs + n = x * TmNs + y
          PROVE  s = x /\ n = y
      <4>1. PICK u \in Nat : u = TmNs /\ u > 0
        BY TmPositive
      <4>2. /\ s \in Int /\ n \in Int /\ x \in Int /\ y \in Int
            /\ (s > 0 => n >= 0) /\ (s < 0 => n <= 0)
            /\ (x > 0 => y >= 0) /\ (x < 0 => y <= 0)
        BY <3>2, Zenon DEF TmOk
      <4>3. -u < n /\ n < u /\ -u < y /\ y < u
        BY <3>4, <4>1, <4>2 DEF TmAbs
      <4> QED
        BY <3>4, <4>1, <4>2, <4>3, OneForm
    <3>5. s = x /\ n = y => s * TmNs + n = x * TmNs + y
      OBVIOUS
    <3> QED
      BY <3>1, <3>3, <3>4, <3>5, Zenon DEF TmUnique, TmEqual
  <2> QED
    BY <2>2, <2>3, <2>4, <2>6, Zenon DEF TmAgrees, TmNormal
<1> QED
  BY <1>1, <1>2, <1>3, PTL DEF MCSpec
=============================================================================
