------------------------ MODULE ExtrinsicBuilderProofs ------------------------
(***************************************************************************)
(* The theorems about ExtrinsicBuilder: its inductive invariant, and that  *)
(* an extrinsic made of what the library fetched for its signer is refused *)
(* only when it was overtaken, for every set of signers, every period an   *)
(* era can have and every length of the chain.                             *)
(*                                                                         *)
(* First the arithmetic of an era: quotients and remainders, the powers of *)
(* two up to 2^16, and the block the runtime finds when it decodes what    *)
(* encodeMortal encoded.                                                   *)
(***************************************************************************)
EXTENDS ExtrinsicBuilder, TLAPS

-----------------------------------------------------------------------------
(* Division with remainder, and that its results are the only ones.        *)
LEMMA Division ==
    ASSUME NEW a \in Int, NEW q \in Nat \ {0}
    PROVE  /\ a = q * (a \div q) + (a % q)
           /\ a \div q \in Int /\ a % q \in 0..(q - 1)
           /\ a >= 0 => a \div q >= 0
  <1>1. a = q * (a \div q) + (a % q)  OBVIOUS
  <1>2. a \div q \in Int /\ a % q \in 0..(q - 1)  OBVIOUS
  <1>3. ASSUME a >= 0 PROVE a \div q >= 0
    <2>1. CASE a \div q < 0
      <3>1. q * (-(a \div q)) >= q  BY <1>2, <2>1
      <3> QED  BY <3>1, <1>1, <1>2, <1>3
    <2> QED  BY <2>1, <1>2
  <1> QED  BY <1>1, <1>2, <1>3

LEMMA DivisionUnique ==
    ASSUME NEW q \in Nat \ {0}, NEW b \in Int, NEW r \in 0..(q - 1)
    PROVE  (q * b + r) \div q = b /\ (q * b + r) % q = r
  <1> DEFINE a == q * b + r
             d == a \div q
             m == a % q
  <1>1. a \in Int  OBVIOUS
  <1>2. a = q * d + m /\ d \in Int /\ m \in 0..(q - 1)  BY <1>1, Division
  <1>3. q * b + r = q * d + m  BY <1>2
  <1>4. q * (b - d) = m - r  BY <1>2, <1>3
  <1>5. CASE b = d  BY <1>3, <1>5, <1>2
  <1>6. CASE b > d
    <2>1. q * (b - d) >= q  BY <1>6, <1>2
    <2> QED  BY <2>1, <1>4, <1>2
  <1>7. CASE b < d
    <2>1. q * (d - b) >= q  BY <1>7, <1>2
    <2>2. q * (d - b) = r - m  BY <1>4, <1>2
    <2> QED  BY <2>1, <2>2, <1>2
  <1> QED  BY <1>2, <1>5, <1>6, <1>7

(* The powers of two that a period of an era is rounded to.                *)
PowerOf(k, x) ==
    \/ k = 0 /\ x = 1
    \/ k = 1 /\ x = 2
    \/ k = 2 /\ x = 4
    \/ k = 3 /\ x = 8
    \/ k = 4 /\ x = 16
    \/ k = 5 /\ x = 32
    \/ k = 6 /\ x = 64
    \/ k = 7 /\ x = 128
    \/ k = 8 /\ x = 256
    \/ k = 9 /\ x = 512
    \/ k = 10 /\ x = 1024
    \/ k = 11 /\ x = 2048
    \/ k = 12 /\ x = 4096
    \/ k = 13 /\ x = 8192
    \/ k = 14 /\ x = 16384
    \/ k = 15 /\ x = 32768
    \/ k = 16 /\ x = 65536

LEMMA Powers ==
    ASSUME NEW k \in 0..16
    PROVE  PowerOf(k, 2^k)
  <1>0. CASE k = 0  BY <1>0, SMT DEF PowerOf
  <1>1. CASE k = 1  BY <1>1, SMT DEF PowerOf
  <1>2. CASE k = 2  BY <1>2, SMT DEF PowerOf
  <1>3. CASE k = 3  BY <1>3, SMT DEF PowerOf
  <1>4. CASE k = 4  BY <1>4, SMT DEF PowerOf
  <1>5. CASE k = 5  BY <1>5, SMT DEF PowerOf
  <1>6. CASE k = 6  BY <1>6, SMT DEF PowerOf
  <1>7. CASE k = 7  BY <1>7, SMT DEF PowerOf
  <1>8. CASE k = 8  BY <1>8, SMT DEF PowerOf
  <1>9. CASE k = 9  BY <1>9, SMT DEF PowerOf
  <1>10. CASE k = 10  BY <1>10, SMT DEF PowerOf
  <1>11. CASE k = 11  BY <1>11, SMT DEF PowerOf
  <1>12. CASE k = 12  BY <1>12, SMT DEF PowerOf
  <1>13. CASE k = 13  BY <1>13, SMT DEF PowerOf
  <1>14. CASE k = 14  BY <1>14, SMT DEF PowerOf
  <1>15. CASE k = 15  BY <1>15, SMT DEF PowerOf
  <1>16. CASE k = 16  BY <1>16, SMT DEF PowerOf
  <1>17. k \in Int /\ 0 <= k /\ k <= 16  BY SMT
  <1> QED
    BY <1>17, <1>0, <1>1, <1>2, <1>3, <1>4, <1>5, <1>6, <1>7, <1>8,
       <1>9, <1>10, <1>11, <1>12, <1>13, <1>14, <1>15, <1>16, SMT

LEMMA PowersGrow ==
    ASSUME NEW k \in 0..16, NEW j \in 0..(k - 1)
    PROVE  2 * 2^j <= 2^k
  <1>1. j \in 0..16  BY SMT
  <1>2. PowerOf(k, 2^k) /\ PowerOf(j, 2^j)  BY <1>1, Powers, Zenon
  <1>3. ASSUME NEW x, NEW y, PowerOf(k, x), PowerOf(j, y) PROVE 2 * y <= x
    BY <1>3, SMTT(60) DEF PowerOf
  <1> QED  BY <1>2, <1>3, Zenon

(* Era.getCalPeriod rounds up to a power of two, which exists.             *)
Fits(period, k) == 2^k >= period /\ \A j \in 0..(k - 1) : 2^j < period

LEMMA Log2Fits ==
    ASSUME NEW period \in Nat, NEW k \in 0..16, period <= 2^k, 2^k < 2 * period
    PROVE  Log2(period) \in 0..16
  <1>1. Fits(period, k)
    <2>1. 2^k \in Int  BY SMT
    <2>2. ASSUME NEW j \in 0..(k - 1) PROVE 2^j < period
      <3>1. j \in Nat  BY SMT
      <3>2. 2^j \in Int  BY <3>1, SMT
      <3>3. 2 * 2^j <= 2^k  BY PowersGrow, Zenon
      <3> QED  BY <2>1, <3>2, <3>3, SMT
    <2> QED  BY <2>1, <2>2 DEF Fits
  <1>2. k \in 0..31  BY SMT
  <1>3. \E i \in 0..31 : Fits(period, i)  BY <1>1, <1>2, Zenon
  <1>4. Log2(period) = CHOOSE i \in 0..31 : Fits(period, i)  BY Zenon DEF Log2, Fits
  <1>5. Log2(period) \in 0..31 /\ Fits(period, Log2(period))  BY <1>3, <1>4, Zenon
  <1>6. CASE Log2(period) > 16
    <2>1. k \in 0..(Log2(period) - 1)  BY <1>5, <1>6, SMT
    <2>2. 2^k < period  BY <1>5, <2>1, Zenon DEF Fits
    <2> QED  BY <2>2, SMT
  <1> QED  BY <1>5, <1>6, SMT

LEMMA Log2Type ==
    ASSUME NEW period \in EraPeriods
    PROVE  Log2(period) \in 0..16
  <1>0. CASE 1 <= period /\ period <= 1
    <2>1. 0 \in 0..16 /\ period \in Nat /\ period <= 2^0 /\ 2^0 < 2 * period  BY <1>0, SMT DEF EraPeriods
    <2> QED  BY <2>1, Log2Fits, Zenon
  <1>1. CASE 2 <= period /\ period <= 2
    <2>1. 1 \in 0..16 /\ period \in Nat /\ period <= 2^1 /\ 2^1 < 2 * period  BY <1>1, SMT DEF EraPeriods
    <2> QED  BY <2>1, Log2Fits, Zenon
  <1>2. CASE 3 <= period /\ period <= 4
    <2>1. 2 \in 0..16 /\ period \in Nat /\ period <= 2^2 /\ 2^2 < 2 * period  BY <1>2, SMT DEF EraPeriods
    <2> QED  BY <2>1, Log2Fits, Zenon
  <1>3. CASE 5 <= period /\ period <= 8
    <2>1. 3 \in 0..16 /\ period \in Nat /\ period <= 2^3 /\ 2^3 < 2 * period  BY <1>3, SMT DEF EraPeriods
    <2> QED  BY <2>1, Log2Fits, Zenon
  <1>4. CASE 9 <= period /\ period <= 16
    <2>1. 4 \in 0..16 /\ period \in Nat /\ period <= 2^4 /\ 2^4 < 2 * period  BY <1>4, SMT DEF EraPeriods
    <2> QED  BY <2>1, Log2Fits, Zenon
  <1>5. CASE 17 <= period /\ period <= 32
    <2>1. 5 \in 0..16 /\ period \in Nat /\ period <= 2^5 /\ 2^5 < 2 * period  BY <1>5, SMT DEF EraPeriods
    <2> QED  BY <2>1, Log2Fits, Zenon
  <1>6. CASE 33 <= period /\ period <= 64
    <2>1. 6 \in 0..16 /\ period \in Nat /\ period <= 2^6 /\ 2^6 < 2 * period  BY <1>6, SMT DEF EraPeriods
    <2> QED  BY <2>1, Log2Fits, Zenon
  <1>7. CASE 65 <= period /\ period <= 128
    <2>1. 7 \in 0..16 /\ period \in Nat /\ period <= 2^7 /\ 2^7 < 2 * period  BY <1>7, SMT DEF EraPeriods
    <2> QED  BY <2>1, Log2Fits, Zenon
  <1>8. CASE 129 <= period /\ period <= 256
    <2>1. 8 \in 0..16 /\ period \in Nat /\ period <= 2^8 /\ 2^8 < 2 * period  BY <1>8, SMT DEF EraPeriods
    <2> QED  BY <2>1, Log2Fits, Zenon
  <1>9. CASE 257 <= period /\ period <= 512
    <2>1. 9 \in 0..16 /\ period \in Nat /\ period <= 2^9 /\ 2^9 < 2 * period  BY <1>9, SMT DEF EraPeriods
    <2> QED  BY <2>1, Log2Fits, Zenon
  <1>10. CASE 513 <= period /\ period <= 1024
    <2>1. 10 \in 0..16 /\ period \in Nat /\ period <= 2^10 /\ 2^10 < 2 * period  BY <1>10, SMT DEF EraPeriods
    <2> QED  BY <2>1, Log2Fits, Zenon
  <1>11. CASE 1025 <= period /\ period <= 2048
    <2>1. 11 \in 0..16 /\ period \in Nat /\ period <= 2^11 /\ 2^11 < 2 * period  BY <1>11, SMT DEF EraPeriods
    <2> QED  BY <2>1, Log2Fits, Zenon
  <1>12. CASE 2049 <= period /\ period <= 4096
    <2>1. 12 \in 0..16 /\ period \in Nat /\ period <= 2^12 /\ 2^12 < 2 * period  BY <1>12, SMT DEF EraPeriods
    <2> QED  BY <2>1, Log2Fits, Zenon
  <1>13. CASE 4097 <= period /\ period <= 8192
    <2>1. 13 \in 0..16 /\ period \in Nat /\ period <= 2^13 /\ 2^13 < 2 * period  BY <1>13, SMT DEF EraPeriods
    <2> QED  BY <2>1, Log2Fits, Zenon
  <1>14. CASE 8193 <= period /\ period <= 16384
    <2>1. 14 \in 0..16 /\ period \in Nat /\ period <= 2^14 /\ 2^14 < 2 * period  BY <1>14, SMT DEF EraPeriods
    <2> QED  BY <2>1, Log2Fits, Zenon
  <1>15. CASE 16385 <= period /\ period <= 32768
    <2>1. 15 \in 0..16 /\ period \in Nat /\ period <= 2^15 /\ 2^15 < 2 * period  BY <1>15, SMT DEF EraPeriods
    <2> QED  BY <2>1, Log2Fits, Zenon
  <1>16. CASE 32769 <= period /\ period <= 65536
    <2>1. 16 \in 0..16 /\ period \in Nat /\ period <= 2^16 /\ 2^16 < 2 * period  BY <1>16, SMT DEF EraPeriods
    <2> QED  BY <2>1, Log2Fits, Zenon
  <1>17. period \in Int /\ 1 <= period /\ period <= 65536  BY SMT DEF EraPeriods
  <1>18. CASE period <= 256
    <2> QED  BY <1>17, <1>18, <1>0, <1>1, <1>2, <1>3, <1>4, <1>5, <1>6, <1>7, <1>8, SMT
  <1>19. CASE period > 256
    <2> QED  BY <1>17, <1>19, <1>9, <1>10, <1>11, <1>12, <1>13, <1>14, <1>15, <1>16, SMT
  <1> QED  BY <1>17, <1>18, <1>19, SMT

LEMMA Log2OfPower ==
    ASSUME NEW k \in 0..16
    PROVE  Log2(2^k) = k
  <1>1. 2^k \in Int /\ k \in 0..31  BY SMT
  <1>2. \A j \in 0..(k - 1) : 2^j < 2^k
    <2>1. ASSUME NEW j \in 0..(k - 1) PROVE 2^j < 2^k
      <3>1. 2 * 2^j <= 2^k  BY PowersGrow, Zenon
      <3>2. j \in 0..16  BY SMT
      <3>3. PowerOf(j, 2^j)  BY <3>2, Powers, Zenon
      <3>4. ASSUME NEW y, PowerOf(j, y) PROVE y \in Int /\ y > 0  BY <3>4, SMT DEF PowerOf
      <3>5. 2^j \in Int /\ 2^j > 0  BY <3>3, <3>4, Zenon
      <3> QED  BY <1>1, <3>1, <3>5, SMT
    <2> QED  BY <2>1
  <1>3. Fits(2^k, k)  BY <1>1, <1>2 DEF Fits
  <1>4. \E i \in 0..31 : Fits(2^k, i)  BY <1>1, <1>3, Zenon
  <1>5. Log2(2^k) = CHOOSE i \in 0..31 : Fits(2^k, i)  BY Zenon DEF Log2, Fits
  <1>6. Log2(2^k) \in 0..31 /\ Fits(2^k, Log2(2^k))  BY <1>4, <1>5, Zenon
  <1>7. CASE Log2(2^k) > k
    <2>1. k \in 0..(Log2(2^k) - 1)  BY <1>6, <1>7, SMT
    <2>2. 2^k < 2^k  BY <1>6, <2>1, Zenon DEF Fits
    <2> QED  BY <1>1, <2>2, SMT
  <1>8. CASE Log2(2^k) < k
    <2>1. Log2(2^k) \in 0..(k - 1)  BY <1>6, <1>8, SMT
    <2>2. 2^Log2(2^k) < 2^k  BY <1>2, <2>1, Zenon
    <2>3. 2^Log2(2^k) >= 2^k  BY <1>6, Zenon DEF Fits
    <2>4. 2^Log2(2^k) \in Int  BY <1>6, SMT
    <2> QED  BY <1>1, <2>2, <2>3, <2>4, SMT
  <1> QED  BY <1>6, <1>7, <1>8, SMT

(* What an era of a period is made of: the low four bits, the number of    *)
(* blocks it lives for, and the number of blocks its phase is rounded to.  *)
LowBits(period)  == Least(15, Greatest(1, Log2(getCalPeriod(period)) - 1))
Lifetime(period) == Greatest(4, getCalPeriod(period))
Factor(period)   == QuantizeFactor(getCalPeriod(period))

Parts(l, P, q) ==
    /\ l \in 1..15 /\ 2 * 2^l = P
    /\ P \in 4..65536 /\ q \in 1..16
    /\ \/ q = 1 /\ P <= 4096
       \/ P = 4096 * q
    /\ QuantizeFactor(P) = q

LEMMA EraParts ==
    ASSUME NEW period \in EraPeriods
    PROVE  /\ Parts(LowBits(period), Lifetime(period), Factor(period))
           /\ Least(Greatest(getCalPeriod(period), 4), 65536) = Lifetime(period)
  <1> DEFINE k == Log2(period)
  <1>1. k \in 0..16  BY Log2Type, Zenon
  <1>2. Log2(getCalPeriod(period)) = k  BY <1>1, Log2OfPower, Zenon DEF getCalPeriod
  <1>3. PowerOf(k, getCalPeriod(period))  BY <1>1, Powers, Zenon DEF getCalPeriod
  <1>4. ASSUME NEW i \in Int, NEW c, PowerOf(i, c)
        PROVE  /\ Parts(Least(15, Greatest(1, i - 1)), Greatest(4, c), QuantizeFactor(c))
               /\ Least(Greatest(c, 4), 65536) = Greatest(4, c)
    <2>0. CASE i = 0 /\ c = 1
      <3>1. Least(15, Greatest(1, i - 1)) = 1 /\ Greatest(4, c) = 4 /\ QuantizeFactor(c) = 1
        BY <2>0, SMT DEF Least, Greatest, QuantizeFactor
      <3>2. Parts(1, 4, 1)  BY SMT DEF Parts, QuantizeFactor, Greatest
      <3>3. Least(Greatest(c, 4), 65536) = 4  BY <2>0, SMT DEF Least, Greatest
      <3> QED  BY <3>1, <3>2, <3>3, SMT
    <2>1. CASE i = 1 /\ c = 2
      <3>1. Least(15, Greatest(1, i - 1)) = 1 /\ Greatest(4, c) = 4 /\ QuantizeFactor(c) = 1
        BY <2>1, SMT DEF Least, Greatest, QuantizeFactor
      <3>2. Parts(1, 4, 1)  BY SMT DEF Parts, QuantizeFactor, Greatest
      <3>3. Least(Greatest(c, 4), 65536) = 4  BY <2>1, SMT DEF Least, Greatest
      <3> QED  BY <3>1, <3>2, <3>3, SMT
    <2>2. CASE i = 2 /\ c = 4
      <3>1. Least(15, Greatest(1, i - 1)) = 1 /\ Greatest(4, c) = 4 /\ QuantizeFactor(c) = 1
        BY <2>2, SMT DEF Least, Greatest, QuantizeFactor
      <3>2. Parts(1, 4, 1)  BY SMT DEF Parts, QuantizeFactor, Greatest
      <3>3. Least(Greatest(c, 4), 65536) = 4  BY <2>2, SMT DEF Least, Greatest
      <3> QED  BY <3>1, <3>2, <3>3, SMT
    <2>3. CASE i = 3 /\ c = 8
      <3>1. Least(15, Greatest(1, i - 1)) = 2 /\ Greatest(4, c) = 8 /\ QuantizeFactor(c) = 1
        BY <2>3, SMT DEF Least, Greatest, QuantizeFactor
      <3>2. Parts(2, 8, 1)  BY SMT DEF Parts, QuantizeFactor, Greatest
      <3>3. Least(Greatest(c, 4), 65536) = 8  BY <2>3, SMT DEF Least, Greatest
      <3> QED  BY <3>1, <3>2, <3>3, SMT
    <2>4. CASE i = 4 /\ c = 16
      <3>1. Least(15, Greatest(1, i - 1)) = 3 /\ Greatest(4, c) = 16 /\ QuantizeFactor(c) = 1
        BY <2>4, SMT DEF Least, Greatest, QuantizeFactor
      <3>2. Parts(3, 16, 1)  BY SMT DEF Parts, QuantizeFactor, Greatest
      <3>3. Least(Greatest(c, 4), 65536) = 16  BY <2>4, SMT DEF Least, Greatest
      <3> QED  BY <3>1, <3>2, <3>3, SMT
    <2>5. CASE i = 5 /\ c = 32
      <3>1. Least(15, Greatest(1, i - 1)) = 4 /\ Greatest(4, c) = 32 /\ QuantizeFactor(c) = 1
        BY <2>5, SMT DEF Least, Greatest, QuantizeFactor
      <3>2. Parts(4, 32, 1)  BY SMT DEF Parts, QuantizeFactor, Greatest
      <3>3. Least(Greatest(c, 4), 65536) = 32  BY <2>5, SMT DEF Least, Greatest
      <3> QED  BY <3>1, <3>2, <3>3, SMT
    <2>6. CASE i = 6 /\ c = 64
      <3>1. Least(15, Greatest(1, i - 1)) = 5 /\ Greatest(4, c) = 64 /\ QuantizeFactor(c) = 1
        BY <2>6, SMT DEF Least, Greatest, QuantizeFactor
      <3>2. Parts(5, 64, 1)  BY SMT DEF Parts, QuantizeFactor, Greatest
      <3>3. Least(Greatest(c, 4), 65536) = 64  BY <2>6, SMT DEF Least, Greatest
      <3> QED  BY <3>1, <3>2, <3>3, SMT
    <2>7. CASE i = 7 /\ c = 128
      <3>1. Least(15, Greatest(1, i - 1)) = 6 /\ Greatest(4, c) = 128 /\ QuantizeFactor(c) = 1
        BY <2>7, SMT DEF Least, Greatest, QuantizeFactor
      <3>2. Parts(6, 128, 1)  BY SMT DEF Parts, QuantizeFactor, Greatest
      <3>3. Least(Greatest(c, 4), 65536) = 128  BY <2>7, SMT DEF Least, Greatest
      <3> QED  BY <3>1, <3>2, <3>3, SMT
    <2>8. CASE i = 8 /\ c = 256
      <3>1. Least(15, Greatest(1, i - 1)) = 7 /\ Greatest(4, c) = 256 /\ QuantizeFactor(c) = 1
        BY <2>8, SMT DEF Least, Greatest, QuantizeFactor
      <3>2. Parts(7, 256, 1)  BY SMT DEF Parts, QuantizeFactor, Greatest
      <3>3. Least(Greatest(c, 4), 65536) = 256  BY <2>8, SMT DEF Least, Greatest
      <3> QED  BY <3>1, <3>2, <3>3, SMT
    <2>9. CASE i = 9 /\ c = 512
      <3>1. Least(15, Greatest(1, i - 1)) = 8 /\ Greatest(4, c) = 512 /\ QuantizeFactor(c) = 1
        BY <2>9, SMT DEF Least, Greatest, QuantizeFactor
      <3>2. Parts(8, 512, 1)  BY SMT DEF Parts, QuantizeFactor, Greatest
      <3>3. Least(Greatest(c, 4), 65536) = 512  BY <2>9, SMT DEF Least, Greatest
      <3> QED  BY <3>1, <3>2, <3>3, SMT
    <2>10. CASE i = 10 /\ c = 1024
      <3>1. Least(15, Greatest(1, i - 1)) = 9 /\ Greatest(4, c) = 1024 /\ QuantizeFactor(c) = 1
        BY <2>10, SMT DEF Least, Greatest, QuantizeFactor
      <3>2. Parts(9, 1024, 1)  BY SMT DEF Parts, QuantizeFactor, Greatest
      <3>3. Least(Greatest(c, 4), 65536) = 1024  BY <2>10, SMT DEF Least, Greatest
      <3> QED  BY <3>1, <3>2, <3>3, SMT
    <2>11. CASE i = 11 /\ c = 2048
      <3>1. Least(15, Greatest(1, i - 1)) = 10 /\ Greatest(4, c) = 2048 /\ QuantizeFactor(c) = 1
        BY <2>11, SMT DEF Least, Greatest, QuantizeFactor
      <3>2. Parts(10, 2048, 1)  BY SMT DEF Parts, QuantizeFactor, Greatest
      <3>3. Least(Greatest(c, 4), 65536) = 2048  BY <2>11, SMT DEF Least, Greatest
      <3> QED  BY <3>1, <3>2, <3>3, SMT
    <2>12. CASE i = 12 /\ c = 4096
      <3>1. Least(15, Greatest(1, i - 1)) = 11 /\ Greatest(4, c) = 4096 /\ QuantizeFactor(c) = 1
        BY <2>12, SMT DEF Least, Greatest, QuantizeFactor
      <3>2. Parts(11, 4096, 1)  BY SMT DEF Parts, QuantizeFactor, Greatest
      <3>3. Least(Greatest(c, 4), 65536) = 4096  BY <2>12, SMT DEF Least, Greatest
      <3> QED  BY <3>1, <3>2, <3>3, SMT
    <2>13. CASE i = 13 /\ c = 8192
      <3>1. Least(15, Greatest(1, i - 1)) = 12 /\ Greatest(4, c) = 8192 /\ QuantizeFactor(c) = 2
        BY <2>13, SMT DEF Least, Greatest, QuantizeFactor
      <3>2. Parts(12, 8192, 2)  BY SMT DEF Parts, QuantizeFactor, Greatest
      <3>3. Least(Greatest(c, 4), 65536) = 8192  BY <2>13, SMT DEF Least, Greatest
      <3> QED  BY <3>1, <3>2, <3>3, SMT
    <2>14. CASE i = 14 /\ c = 16384
      <3>1. Least(15, Greatest(1, i - 1)) = 13 /\ Greatest(4, c) = 16384 /\ QuantizeFactor(c) = 4
        BY <2>14, SMT DEF Least, Greatest, QuantizeFactor
      <3>2. Parts(13, 16384, 4)  BY SMT DEF Parts, QuantizeFactor, Greatest
      <3>3. Least(Greatest(c, 4), 65536) = 16384  BY <2>14, SMT DEF Least, Greatest
      <3> QED  BY <3>1, <3>2, <3>3, SMT
    <2>15. CASE i = 15 /\ c = 32768
      <3>1. Least(15, Greatest(1, i - 1)) = 14 /\ Greatest(4, c) = 32768 /\ QuantizeFactor(c) = 8
        BY <2>15, SMT DEF Least, Greatest, QuantizeFactor
      <3>2. Parts(14, 32768, 8)  BY SMT DEF Parts, QuantizeFactor, Greatest
      <3>3. Least(Greatest(c, 4), 65536) = 32768  BY <2>15, SMT DEF Least, Greatest
      <3> QED  BY <3>1, <3>2, <3>3, SMT
    <2>16. CASE i = 16 /\ c = 65536
      <3>1. Least(15, Greatest(1, i - 1)) = 15 /\ Greatest(4, c) = 65536 /\ QuantizeFactor(c) = 16
        BY <2>16, SMT DEF Least, Greatest, QuantizeFactor
      <3>2. Parts(15, 65536, 16)  BY SMT DEF Parts, QuantizeFactor, Greatest
      <3>3. Least(Greatest(c, 4), 65536) = 65536  BY <2>16, SMT DEF Least, Greatest
      <3> QED  BY <3>1, <3>2, <3>3, SMT
    <2> QED
      BY <1>4, <2>0, <2>1, <2>2, <2>3, <2>4, <2>5, <2>6, <2>7, <2>8,
         <2>9, <2>10, <2>11, <2>12, <2>13, <2>14, <2>15, <2>16, SMT DEF PowerOf
  <1> QED  BY <1>1, <1>2, <1>3, <1>4 DEF LowBits, Lifetime, Factor

(* The phase of a block, rounded and taken apart again: it has twelve bits *)
(* in an era, which has two bytes.                                         *)
PhaseBits == 0..4095
Mortals   == 1..65535
Phases    == 4096

LEMMA Rounding ==
    ASSUME NEW P \in Nat \ {0}, NEW q \in Nat \ {0}, P <= Phases * q, NEW phase \in 0..(P - 1)
    PROVE  phase \div q \in PhaseBits
  <1>1. ASSUME NEW d \in Int, NEW r \in 0..(q - 1), d >= 0, phase = q * d + r
        PROVE  d \in PhaseBits
    <2>1. CASE d >= Phases
      <3>1. q * d >= q * Phases  BY <2>1, SMT DEF Phases
      <3> QED  BY <1>1, <3>1, SMT DEF Phases
    <2> QED  BY <1>1, <2>1, SMT DEF PhaseBits, Phases
  <1>2. phase \in Int /\ phase >= 0  BY SMT
  <1>3. /\ phase = q * (phase \div q) + (phase % q)
        /\ phase \div q \in Int /\ phase % q \in 0..(q - 1) /\ phase \div q >= 0
    BY <1>2, Division
  <1> QED  BY <1>1, <1>3, Zenon

(* Doubles keep a phase, or fall short of it by less than one.             *)
LEMMA QuantizedPhase ==
    ASSUME NEW P \in Nat \ {0}, NEW phase \in 0..(P - 1), NEW factor
    PROVE  /\ Quantized(phase, factor) \in 0..(P - 1)
           /\ Quantized(phase, factor) <= phase
           /\ Quantized(phase, factor) = phase <=> ~FallsShort(phase, factor)
  <1>1. FallsShort(phase, factor) => phase > 0  BY Zenon DEF FallsShort
  <1>2. CASE FallsShort(phase, factor)
    <2>1. Quantized(phase, factor) = phase - 1  BY <1>2, Zenon DEF Quantized
    <2> QED  BY <1>1, <1>2, <2>1, SMT
  <1>3. CASE ~FallsShort(phase, factor)
    <2>1. Quantized(phase, factor) = phase  BY <1>3, Zenon DEF Quantized
    <2> QED  BY <1>3, <2>1, SMT
  <1> QED  BY <1>2, <1>3

(* The era keeps a phase exactly when doubles do, and it is a multiple of  *)
(* what the era counts in; the number of the block is one, then, too.      *)
KeptWhole(P, q, number, e) ==
    /\ (e \div q) * q \in 0..(P - 1)
    /\ (e \div q) * q = number % P <=> number % q = 0 /\ e = number % P

LEMMA KeepsPhase ==
    ASSUME NEW P \in Nat \ {0}, NEW q \in Nat \ {0}, q = 1 \/ P = Phases * q,
           NEW number \in Nat, NEW e \in 0..(P - 1), e <= number % P
    PROVE  KeptWhole(P, q, number, e)
  <1>1. PICK a \in Int, phase \in 0..(P - 1) : number = P * a + phase /\ phase = number % P
    <2>1. number \in Int  BY SMT
    <2>2. /\ number = P * (number \div P) + (number % P)
          /\ number \div P \in Int /\ number % P \in 0..(P - 1)
      BY <2>1, Division
    <2> QED  BY <2>2, Zenon
  <1>2. PICK c \in Int, r \in 0..(q - 1) : e = q * c + r /\ c = e \div q /\ c >= 0
    <2>1. e \in Int /\ e >= 0  BY SMT
    <2>2. /\ e = q * (e \div q) + (e % q)
          /\ e \div q \in Int /\ e % q \in 0..(q - 1) /\ e \div q >= 0
      BY <2>1, Division
    <2> QED  BY <2>2, Zenon
  <1>3. c * q = q * c /\ q * c \in Int /\ q * c >= 0  BY <1>2, SMT
  <1>4. PICK m \in Int : P = q * m
    <2>1. CASE q = 1
      <3>1. P = q * P /\ P \in Int  BY <2>1, SMT
      <3> QED  BY <3>1
    <2>2. CASE P = Phases * q
      <3>1. P = q * Phases /\ Phases \in Int  BY <2>2, SMT DEF Phases
      <3> QED  BY <3>1
    <2> QED  BY <2>1, <2>2
  <1>5. P * a = q * (m * a) /\ m * a \in Int
    <2>1. (q * m) * a = q * (m * a) /\ m * a \in Int  BY SMT
    <2> QED  BY <1>4, <2>1, Zenon
  <1>6. ASSUME c * q = phase PROVE number % q = 0 /\ e = phase
    <2>1. e = phase  BY <1>1, <1>2, <1>3, <1>6, SMT
    <2>2. number = q * (m * a) + q * c  BY <1>1, <1>3, <1>5, <1>6, SMT
    <2>3. q * (m * a) + q * c = q * (m * a + c) + 0 /\ m * a + c \in Int  BY <1>5, SMT
    <2>4. 0 \in 0..(q - 1)  BY SMT
    <2>5. PICK b \in Int : b = m * a + c  BY <2>3
    <2>6. number = q * b + 0  BY <2>2, <2>3, <2>5, Zenon
    <2>7. number % q = 0  BY <2>4, <2>6, DivisionUnique
    <2> QED  BY <2>1, <2>7
  <1>7. ASSUME number % q = 0, e = phase PROVE c * q = phase
    <2>1. PICK b \in Int : number = q * b
      <3>1. number \in Int  BY SMT
      <3>2. number = q * (number \div q) + (number % q) /\ number \div q \in Int
        BY <3>1, Division
      <3>3. number = q * (number \div q)  BY <3>2, <1>7, SMT
      <3> QED  BY <3>2, <3>3, Zenon
    <2>2. PICK n \in Int : n = m * a  BY <1>5
    <2>3. phase = q * b - q * n
      <3>1. q * b \in Int /\ q * n \in Int  BY SMT
      <3>2. number = q * n + phase  BY <1>1, <1>5, <2>2, Zenon
      <3> QED  BY <2>1, <3>1, <3>2, SMT
    <2>4. q * b - q * n = q * (b - n) + 0 /\ b - n \in Int /\ 0 \in 0..(q - 1)  BY SMT
    <2>5. PICK d \in Int : d = b - n  BY <2>4
    <2>6. e = q * d + 0  BY <1>7, <2>3, <2>4, <2>5, Zenon
    <2>7. e \div q = d  BY <2>4, <2>6, DivisionUnique
    <2>8. c = d  BY <1>2, <2>7
    <2>9. c * q = q * d + 0  BY <2>8, SMT
    <2> QED  BY <1>7, <2>6, <2>9, Zenon
  <1>8. c * q \in 0..(P - 1)  BY <1>2, <1>3, SMT
  <1> QED  BY <1>1, <1>2, <1>6, <1>7, <1>8, Zenon DEF KeptWhole

(* Of the blocks of a phase, the last up to the current one.               *)
LastOf(P, phase, current) == ((Greatest(current, phase) - phase) \div P) * P + phase

LEMMA LastOfPhase ==
    ASSUME NEW P \in Nat \ {0}, NEW number \in Nat, NEW current \in Nat,
           number <= current, current < number + P, NEW phase \in 0..(P - 1)
    PROVE  LastOf(P, phase, current) = number <=> phase = number % P
  <1>1. number \in Int /\ number >= 0  BY SMT
  <1>2. PICK a \in Int, rest \in 0..(P - 1) : number = P * a + rest /\ rest = number % P /\ a >= 0
    <2>1. /\ number = P * (number \div P) + (number % P)
          /\ number \div P \in Int /\ number % P \in 0..(P - 1) /\ number \div P >= 0
      BY <1>1, Division
    <2> QED  BY <2>1, Zenon
  <1>3. ASSUME phase = rest PROVE LastOf(P, phase, current) = number
    <2>1. P * a >= 0  BY <1>2, SMT
    <2>2. Greatest(current, phase) = current  BY <1>2, <1>3, <2>1, SMT DEF Greatest
    <2>3. current - number \in 0..(P - 1)  BY SMT
    <2>4. current - phase = P * a + (current - number)
      <3>1. number = P * a + phase  BY <1>2, <1>3, Zenon
      <3>2. P * a \in Int  BY SMT
      <3> QED  BY <3>1, <3>2, SMT
    <2>5. (current - phase) \div P = a  BY <2>3, <2>4, DivisionUnique
    <2>6. a * P = P * a  BY SMT
    <2> QED  BY <1>2, <1>3, <2>2, <2>5, <2>6, Zenon DEF LastOf
  <1>4. ASSUME LastOf(P, phase, current) = number PROVE phase = rest
    <2>1. Greatest(current, phase) - phase \in Int  BY SMT DEF Greatest
    <2>2. (Greatest(current, phase) - phase) \div P \in Int  BY <2>1, Division
    <2>3. PICK b \in Int : number = b * P + phase  BY <1>4, <2>2, Zenon DEF LastOf
    <2>4. b * P = P * b  BY SMT
    <2>5. number = P * b + phase  BY <2>3, <2>4, Zenon
    <2>6. number % P = phase  BY <2>5, DivisionUnique
    <2> QED  BY <1>2, <2>6
  <1> QED  BY <1>2, <1>3, <1>4, Zenon

(* What encodeMortal returns fits in two bytes, and comes apart again.     *)
EncodedPhase(number, period) ==
    Quantized(number % Lifetime(period), QuantizeFactor(period))

LEMMA Encoded ==
    ASSUME NEW period \in EraPeriods, NEW number
    PROVE  encodeMortal(number, period) =
               LowBits(period) + 16 * (EncodedPhase(number, period) \div Factor(period))
  <1>1. encodeMortal(number, period) =
            LowBits(period)
                + 16 * (Quantized(number % Least(Greatest(getCalPeriod(period), 4), 65536),
                                  QuantizeFactor(period))
                            \div Factor(period))
    BY SMT DEF encodeMortal, encodeToBytes, LowBits, Factor
  <1>2. Least(Greatest(getCalPeriod(period), 4), 65536) = Lifetime(period)
    BY EraParts, SMT
  <1> QED  BY <1>1, <1>2, SMT DEF EncodedPhase

LEMMA Unpacked ==
    ASSUME NEW l \in 1..15, NEW d \in PhaseBits
    PROVE  /\ l + 16 * d \in Mortals
           /\ (l + 16 * d) % 16 = l /\ (l + 16 * d) \div 16 = d
  <1>1. l + 16 * d \in Mortals  BY SMT DEF PhaseBits, Mortals
  <1>2. d \in Int /\ l \in 0..(16 - 1) /\ 16 \in Nat \ {0}  BY SMT DEF PhaseBits
  <1>3. (16 * d + l) % 16 = l /\ (16 * d + l) \div 16 = d  BY <1>2, DivisionUnique, Zenon
  <1>4. 16 * d + l = l + 16 * d  BY <1>2, SMT
  <1> QED  BY <1>1, <1>3, <1>4, Zenon

LEMMA EraPartsTypes ==
    ASSUME NEW period \in EraPeriods
    PROVE  /\ LowBits(period) \in 1..15
           /\ Lifetime(period) \in Nat \ {0} /\ Factor(period) \in Nat \ {0}
           /\ Lifetime(period) <= Phases * Factor(period)
           /\ Factor(period) = 1 \/ Lifetime(period) = Phases * Factor(period)
           /\ 2 * 2^LowBits(period) = Lifetime(period)
           /\ QuantizeFactor(Lifetime(period)) = Factor(period)
  <1>1. Parts(LowBits(period), Lifetime(period), Factor(period))  BY EraParts, SMT
  <1>2. ASSUME NEW l, NEW P, NEW q, Parts(l, P, q)
        PROVE  /\ l \in 1..15
               /\ P \in Nat \ {0} /\ q \in Nat \ {0} /\ P <= Phases * q
               /\ q = 1 \/ P = Phases * q
               /\ 2 * 2^l = P /\ QuantizeFactor(P) = q
    BY <1>2, SMT DEF Parts, Phases
  <1> QED  BY <1>1, <1>2

LEMMA EncodedPhaseType ==
    ASSUME NEW period \in EraPeriods, NEW number \in Nat
    PROVE  /\ EncodedPhase(number, period) \in 0..(Lifetime(period) - 1)
           /\ EncodedPhase(number, period) <= number % Lifetime(period)
           /\ EncodedPhase(number, period) = number % Lifetime(period)
                  <=> ~FallsShort(number % Lifetime(period), QuantizeFactor(period))
  <1>1. Lifetime(period) \in Nat \ {0} /\ number \in Int  BY EraPartsTypes, SMT
  <1>2. number % Lifetime(period) \in 0..(Lifetime(period) - 1)  BY <1>1, Division
  <1> QED  BY <1>1, <1>2, QuantizedPhase, Zenon DEF EncodedPhase

LEMMA EncodedEra ==
    ASSUME NEW period \in EraPeriods, NEW number \in Nat
    PROVE  /\ encodeMortal(number, period) \in Mortals
           /\ encodeMortal(number, period) % 16 = LowBits(period)
           /\ encodeMortal(number, period) \div 16 = EncodedPhase(number, period) \div Factor(period)
  <1>1. EncodedPhase(number, period) \div Factor(period) \in PhaseBits
    BY EncodedPhaseType, EraPartsTypes, Rounding, Zenon
  <1>2. LowBits(period) \in 1..15  BY EraPartsTypes, Zenon
  <1>3. encodeMortal(number, period) =
            LowBits(period) + 16 * (EncodedPhase(number, period) \div Factor(period))
    BY Encoded, Zenon
  <1>4. ASSUME NEW l \in 1..15, NEW d \in PhaseBits, NEW era, era = l + 16 * d
        PROVE  era \in Mortals /\ era % 16 = l /\ era \div 16 = d
    BY <1>4, Unpacked
  <1> QED  BY <1>1, <1>2, <1>3, <1>4, Zenon

(* For as many blocks as an era lives, the runtime decodes the era that    *)
(* encodeMortal encoded to the block it was made for, and this exactly     *)
(* when that block's number is a multiple of the blocks that the era       *)
(* counts in, and its phase no one that doubles fall short of.             *)
THEOREM BirthOfEra ==
    ASSUME NEW period \in EraPeriods, NEW number \in Nat, NEW current \in Nat,
           number <= current, current < number + Lifetime(period)
    PROVE  Birth(encodeMortal(number, period), current) = number
               <=> /\ number % Factor(period) = 0
                   /\ ~FallsShort(number % Lifetime(period), QuantizeFactor(period))
  <1>1. ASSUME NEW era, era \in Mortals, NEW P, NEW q, NEW l, NEW d,
               era % 16 = l, era \div 16 = d, 2 * 2^l = P, QuantizeFactor(P) = q
        PROVE  Birth(era, current) = LastOf(P, d * q, current)
    <2>1. era # 0  BY <1>1, SMT DEF Mortals
    <2>2. DecodedPeriod(era) = P  BY <1>1 DEF DecodedPeriod
    <2>3. DecodedPhase(era) = d * q  BY <1>1, <2>2 DEF DecodedPhase
    <2> QED  BY <2>1, <2>2, <2>3 DEF Birth, Immortal, LastOf
  <1>2. /\ Lifetime(period) \in Nat \ {0} /\ Factor(period) \in Nat \ {0}
        /\ Factor(period) = 1 \/ Lifetime(period) = Phases * Factor(period)
        /\ 2 * 2^LowBits(period) = Lifetime(period)
        /\ QuantizeFactor(Lifetime(period)) = Factor(period)
    BY EraPartsTypes, Zenon
  <1> DEFINE phase == number % Lifetime(period)
             bits == EncodedPhase(number, period) \div Factor(period)
             kept == bits * Factor(period)
  <1>3. Birth(encodeMortal(number, period), current) = LastOf(Lifetime(period), kept, current)
    <2>1. /\ encodeMortal(number, period) \in Mortals
          /\ encodeMortal(number, period) % 16 = LowBits(period)
          /\ encodeMortal(number, period) \div 16 = bits
      BY EncodedEra, Zenon
    <2> HIDE DEF bits
    <2> QED  BY <1>1, <1>2, <2>1, Zenon
  <1>4. /\ kept \in 0..(Lifetime(period) - 1)
        /\ kept = phase <=> number % Factor(period) = 0 /\ EncodedPhase(number, period) = phase
    <2>1. /\ EncodedPhase(number, period) \in 0..(Lifetime(period) - 1)
          /\ EncodedPhase(number, period) <= number % Lifetime(period)
      BY EncodedPhaseType, Zenon
    <2>2. KeptWhole(Lifetime(period), Factor(period), number, EncodedPhase(number, period))
      BY <1>2, <2>1, KeepsPhase, Zenon
    <2> QED  BY <2>2, Zenon DEF KeptWhole
  <1>5. LastOf(Lifetime(period), kept, current) = number <=> kept = phase
    <2> HIDE DEF kept
    <2> QED  BY <1>2, <1>4, LastOfPhase, Zenon
  <1>6. EncodedPhase(number, period) = phase <=> ~FallsShort(phase, QuantizeFactor(period))
    BY EncodedPhaseType, Zenon
  <1> QED  BY <1>3, <1>4, <1>5, <1>6, Zenon

-----------------------------------------------------------------------------
(* The types of what the setters store.                                    *)
LEMMA PeriodsFit ==
    ASSUME NEW period \in Periods
    PROVE  period \in EraPeriods /\ period # 0
  <1>1. period \in EraPeriods  BY PeriodAssumption
  <1>2. period # 0  BY <1>1, SMT DEF EraPeriods
  <1> QED  BY <1>1, <1>2

LEMMA MortalsFit ==
    ASSUME NEW era \in Mortals
    PROVE  era \in Eras
  BY SMT DEF Mortals, Eras

LEMMA EraOfType ==
    ASSUME NEW f, f.period \in Periods \cup {0}, f.number \in Nat
    PROVE  EraOf(f) \in Eras
  <1>1. CASE f.period = 0  BY <1>1, SMT DEF EraOf, Immortal, Eras
  <1>2. CASE f.period \in Periods
    <2>1. f.period \in EraPeriods  BY <1>2, PeriodsFit, Zenon
    <2>2. encodeMortal(f.number, f.period) \in Mortals  BY <2>1, EncodedEra, Zenon
    <2>3. f.period # 0  BY <1>2, PeriodsFit, Zenon
    <2>4. encodeMortal(f.number, f.period) \in Eras  BY <2>2, MortalsFit, Zenon
    <2> QED  BY <2>3, <2>4, Zenon DEF EraOf
  <1> QED  BY <1>1, <1>2, Zenon

LEMMA StoredType ==
    ASSUME NEW f \in Fields
    PROVE  applyStoredValues(f) \in Maps
  <1>1. f.period \in Periods \cup {0} /\ f.number \in Nat /\ f.spec \in Nat /\ f.nonce \in Nat
        /\ f.hash \in Blocks /\ 0 \in Blocks
    BY BoundsAssumption, SMT DEF Fields, Blocks
  <1>2. EraOf(f) \in Eras  BY <1>1, EraOfType
  <1>3. EraHash(f) \in Blocks  BY <1>1 DEF EraHash
  <1> QED  BY <1>1, <1>2, <1>3 DEF applyStoredValues, Maps

-----------------------------------------------------------------------------
(* The chain goes on: a block, an upgrade, an extrinsic of another wallet, *)
(* the inclusion of one from the pool.                                     *)
LEMMA ChainStep ==
    ASSUME Inv,
           block' \in block..LastBlock, spec' \in spec..MaxSpec,
           nonce' \in [Signers -> 0..MaxNonce], \A s \in Signers : nonce[s] <= nonce'[s],
           pool' \subseteq pool,
           UNCHANGED <<built, awaiting, refused, setters, signs>>
    PROVE  Inv'
  <1> USE DEF built
  <1>1. TypeOK /\ SignsItsFields /\ FetchInv /\ BuilderInv /\ PoolInv /\ RefusedOnlyIfOvertaken
    BY DEF Inv
  <1>2. block \in FirstBlock..LastBlock /\ spec \in 1..MaxSpec /\ FirstBlock \in Nat
        /\ LastBlock \in Nat /\ MaxSpec \in Nat /\ MaxNonce \in Nat
        /\ nonce \in [Signers -> 0..MaxNonce]
    BY <1>1, BoundsAssumption, SMT DEF TypeOK
  <1>3. TypeOK'
    <2>1. block' \in FirstBlock..LastBlock /\ spec' \in 1..MaxSpec  BY <1>2, SMT
    <2> QED  BY <1>1, <2>1 DEF TypeOK
  <1>4. \A since \in Marks : Past(since) => Past(since)'
    BY <1>2, SMT DEF Past, Marks
  <1>5. SignsItsFields'  BY <1>1 DEF SignsItsFields
  <1>6. FetchInv'
    <2> SUFFICES ASSUME fetch # Nothing PROVE FetchInv'  BY DEF FetchInv
    <2>1. fetch \in Fetches  BY <1>1 DEF TypeOK, Read
    <2>2. fetch.since \in Marks /\ fetch.number \in Read(Blocks) /\ fetch.spec \in Read(1..MaxSpec)
          /\ fetch.since.spec \in 1..MaxSpec
      BY <2>1 DEF Fetches, Marks
    <2>3. Past(fetch.since)'  BY <1>1, <1>4, <2>2 DEF FetchInv
    <2>4. fetch.number # Nothing => fetch.number <= block'
      BY <1>1, <1>2, <2>2, SMT DEF FetchInv, Read, Blocks
    <2>5. fetch.spec # Nothing => fetch.spec \in fetch.since.spec..spec'
      BY <1>1, <1>2, <2>2, SMT DEF FetchInv, Read
    <2> QED  BY <1>1, <2>3, <2>4, <2>5 DEF FetchInv
  <1>7. BuilderInv'
    <2> SUFFICES ASSUME builder # Nothing PROVE BuilderInv'  BY <1>1 DEF BuilderInv
    <2>1. builder \in Builders /\ fields \in Fields  BY <1>1 DEF TypeOK, Read
    <2>2. builder.since \in Marks /\ builder.number \in Blocks /\ fields.spec \in Nat
          /\ builder.since.spec \in 1..MaxSpec
      BY <2>1 DEF Builders, Marks, Fields
    <2>3. Past(builder.since)'  BY <1>1, <1>4, <2>2 DEF BuilderInv
    <2>4. builder.number <= block'  BY <1>1, <1>2, <2>2, SMT DEF BuilderInv, Blocks
    <2>5. ~builder.overridden => fields.spec \in builder.since.spec..spec'
      BY <1>1, <1>2, <2>2, SMT DEF BuilderInv
    <2> QED  BY <1>1, <2>3, <2>4, <2>5 DEF BuilderInv
  <1>8. PoolInv'
    <2> SUFFICES ASSUME NEW x \in pool PROVE MadeOfPast(x)'  BY DEF PoolInv
    <2>1. x \in Extrinsics  BY <1>1 DEF TypeOK
    <2>2. x.since \in Marks /\ x.number \in Blocks /\ x.spec \in Nat /\ x.since.spec \in 1..MaxSpec
      BY <2>1 DEF Extrinsics, Marks
    <2>3. MadeOfPast(x)  BY <1>1 DEF PoolInv
    <2>4. Past(x.since)'  BY <1>4, <2>2, <2>3 DEF MadeOfPast
    <2>5. x.number <= block'  BY <1>2, <2>2, <2>3, SMT DEF MadeOfPast, Blocks
    <2>6. ~x.overridden => x.spec \in x.since.spec..spec'
      BY <1>2, <2>2, <2>3, SMT DEF MadeOfPast
    <2> QED  BY <2>3, <2>4, <2>5, <2>6 DEF MadeOfPast
  <1>9. RefusedOnlyIfOvertaken'  BY <1>1 DEF RefusedOnlyIfOvertaken
  <1> QED  BY <1>3, <1>5, <1>6, <1>7, <1>8, <1>9 DEF Inv

(* With the chain as it was, what is past stays past.                      *)
LEMMA SameChain ==
    ASSUME UNCHANGED chain
    PROVE  \A since : Past(since)' <=> Past(since)
  BY DEF chain, Past

(* What the runtime refuses was overtaken: every other check holds by what *)
(* the pool's extrinsics are made of, CheckMortality by BirthOfEra.        *)
LEMMA RefuseStep ==
    ASSUME Inv, NEW x \in pool, Refuse(x)
    PROVE  Inv'
  <1> USE DEF built, chain
  <1>1. TypeOK /\ SignsItsFields /\ FetchInv /\ BuilderInv /\ PoolInv
    BY DEF Inv
  <1>2. /\ x.spec # spec \/ ~BirthHolds(x) \/ x.nonce < nonce[x.signer]
        /\ pool' = pool \ {x}
        /\ refused' = [extrinsic |-> x, block |-> block + 1, spec |-> spec, nonce |-> nonce]
        /\ UNCHANGED <<chain, built, awaiting, setters, signs>>
    BY DEF Refuse
  <1>3. TypeOK' /\ SignsItsFields' /\ FetchInv' /\ BuilderInv'
    BY <1>1, <1>2, SameChain DEF TypeOK, SignsItsFields, FetchInv, BuilderInv
  <1>4. PoolInv'
    BY <1>1, <1>2, SameChain DEF PoolInv, MadeOfPast
  <1>5. RefusedOnlyIfOvertaken'
    <2>1. /\ refused'.extrinsic = x /\ refused'.block = block + 1 /\ refused'.spec = spec
          /\ refused'.nonce = nonce
      BY <1>2
    <2> SUFFICES ASSUME ~x.overridden, x.nonceOf = x.signer, x.period # 0 => Exact(x)
                 PROVE  \/ spec > x.since.spec
                        \/ nonce[x.signer] > x.since.nonce[x.signer]
                        \/ /\ x.period # 0
                           /\ block + 1 >= x.number + Greatest(4, getCalPeriod(x.period))
      BY <2>1 DEF RefusedOnlyIfOvertaken
    <2>2. x \in Extrinsics /\ MadeOfPast(x)  BY <1>1 DEF TypeOK, PoolInv
    <2>3. /\ x.since \in Marks /\ x.number \in Blocks /\ x.spec \in Nat /\ x.nonce \in Nat
          /\ x.signer \in Signers /\ x.period \in Periods \cup {0}
      BY <2>2 DEF Extrinsics
    <2>4. x.since.spec \in Nat /\ x.since.nonce[x.signer] \in Nat
      BY <2>3, BoundsAssumption, SMT DEF Marks
    <2>5. spec \in Nat /\ block \in Nat /\ nonce[x.signer] \in Nat /\ x.number \in Nat
      BY <1>1, <2>3, BoundsAssumption, SMT DEF TypeOK, Blocks
    <2>6. /\ x.number <= block /\ x.era = EraOf(x)
          /\ x.hash = IF x.period = 0 THEN 0 ELSE x.number
          /\ x.spec \in x.since.spec..spec
          /\ x.since.nonce[x.signer] <= x.nonce
      BY <2>2 DEF MadeOfPast
    <2>7. CASE x.spec # spec  BY <2>4, <2>5, <2>6, <2>7, SMT
    <2>8. CASE x.nonce < nonce[x.signer]  BY <2>3, <2>4, <2>5, <2>6, <2>8, SMT
    <2>9. CASE ~BirthHolds(x)
      <3>1. Birth(x.era, block + 1) # x.hash  BY <2>9 DEF BirthHolds
      <3>2. x.period # 0
        <4>1. CASE x.period = 0
          <5>1. x.era = Immortal /\ x.hash = 0  BY <2>6, <4>1 DEF EraOf
          <5> QED  BY <3>1, <5>1, Zenon DEF Birth
        <4> QED  BY <4>1
      <3>3. x.era = encodeMortal(x.number, x.period) /\ x.hash = x.number
        BY <2>6, <3>2 DEF EraOf
      <3>4. x.period \in EraPeriods
        <4>1. x.period \in Periods  BY <2>3, <3>2
        <4> QED  BY <4>1, PeriodsFit, Zenon
      <3>5. /\ x.number % Factor(x.period) = 0
            /\ ~FallsShort(x.number % Lifetime(x.period), QuantizeFactor(x.period))
        BY <3>2, Zenon DEF Exact, Factor, Lifetime
      <3>6. block + 1 \in Nat /\ x.number <= block + 1  BY <2>5, <2>6, SMT
      <3>7. ~(block + 1 < x.number + Lifetime(x.period))
        BY <2>5, <3>1, <3>3, <3>4, <3>5, <3>6, BirthOfEra, Zenon
      <3>8. Lifetime(x.period) \in Nat  BY <3>4, EraPartsTypes, Zenon
      <3>9. block + 1 >= x.number + Lifetime(x.period)  BY <2>5, <3>7, <3>8, SMT
      <3> QED  BY <3>2, <3>9, Zenon DEF Lifetime
    <2> QED  BY <1>2, <2>7, <2>8, <2>9
  <1> QED  BY <1>3, <1>4, <1>5 DEF Inv

-----------------------------------------------------------------------------
(* The reads of ChainDataFetcher, which leave all else alone.              *)
LEMMA FetchOnly ==
    ASSUME Inv, fetch' \in Read(Fetches), FetchInv',
           UNCHANGED <<chain, builder, fields, maps, awaiting, pool, refused, setters, signs>>
    PROVE  Inv'
  <1> USE DEF chain
  <1>1. TypeOK'  BY DEF Inv, TypeOK
  <1>2. SignsItsFields' /\ RefusedOnlyIfOvertaken'
    BY DEF Inv, SignsItsFields, RefusedOnlyIfOvertaken
  <1>3. BuilderInv'  BY SameChain DEF Inv, BuilderInv
  <1>4. PoolInv'  BY SameChain DEF Inv, PoolInv, MadeOfPast
  <1> QED  BY <1>1, <1>2, <1>3, <1>4 DEF Inv

(* A nonce that the node counts is at least the account's.                 *)
LEMMA NextIndexBound ==
    ASSUME TypeOK, NEW s \in Signers, NEW n \in NextIndices(s)
    PROVE  n \in Nat /\ nonce[s] <= n
  BY BoundsAssumption, SMT DEF TypeOK, NextIndices

LEMMA FetchSteps ==
    ASSUME Inv,
           (\E account \in Read(Signers) : Fetch(account)) \/ NodeReads \/ FetchFails
    PROVE  Inv'
  <1> USE DEF chain
  <1>1. TypeOK /\ FetchInv  BY DEF Inv
  <1>2. /\ block \in Blocks /\ spec \in 1..MaxSpec /\ nonce \in [Signers -> 0..MaxNonce]
        /\ Nothing \notin Signers /\ Nothing \notin Nat
    BY <1>1, BoundsAssumption, SMT DEF TypeOK, Blocks
  <1>3. ASSUME NEW account \in Read(Signers), Fetch(account) PROVE Inv'
    <2>1. fetch' = [account |-> account, number |-> Nothing, hash |-> Nothing,
                    spec |-> Nothing, nonce |-> Nothing, asked |-> account = Nothing,
                    since |-> [spec |-> spec, nonce |-> nonce]]
      BY <1>3 DEF Fetch
    <2>2. [spec |-> spec, nonce |-> nonce] \in Marks  BY <1>2 DEF Marks
    <2>3. (account = Nothing) \in BOOLEAN  OBVIOUS
    <2>4. fetch' \in Fetches  BY <2>1, <2>2, <2>3 DEF Fetches, Read
    <2>5. Past([spec |-> spec, nonce |-> nonce])'
      BY <1>2, <1>3, BoundsAssumption, SMT DEF Past, Fetch
    <2>6. FetchInv'
      <3>1. /\ fetch'.account = account /\ fetch'.number = Nothing /\ fetch'.hash = Nothing
            /\ fetch'.spec = Nothing /\ fetch'.nonce = Nothing
            /\ fetch'.asked = (account = Nothing)
            /\ fetch'.since = [spec |-> spec, nonce |-> nonce]
        BY <2>1
      <3>2. Past(fetch.since)'  BY <2>5, <3>1, <1>3 DEF Past, Fetch
      <3>3. builder' = Nothing  BY <1>3 DEF Fetch
      <3> QED  BY <3>1, <3>2, <3>3 DEF FetchInv
    <2> QED  BY <1>3, <2>4, <2>6, FetchOnly DEF Fetch, Read
  <1>4. CASE FetchFails
    <2>1. fetch' = Nothing  BY <1>4 DEF FetchFails
    <2>2. FetchInv'  BY <2>1 DEF FetchInv
    <2> QED  BY <1>4, <2>1, <2>2, FetchOnly DEF FetchFails, Read
  <1>5. CASE NodeReads
    <2>1. fetch # Nothing /\ fetch \in Fetches
      BY <1>1, <1>5 DEF NodeReads, TypeOK, Read
    <2>2. /\ fetch.account \in Read(Signers) /\ fetch.number \in Read(Blocks)
          /\ fetch.hash \in Read(Blocks) /\ fetch.spec \in Read(1..MaxSpec)
          /\ fetch.nonce \in Read(Nat) /\ fetch.asked \in BOOLEAN /\ fetch.since \in Marks
      BY <2>1 DEF Fetches
    <2>3. /\ Past(fetch.since)
          /\ fetch.number # Nothing => fetch.number <= block
          /\ fetch.hash # Nothing => fetch.number # Nothing /\ fetch.hash = fetch.number
          /\ fetch.spec # Nothing => fetch.spec \in fetch.since.spec..spec
          /\ fetch.asked => (fetch.nonce # Nothing <=> fetch.account # Nothing)
          /\ ~fetch.asked => fetch.nonce = Nothing /\ fetch.account # Nothing
          /\ fetch.nonce # Nothing => fetch.since.nonce[fetch.account] <= fetch.nonce
          /\ builder = Nothing
      BY <1>1, <2>1 DEF FetchInv
    <2>4. UNCHANGED <<chain, builder, fields, maps, awaiting, pool, refused, setters, signs>>
      BY <1>5 DEF NodeReads
    <2>5. ASSUME NEW f \in Fetches, fetch' = f, f.since = fetch.since,
                 f.number # Nothing => f.number <= block,
                 f.hash # Nothing => f.number # Nothing /\ f.hash = f.number,
                 f.spec # Nothing => f.spec \in f.since.spec..spec,
                 f.asked => (f.nonce # Nothing <=> f.account # Nothing),
                 ~f.asked => f.nonce = Nothing /\ f.account # Nothing,
                 f.nonce # Nothing => f.since.nonce[f.account] <= f.nonce
          PROVE  Inv'
      <3>1. Past(f.since)'  BY <2>3, <2>4, <2>5 DEF Past
      <3>2. FetchInv'  BY <2>3, <2>4, <2>5, <3>1 DEF FetchInv, Past
      <3> QED  BY <2>4, <2>5, <3>2, FetchOnly DEF Read
    <2>6. CASE fetch.number = Nothing /\ fetch' = [fetch EXCEPT !.number = block]
      <3> DEFINE f == [fetch EXCEPT !.number = block]
      <3>1. f \in Fetches  BY <1>2, <2>1 DEF Fetches, Read
      <3>2. /\ f.account = fetch.account /\ f.number = block /\ f.hash = fetch.hash
            /\ f.spec = fetch.spec /\ f.nonce = fetch.nonce /\ f.asked = fetch.asked
            /\ f.since = fetch.since
        BY <2>1 DEF Fetches
      <3>3. block <= block  BY <1>2, BoundsAssumption, SMT DEF Blocks
      <3> HIDE DEF f
      <3>4. fetch' = f  BY <2>6 DEF f
      <3> QED  BY <2>3, <2>5, <2>6, <3>1, <3>2, <3>3, <3>4
    <2>7. CASE /\ fetch.number # Nothing /\ fetch.hash = Nothing
               /\ fetch' = [fetch EXCEPT !.hash = LatestHash(fetch.number)]
      <3> DEFINE f == [fetch EXCEPT !.hash = fetch.number]
      <3>1. f \in Fetches  BY <2>1, <2>2 DEF Fetches, Read
      <3>2. /\ f.account = fetch.account /\ f.number = fetch.number /\ f.hash = fetch.number
            /\ f.spec = fetch.spec /\ f.nonce = fetch.nonce /\ f.asked = fetch.asked
            /\ f.since = fetch.since
        BY <2>1 DEF Fetches
      <3>3. fetch' = f  BY <2>7 DEF LatestHash
      <3> HIDE DEF f
      <3> QED  BY <2>3, <2>5, <2>7, <3>1, <3>2, <3>3
    <2>8. CASE fetch.spec = Nothing /\ fetch' = [fetch EXCEPT !.spec = spec]
      <3> DEFINE f == [fetch EXCEPT !.spec = spec]
      <3>1. f \in Fetches  BY <1>2, <2>1 DEF Fetches, Read
      <3>2. /\ f.account = fetch.account /\ f.number = fetch.number /\ f.hash = fetch.hash
            /\ f.spec = spec /\ f.nonce = fetch.nonce /\ f.asked = fetch.asked
            /\ f.since = fetch.since
        BY <2>1 DEF Fetches
      <3>3. spec \in fetch.since.spec..spec
        BY <1>2, <2>2, <2>3, BoundsAssumption, SMT DEF Past, Marks
      <3>4. fetch' = f  BY <2>8 DEF f
      <3> HIDE DEF f
      <3> QED  BY <2>3, <2>5, <2>8, <3>1, <3>2, <3>3, <3>4
    <2>9. ASSUME ~fetch.asked, NEW n \in NextIndices(fetch.account),
                 fetch' = [fetch EXCEPT !.asked = TRUE, !.nonce = n]
          PROVE  Inv'
      <3> DEFINE f == [fetch EXCEPT !.asked = TRUE, !.nonce = n]
      <3>1. fetch.account \in Signers  BY <2>2, <2>3, <2>9 DEF Read
      <3>2. n \in Nat /\ nonce[fetch.account] <= n  BY <1>1, <3>1, NextIndexBound
      <3>3. f \in Fetches  BY <2>1, <3>2 DEF Fetches, Read
      <3>4. /\ f.account = fetch.account /\ f.number = fetch.number /\ f.hash = fetch.hash
            /\ f.spec = fetch.spec /\ f.nonce = n /\ f.asked = TRUE
            /\ f.since = fetch.since
        BY <2>1 DEF Fetches
      <3>5. fetch.since.nonce[fetch.account] <= n
        BY <1>2, <2>2, <2>3, <3>1, <3>2, BoundsAssumption, SMT DEF Past, Marks
      <3>6. n # Nothing /\ fetch.account # Nothing  BY <1>2, <3>1, <3>2
      <3>7. fetch' = f  BY <2>9 DEF f
      <3> HIDE DEF f
      <3> QED  BY <2>3, <2>5, <2>9, <3>3, <3>4, <3>5, <3>6, <3>7
    <2> QED  BY <1>5, <2>6, <2>7, <2>8, <2>9 DEF NodeReads
  <1> QED  BY <1>3, <1>4, <1>5

-----------------------------------------------------------------------------
(* The builder: made of what was fetched, and written by the setters.      *)
LEMMA BuilderOnly ==
    ASSUME Inv, fetch' = Nothing, builder' \in Builders, fields' \in Fields,
           maps' = applyStoredValues(fields'), BuilderInv', setters' \in 0..MaxSetters,
           UNCHANGED <<chain, awaiting, pool, refused, signs>>
    PROVE  Inv'
  <1> USE DEF chain
  <1>1. maps' \in Maps  BY StoredType
  <1>2. TypeOK'  BY <1>1 DEF Inv, TypeOK, Read
  <1>3. SignsItsFields'
    <2>1. applyStoredValues(fields)' = applyStoredValues(fields')
      BY DEF applyStoredValues, EraOf, EraHash
    <2> QED  BY <2>1 DEF SignsItsFields
  <1>4. RefusedOnlyIfOvertaken'  BY DEF Inv, RefusedOnlyIfOvertaken
  <1>5. FetchInv'  BY DEF FetchInv
  <1>6. PoolInv'  BY SameChain DEF Inv, PoolInv, MadeOfPast
  <1> QED  BY <1>2, <1>3, <1>4, <1>5, <1>6 DEF Inv

LEMMA FromChainDataStep ==
    ASSUME Inv, NEW p \in Periods, FromChainData(p)
    PROVE  Inv'
  <1> USE DEF chain
  <1>1. TypeOK /\ FetchInv /\ BuilderInv  BY DEF Inv
  <1>2. /\ fetch # Nothing /\ fetch.asked /\ fetch.hash # Nothing /\ fetch.spec # Nothing
        /\ builder' = [number |-> fetch.number, hash |-> fetch.hash,
                       nonceSet |-> fetch.nonce # Nothing, nonceOf |-> fetch.account,
                       since |-> fetch.since, overridden |-> FALSE]
        /\ fields' = [spec |-> fetch.spec, number |-> fetch.number, hash |-> fetch.hash,
                      nonce |-> IF fetch.nonce = Nothing THEN 0 ELSE fetch.nonce, period |-> p]
        /\ maps' = applyStoredValues(fields')
        /\ fetch' = Nothing
        /\ UNCHANGED <<chain, awaiting, pool, refused, setters, signs>>
    BY DEF FromChainData
  <1>3. fetch \in Fetches  BY <1>1, <1>2 DEF TypeOK, Read
  <1>4. /\ fetch.account \in Read(Signers) /\ fetch.number \in Read(Blocks)
        /\ fetch.hash \in Read(Blocks) /\ fetch.spec \in Read(1..MaxSpec)
        /\ fetch.nonce \in Read(Nat) /\ fetch.since \in Marks
    BY <1>3 DEF Fetches
  <1>5. /\ Past(fetch.since)
        /\ fetch.number # Nothing /\ fetch.number <= block /\ fetch.hash = fetch.number
        /\ fetch.spec \in fetch.since.spec..spec
        /\ fetch.nonce # Nothing <=> fetch.account # Nothing
        /\ fetch.nonce # Nothing => fetch.since.nonce[fetch.account] <= fetch.nonce
    BY <1>1, <1>2 DEF FetchInv
  <1>6. fetch.number \in Blocks /\ fetch.hash \in Blocks /\ fetch.spec \in Nat
    BY <1>2, <1>4, <1>5, BoundsAssumption, SMT DEF Read
  <1>7. (fetch.nonce # Nothing) \in BOOLEAN  OBVIOUS
  <1>8. builder' \in Builders
    BY <1>2, <1>4, <1>6, <1>7, SMT DEF Builders
  <1>9. fields' \in Fields
    <2>1. (IF fetch.nonce = Nothing THEN 0 ELSE fetch.nonce) \in Nat  BY <1>4 DEF Read
    <2> QED  BY <1>2, <1>6, <2>1 DEF Fields
  <1>10. awaiting' = {}
    BY <1>1, <1>2 DEF BuilderInv, FetchInv
  <1>11. BuilderInv'
    <2>1. /\ builder'.since = fetch.since /\ builder'.number = fetch.number
          /\ builder'.hash = fetch.hash /\ builder'.nonceOf = fetch.account
          /\ fields'.number = fetch.number /\ fields'.hash = fetch.hash
          /\ fields'.spec = fetch.spec
          /\ fields'.nonce = IF fetch.nonce = Nothing THEN 0 ELSE fetch.nonce
      BY <1>2
    <2>2. Past(builder.since)'  BY <1>2, <1>5, <2>1 DEF Past
    <2>3. block' = block /\ spec' = spec  BY <1>2
    <2>4. builder'.nonceOf # Nothing => builder'.since.nonce[builder'.nonceOf] <= fields'.nonce
      BY <1>5, <2>1
    <2> QED  BY <1>5, <1>10, <2>1, <2>2, <2>3, <2>4 DEF BuilderInv
  <1>12. setters' \in 0..MaxSetters  BY <1>1, <1>2 DEF TypeOK
  <1> QED  BY <1>2, <1>8, <1>9, <1>11, <1>12, BuilderOnly

(* A setter writes fields, and maps that are again what the fields say.    *)
LEMMA SetterStep ==
    ASSUME Inv, Setter, fields' \in Fields, maps' = applyStoredValues(fields'),
           builder' \in Builders,
           builder'.number = builder.number, builder'.hash = builder.hash,
           builder'.since = builder.since, builder'.nonceOf = builder.nonceOf,
           builder.overridden => builder'.overridden,
           fields'.number = fields.number,
           ~builder'.overridden => /\ fields'.hash = fields'.number
                                   /\ fields'.spec = fields.spec /\ fields'.nonce = fields.nonce
    PROVE  Inv'
  <1> USE DEF chain
  <1>1. TypeOK /\ BuilderInv  BY DEF Inv
  <1>2. /\ builder # Nothing /\ setters < MaxSetters /\ setters' = setters + 1
        /\ UNCHANGED <<chain, fetch, awaiting, pool, refused, signs>>
    BY DEF Setter
  <1>3. setters' \in 0..MaxSetters  BY <1>1, <1>2, BoundsAssumption, SMT DEF TypeOK
  <1>4. /\ Past(builder.since)
        /\ builder.number <= block /\ builder.hash = builder.number
        /\ fields.number = builder.number
        /\ ~builder.overridden =>
               /\ fields.hash = fields.number /\ fields.spec \in builder.since.spec..spec
               /\ builder.nonceOf # Nothing =>
                      builder.since.nonce[builder.nonceOf] <= fields.nonce
        /\ \A a \in awaiting : a.read # Nothing => builder.since.nonce[a.signer] <= a.read
    BY <1>1, <1>2 DEF BuilderInv
  <1>5. builder' # Nothing  BY NothingAssumption
  <1>6. Past(builder.since)'  BY <1>2, <1>4 DEF Past
  <1>7. BuilderInv'  BY <1>2, <1>4, <1>5, <1>6 DEF BuilderInv
  <1>8. fetch' = Nothing  BY <1>2 DEF Inv, FetchInv
  <1> QED  BY <1>2, <1>3, <1>7, <1>8, BuilderOnly

(* What a builder that exists is made of.                                  *)
LEMMA BuilderTypes ==
    ASSUME Inv, builder # Nothing
    PROVE  /\ builder \in Builders /\ fields \in Fields /\ maps = applyStoredValues(fields)
           /\ builder.number \in Blocks /\ builder.hash \in Blocks /\ builder.since \in Marks
           /\ builder.nonceOf \in Read(Signers) /\ builder.overridden \in BOOLEAN
           /\ builder.nonceSet \in BOOLEAN
           /\ fields.spec \in Nat /\ fields.number \in Blocks /\ fields.hash \in Blocks
           /\ fields.nonce \in Nat /\ fields.period \in Periods \cup {0}
           /\ builder.hash = builder.number /\ fields.number = builder.number
           /\ FirstBlock \in Blocks
  <1>1. builder \in Builders /\ fields \in Fields  BY DEF Inv, TypeOK, Read
  <1>2. maps = applyStoredValues(fields)  BY DEF Inv, SignsItsFields
  <1>3. builder.hash = builder.number /\ fields.number = builder.number
    BY DEF Inv, BuilderInv
  <1>4. FirstBlock \in Blocks  BY BoundsAssumption, SMT DEF Blocks
  <1>5. /\ builder.number \in Blocks /\ builder.hash \in Blocks /\ builder.since \in Marks
        /\ builder.nonceOf \in Read(Signers) /\ builder.overridden \in BOOLEAN
        /\ builder.nonceSet \in BOOLEAN
    BY <1>1 DEF Builders
  <1>6. /\ fields.spec \in Nat /\ fields.number \in Blocks /\ fields.hash \in Blocks
        /\ fields.nonce \in Nat /\ fields.period \in Periods \cup {0}
    BY <1>1 DEF Fields
  <1> QED  BY <1>1, <1>2, <1>3, <1>4, <1>5, <1>6

(* The two ways the setters write the maps agree with applyStoredValues,   *)
(* when nothing else of the fields has changed.                            *)
LEMMA EraWritten ==
    ASSUME NEW f \in Fields, NEW g \in Fields, g.spec = f.spec, g.nonce = f.nonce
    PROVE  applyEra(applyStoredValues(f), g) = applyStoredValues(g)
  <1> DEFINE m == applyStoredValues(f)
             t == applyStoredValues(g)
             r == [m EXCEPT !.era = EraOf(g), !.hash = EraHash(g)]
  <1>1. m \in Maps /\ t \in Maps  BY StoredType
  <1>2. /\ m.spec = f.spec /\ m.nonce = f.nonce
        /\ t.spec = g.spec /\ t.nonce = g.nonce /\ t.era = EraOf(g) /\ t.hash = EraHash(g)
    BY DEF applyStoredValues
  <1>3. applyEra(m, g) = r  BY DEF applyEra
  <1> HIDE DEF m, t
  <1>4. EraOf(g) \in Eras /\ EraHash(g) \in Blocks  BY <1>1, <1>2 DEF Maps
  <1>5. r \in Maps  BY <1>1, <1>4 DEF Maps
  <1>6. r.spec = m.spec /\ r.nonce = m.nonce /\ r.era = EraOf(g) /\ r.hash = EraHash(g)
    BY <1>1 DEF Maps
  <1> HIDE DEF r
  <1>7. r = t  BY <1>1, <1>2, <1>5, <1>6 DEF Maps
  <1> QED  BY <1>3, <1>7 DEF m, t

LEMMA NonceWritten ==
    ASSUME NEW f \in Fields, NEW n \in Nat
    PROVE  /\ [f EXCEPT !.nonce = n] \in Fields
           /\ [applyStoredValues(f) EXCEPT !.nonce = n] = applyStoredValues([f EXCEPT !.nonce = n])
  <1> DEFINE g == [f EXCEPT !.nonce = n]
  <1>1. g \in Fields  BY DEF Fields
  <1>2. /\ g.spec = f.spec /\ g.number = f.number /\ g.hash = f.hash /\ g.period = f.period
        /\ g.nonce = n
    BY DEF Fields
  <1> HIDE DEF g
  <1>3. EraOf(g) = EraOf(f) /\ EraHash(g) = EraHash(f)  BY <1>2 DEF EraOf, EraHash
  <1>4. [applyStoredValues(f) EXCEPT !.nonce = n] = applyStoredValues(g)
    BY <1>2, <1>3 DEF applyStoredValues
  <1> QED  BY <1>1, <1>4 DEF g

LEMMA SpecWritten ==
    ASSUME NEW f \in Fields, NEW v \in Nat
    PROVE  /\ [f EXCEPT !.spec = v] \in Fields
           /\ [applyStoredValues(f) EXCEPT !.spec = v] = applyStoredValues([f EXCEPT !.spec = v])
  <1> DEFINE g == [f EXCEPT !.spec = v]
  <1>1. g \in Fields  BY DEF Fields
  <1>2. /\ g.spec = v /\ g.number = f.number /\ g.hash = f.hash /\ g.period = f.period
        /\ g.nonce = f.nonce
    BY DEF Fields
  <1> HIDE DEF g
  <1>3. EraOf(g) = EraOf(f) /\ EraHash(g) = EraHash(f)  BY <1>2 DEF EraOf, EraHash
  <1>4. [applyStoredValues(f) EXCEPT !.spec = v] = applyStoredValues(g)
    BY <1>2, <1>3 DEF applyStoredValues
  <1> QED  BY <1>1, <1>4 DEF g

LEMMA Setters ==
    ASSUME Inv,
           \/ SetNonce(1) \/ SetImmortal \/ SetBlockHash(FirstBlock) \/ SetSpecVersion(MaxSpec)
           \/ \E p \in Periods, h \in {Nothing, FirstBlock} : SetEra(p, h)
    PROVE  Inv'
  <1>1. ASSUME Setter
        PROVE  /\ builder \in Builders /\ fields \in Fields /\ maps = applyStoredValues(fields)
               /\ builder.number \in Blocks /\ builder.hash \in Blocks
               /\ builder.since \in Marks /\ builder.nonceOf \in Read(Signers)
               /\ builder.overridden \in BOOLEAN /\ builder.nonceSet \in BOOLEAN
               /\ fields.spec \in Nat /\ fields.number \in Blocks /\ fields.hash \in Blocks
               /\ fields.nonce \in Nat /\ fields.period \in Periods \cup {0}
               /\ builder.hash = builder.number /\ fields.number = builder.number
               /\ FirstBlock \in Blocks /\ 1 \in Nat /\ MaxSpec \in Nat
    BY <1>1, BuilderTypes, BoundsAssumption DEF Setter
  <1>2. CASE SetNonce(1)
    <2>1. Setter  BY <1>2 DEF SetNonce
    <2>2. /\ fields' = [fields EXCEPT !.nonce = 1] /\ maps' = [maps EXCEPT !.nonce = 1]
          /\ builder' = [builder EXCEPT !.nonceSet = TRUE, !.overridden = TRUE]
      BY <1>2 DEF SetNonce
    <2>3. fields' \in Fields /\ maps' = applyStoredValues(fields')
      BY <1>1, <2>1, <2>2, NonceWritten
    <2>4. fields'.number = fields.number  BY <1>1, <2>1, <2>2 DEF Fields
    <2>5. builder' \in Builders  BY <1>1, <2>1, <2>2 DEF Builders
    <2>6. /\ builder'.number = builder.number /\ builder'.hash = builder.hash
          /\ builder'.since = builder.since /\ builder'.nonceOf = builder.nonceOf
          /\ builder'.overridden = TRUE
      BY <1>1, <2>1, <2>2 DEF Builders
    <2> QED  BY <2>1, <2>3, <2>4, <2>5, <2>6, SetterStep
  <1>3. CASE SetSpecVersion(MaxSpec)
    <2>1. Setter  BY <1>3 DEF SetSpecVersion
    <2>2. /\ fields' = [fields EXCEPT !.spec = MaxSpec] /\ maps' = [maps EXCEPT !.spec = MaxSpec]
          /\ builder' = [builder EXCEPT !.overridden = TRUE]
      BY <1>3 DEF SetSpecVersion
    <2>3. fields' \in Fields /\ maps' = applyStoredValues(fields')
      BY <1>1, <2>1, <2>2, SpecWritten
    <2>4. fields'.number = fields.number  BY <1>1, <2>1, <2>2 DEF Fields
    <2>5. builder' \in Builders  BY <1>1, <2>1, <2>2 DEF Builders
    <2>6. /\ builder'.number = builder.number /\ builder'.hash = builder.hash
          /\ builder'.since = builder.since /\ builder'.nonceOf = builder.nonceOf
          /\ builder'.overridden = TRUE
      BY <1>1, <2>1, <2>2 DEF Builders
    <2> QED  BY <2>1, <2>3, <2>4, <2>5, <2>6, SetterStep
  <1>4. CASE SetImmortal
    <2>1. Setter  BY <1>4 DEF SetImmortal
    <2>2. /\ fields' = [fields EXCEPT !.period = 0] /\ maps' = applyEra(maps, fields')
          /\ builder' = builder
      BY <1>4 DEF SetImmortal
    <2>3. fields' \in Fields  BY <1>1, <2>1, <2>2 DEF Fields
    <2>4. /\ fields'.number = fields.number /\ fields'.hash = fields.hash
          /\ fields'.spec = fields.spec /\ fields'.nonce = fields.nonce
      BY <1>1, <2>1, <2>2 DEF Fields
    <2>5. maps' = applyStoredValues(fields')  BY <1>1, <2>1, <2>2, <2>3, <2>4, EraWritten
    <2>6. ~builder.overridden => fields.hash = fields.number
      BY <2>1 DEF Inv, BuilderInv, Setter
    <2> QED  BY <1>1, <2>1, <2>2, <2>3, <2>4, <2>5, <2>6, SetterStep
  <1>5. CASE SetBlockHash(FirstBlock)
    <2>1. Setter  BY <1>5 DEF SetBlockHash
    <2>2. /\ fields' = [fields EXCEPT !.hash = FirstBlock]
          /\ maps' = IF fields.period > 0 THEN applyEra(maps, fields') ELSE maps
          /\ builder' = [builder EXCEPT !.overridden = TRUE]
      BY <1>5 DEF SetBlockHash
    <2>3. fields' \in Fields  BY <1>1, <2>1, <2>2 DEF Fields
    <2>4. /\ fields'.number = fields.number /\ fields'.spec = fields.spec
          /\ fields'.nonce = fields.nonce /\ fields'.period = fields.period
      BY <1>1, <2>1, <2>2 DEF Fields
    <2>5. maps' = applyStoredValues(fields')
      <3>1. CASE fields.period > 0
        BY <1>1, <2>1, <2>2, <2>3, <2>4, <3>1, EraWritten
      <3>2. CASE ~(fields.period > 0)
        <4>1. fields.period = 0
          <5>1. CASE fields.period \in Periods
            <6>1. fields.period \in EraPeriods  BY <5>1, PeriodsFit, Zenon
            <6>2. ASSUME NEW p \in EraPeriods PROVE p > 0  BY SMT DEF EraPeriods
            <6> QED  BY <3>2, <6>1, <6>2, Zenon
          <5> QED  BY <1>1, <2>1, <5>1
        <4>2. applyStoredValues(fields') = applyStoredValues(fields)
          BY <2>4, <4>1 DEF applyStoredValues, EraOf, EraHash
        <4> QED  BY <1>1, <2>1, <2>2, <3>2, <4>2
      <3> QED  BY <3>1, <3>2
    <2>6. builder' \in Builders  BY <1>1, <2>1, <2>2 DEF Builders
    <2>7. /\ builder'.number = builder.number /\ builder'.hash = builder.hash
          /\ builder'.since = builder.since /\ builder'.nonceOf = builder.nonceOf
          /\ builder'.overridden = TRUE
      BY <1>1, <2>1, <2>2 DEF Builders
    <2> QED  BY <2>1, <2>3, <2>4, <2>5, <2>6, <2>7, SetterStep
  <1>6. ASSUME NEW p \in Periods, NEW h \in {Nothing, FirstBlock}, SetEra(p, h) PROVE Inv'
    <2>1. Setter  BY <1>6 DEF SetEra
    <2>2. /\ fields' = [fields EXCEPT !.period = p, !.number = builder.number,
                                      !.hash = IF h = Nothing THEN builder.hash ELSE h]
          /\ maps' = applyEra(maps, fields')
          /\ builder' = [builder EXCEPT !.overridden = @ \/ h # Nothing]
      BY <1>6 DEF SetEra
    <2>3. (IF h = Nothing THEN builder.hash ELSE h) \in Blocks  BY <1>1, <1>6, <2>1
    <2>4. fields' \in Fields  BY <1>1, <1>6, <2>1, <2>2, <2>3 DEF Fields
    <2>5. /\ fields'.number = builder.number /\ fields'.spec = fields.spec
          /\ fields'.nonce = fields.nonce
          /\ fields'.hash = IF h = Nothing THEN builder.hash ELSE h
      BY <1>1, <2>1, <2>2 DEF Fields
    <2>6. maps' = applyStoredValues(fields')  BY <1>1, <2>1, <2>2, <2>4, <2>5, EraWritten
    <2>7. (builder.overridden \/ h # Nothing) \in BOOLEAN  OBVIOUS
    <2>8. builder' \in Builders  BY <1>1, <2>1, <2>2, <2>7 DEF Builders
    <2>9. /\ builder'.number = builder.number /\ builder'.hash = builder.hash
          /\ builder'.since = builder.since /\ builder'.nonceOf = builder.nonceOf
          /\ builder'.overridden = (builder.overridden \/ h # Nothing)
      BY <1>1, <2>1, <2>2 DEF Builders
    <2>10. ~builder'.overridden => fields'.hash = fields'.number
      BY <1>1, <2>1, <2>5, <2>9
    <2> QED  BY <1>1, <2>1, <2>4, <2>5, <2>6, <2>8, <2>9, <2>10, SetterStep
  <1> QED  BY <1>2, <1>3, <1>4, <1>5, <1>6

-----------------------------------------------------------------------------
(* signAndBuild: what is signed is made of what was fetched.               *)
LEMMA SignedMade ==
    ASSUME NEW s \in Signers, NEW b \in Builders, NEW f \in Fields,
           Past(b.since), f.number <= block,
           ~b.overridden => /\ f.hash = f.number /\ f.spec \in b.since.spec..spec
                            /\ b.nonceOf # Nothing => b.since.nonce[b.nonceOf] <= f.nonce
    PROVE  /\ Signed(s, b, f, applyStoredValues(f)) \in Extrinsics
           /\ MadeOfPast(Signed(s, b, f, applyStoredValues(f)))
  <1> DEFINE m == applyStoredValues(f)
             x == Signed(s, b, f, m)
  <1>1. m \in Maps  BY StoredType
  <1>2. /\ m.spec = f.spec /\ m.nonce = f.nonce /\ m.era = EraOf(f) /\ m.hash = EraHash(f)
    BY DEF applyStoredValues
  <1> HIDE DEF m
  <1>3. x \in Extrinsics
    <2>1. m.spec \in Nat /\ m.nonce \in Nat /\ m.era \in Eras /\ m.hash \in Blocks
      BY <1>1 DEF Maps
    <2>2. b.nonceOf \in Read(Signers) /\ b.since \in Marks /\ b.overridden \in BOOLEAN
      BY DEF Builders
    <2>3. f.number \in Blocks /\ f.period \in Periods \cup {0}  BY DEF Fields
    <2> QED  BY <2>1, <2>2, <2>3 DEF Signed, Extrinsics
  <1>4. /\ x.spec = f.spec /\ x.nonce = f.nonce /\ x.era = EraOf(f) /\ x.hash = EraHash(f)
        /\ x.signer = s /\ x.nonceOf = b.nonceOf /\ x.since = b.since
        /\ x.overridden = b.overridden /\ x.number = f.number /\ x.period = f.period
    BY <1>2 DEF Signed
  <1> HIDE DEF x
  <1>5. x.era = EraOf(x)  BY <1>4 DEF EraOf
  <1>6. ~x.overridden => x.hash = IF x.period = 0 THEN 0 ELSE x.number
    BY <1>4 DEF EraHash
  <1>7. s # Nothing  BY BoundsAssumption
  <1>8. MadeOfPast(x)  BY <1>4, <1>5, <1>6, <1>7 DEF MadeOfPast
  <1> QED  BY <1>3, <1>8 DEF x, m

LEMMA SignStep ==
    ASSUME Inv, NEW s \in Signers, SignAndBuild(s)
    PROVE  Inv'
  <1> USE DEF chain, built
  <1>1. TypeOK /\ SignsItsFields /\ FetchInv /\ BuilderInv /\ PoolInv /\ RefusedOnlyIfOvertaken
    BY DEF Inv
  <1>2. /\ builder # Nothing /\ signs < MaxSigns /\ signs' = signs + 1
        /\ \/ /\ pool' \subseteq pool \cup {Signed(s, builder, fields, maps)}
              /\ awaiting' = awaiting
           \/ /\ awaiting' = awaiting \cup {[signer |-> s, read |-> Nothing]}
              /\ pool' = pool
        /\ UNCHANGED <<chain, built, refused, setters>>
    BY DEF SignAndBuild, Submits
  <1>3. signs' \in 0..MaxSigns  BY <1>1, <1>2, BoundsAssumption, SMT DEF TypeOK
  <1>4. SignsItsFields' /\ FetchInv' /\ RefusedOnlyIfOvertaken'
    BY <1>1, <1>2, SameChain DEF SignsItsFields, FetchInv, RefusedOnlyIfOvertaken
  <1>5. pool' \subseteq Extrinsics /\ PoolInv'
    <2>1. ASSUME NEW x \in pool PROVE x \in Extrinsics /\ MadeOfPast(x)'
      <3>1. MadeOfPast(x) /\ x \in Extrinsics  BY <1>1 DEF PoolInv, TypeOK
      <3> QED  BY <1>2, <3>1, SameChain DEF MadeOfPast
    <2>2. DEFINE x == Signed(s, builder, fields, maps)
    <2>3. x \in Extrinsics /\ MadeOfPast(x)
      <3>1. builder \in Builders /\ fields \in Fields /\ maps = applyStoredValues(fields)
        BY <1>2, BuilderTypes
      <3>2. Past(builder.since) /\ fields.number <= block
        BY <1>1, <1>2 DEF BuilderInv
      <3> QED  BY <1>1, <1>2, <3>1, <3>2, SignedMade DEF BuilderInv
    <2> HIDE DEF x
    <2>4. ASSUME NEW y, y = x PROVE y \in Extrinsics /\ MadeOfPast(y)'
      BY <1>2, <2>3, <2>4, SameChain DEF MadeOfPast
    <2>5. \A y \in pool' : y \in pool \/ y = x  BY <1>2 DEF x
    <2> QED  BY <2>1, <2>4, <2>5 DEF PoolInv
  <1>6. awaiting' \subseteq Calls /\ BuilderInv'
    <2>1. [signer |-> s, read |-> Nothing] \in Calls  BY DEF Calls, Read
    <2>2. awaiting' \subseteq Calls  BY <1>1, <1>2, <2>1 DEF TypeOK
    <2>3. ASSUME NEW a \in awaiting', a.read # Nothing
          PROVE  builder.since.nonce[a.signer] <= a.read
      <3>1. CASE a \in awaiting  BY <1>1, <1>2, <2>3, <3>1 DEF BuilderInv
      <3>2. CASE a = [signer |-> s, read |-> Nothing]  BY <2>3, <3>2
      <3> QED  BY <1>2, <3>1, <3>2
    <2>4. Past(builder.since)'  BY <1>1, <1>2 DEF BuilderInv, Past
    <2> QED  BY <1>1, <1>2, <2>2, <2>3, <2>4 DEF BuilderInv
  <1>7. TypeOK'  BY <1>1, <1>2, <1>3, <1>5, <1>6 DEF TypeOK
  <1> QED  BY <1>4, <1>5, <1>6, <1>7 DEF Inv

(* The answer to a nonce's request, or its failure.                        *)
LEMMA NonceSteps ==
    ASSUME Inv, NEW a \in awaiting, NodeReadsNonce(a) \/ NonceFails(a)
    PROVE  Inv'
  <1> USE DEF chain, built
  <1>1. TypeOK /\ SignsItsFields /\ FetchInv /\ BuilderInv /\ PoolInv /\ RefusedOnlyIfOvertaken
    BY DEF Inv
  <1>2. UNCHANGED <<chain, built, pool, refused, setters, signs>>
    BY DEF NodeReadsNonce, NonceFails
  <1>3. a \in Calls /\ a.signer \in Signers /\ builder # Nothing
    BY <1>1 DEF TypeOK, Calls, BuilderInv
  <1>4. ASSUME NEW b \in awaiting'
        PROVE  /\ b \in Calls
               /\ b.read # Nothing => builder.since.nonce[b.signer] <= b.read
    <2>1. CASE b \in awaiting  BY <1>1, <1>3, <2>1 DEF TypeOK, BuilderInv
    <2>2. ASSUME NEW n \in NextIndices(a.signer), b = [a EXCEPT !.read = n]
          PROVE  b \in Calls /\ builder.since.nonce[b.signer] <= b.read
      <3>1. n \in Nat /\ nonce[a.signer] <= n  BY <1>1, <1>3, NextIndexBound
      <3>2. b \in Calls /\ b.signer = a.signer /\ b.read = n
        BY <1>3, <2>2, <3>1 DEF Calls, Read
      <3>3. builder.since \in Marks  BY <1>3, BuilderTypes
      <3>4. Past(builder.since)  BY <1>1, <1>3 DEF BuilderInv
      <3>5. builder.since.nonce[a.signer] \in Int /\ nonce[a.signer] \in Int
        BY <1>1, <1>3, <3>3, BoundsAssumption, SMT DEF Marks, TypeOK
      <3>6. builder.since.nonce[a.signer] <= nonce[a.signer]  BY <1>3, <3>4 DEF Past
      <3>7. builder.since.nonce[a.signer] <= n  BY <3>1, <3>5, <3>6, SMT
      <3> QED  BY <3>2, <3>7
    <2> QED  BY <2>1, <2>2 DEF NodeReadsNonce, NonceFails
  <1>5. SignsItsFields' /\ FetchInv' /\ RefusedOnlyIfOvertaken'
    BY <1>1, <1>2, SameChain DEF SignsItsFields, FetchInv, RefusedOnlyIfOvertaken
  <1>6. PoolInv'  BY <1>1, <1>2, SameChain DEF PoolInv, MadeOfPast
  <1>7. BuilderInv'
    <2>1. Past(builder.since)'  BY <1>1, <1>2, <1>3 DEF BuilderInv, Past
    <2> QED  BY <1>1, <1>2, <1>3, <1>4, <2>1 DEF BuilderInv
  <1>8. TypeOK'  BY <1>1, <1>2, <1>4 DEF TypeOK
  <1> QED  BY <1>5, <1>6, <1>7, <1>8 DEF Inv

LEMMA ResumeStep ==
    ASSUME Inv, NEW a \in awaiting, Resume(a)
    PROVE  Inv'
  <1> USE DEF chain
  <1>1. TypeOK /\ SignsItsFields /\ FetchInv /\ BuilderInv /\ PoolInv /\ RefusedOnlyIfOvertaken
    BY DEF Inv
  <1>2. /\ a.read # Nothing /\ awaiting' = awaiting \ {a}
        /\ fields' = [fields EXCEPT !.nonce = a.read] /\ maps' = [maps EXCEPT !.nonce = a.read]
        /\ builder' = [builder EXCEPT !.nonceSet = TRUE, !.nonceOf = a.signer]
        /\ pool' \subseteq pool \cup {Signed(a.signer, builder', fields', maps')}
        /\ UNCHANGED <<chain, fetch, refused, setters, signs>>
    BY DEF Resume, Submits
  <1>3. a \in Calls /\ builder # Nothing  BY <1>1 DEF TypeOK, BuilderInv
  <1>4. a.signer \in Signers /\ a.read \in Nat  BY <1>2, <1>3 DEF Calls, Read
  <1>5. /\ builder \in Builders /\ fields \in Fields /\ maps = applyStoredValues(fields)
        /\ builder.since \in Marks /\ fields.number = builder.number
    BY <1>3, BuilderTypes
  <1>6. fields' \in Fields /\ maps' = applyStoredValues(fields')
    BY <1>2, <1>4, <1>5, NonceWritten
  <1>7. /\ fields'.number = fields.number /\ fields'.hash = fields.hash
        /\ fields'.spec = fields.spec /\ fields'.nonce = a.read
    BY <1>2, <1>5 DEF Fields
  <1>8. builder' \in Builders
    <2>1. a.signer \in Read(Signers)  BY <1>4 DEF Read
    <2> QED  BY <1>2, <1>5, <2>1 DEF Builders
  <1>9. /\ builder'.number = builder.number /\ builder'.hash = builder.hash
        /\ builder'.since = builder.since /\ builder'.nonceOf = a.signer
        /\ builder'.overridden = builder.overridden
    BY <1>2, <1>5 DEF Builders
  <1>10. /\ Past(builder.since) /\ builder.number <= block /\ builder.hash = builder.number
         /\ ~builder.overridden => /\ fields.hash = fields.number
                                   /\ fields.spec \in builder.since.spec..spec
         /\ builder.since.nonce[a.signer] <= a.read
         /\ \A b \in awaiting : b.read # Nothing => builder.since.nonce[b.signer] <= b.read
    BY <1>1, <1>2, <1>3 DEF BuilderInv
  <1>11. SignsItsFields'
    <2>1. applyStoredValues(fields)' = applyStoredValues(fields')
      BY DEF applyStoredValues, EraOf, EraHash
    <2> QED  BY <1>6, <2>1 DEF SignsItsFields
  <1>12. fetch' = Nothing /\ FetchInv'
    <2>1. fetch' = Nothing  BY <1>1, <1>2, <1>3 DEF FetchInv
    <2> QED  BY <2>1 DEF FetchInv
  <1>13. builder' # Nothing  BY <1>8, NothingAssumption
  <1>14. BuilderInv'
    <2>1. Past(builder.since)'  BY <1>2, <1>9, <1>10 DEF Past
    <2> QED  BY <1>2, <1>5, <1>7, <1>9, <1>10, <1>13, <2>1 DEF BuilderInv
  <1>15. pool' \subseteq Extrinsics /\ PoolInv'
    <2>1. ASSUME NEW x \in pool PROVE x \in Extrinsics /\ MadeOfPast(x)'
      <3>1. MadeOfPast(x) /\ x \in Extrinsics  BY <1>1 DEF PoolInv, TypeOK
      <3> QED  BY <1>2, <3>1, SameChain DEF MadeOfPast
    <2>2. ASSUME NEW x, x = Signed(a.signer, builder', fields', maps')
          PROVE  x \in Extrinsics /\ MadeOfPast(x)'
      <3>1. x \in Extrinsics /\ MadeOfPast(x)
        <4> DEFINE b == builder'
                   f == fields'
        <4>1. b \in Builders /\ f \in Fields /\ x = Signed(a.signer, b, f, applyStoredValues(f))
          BY <1>6, <1>8, <2>2
        <4>2. /\ Past(b.since) /\ f.number <= block
              /\ ~b.overridden => /\ f.hash = f.number /\ f.spec \in b.since.spec..spec
                                  /\ b.nonceOf # Nothing => b.since.nonce[b.nonceOf] <= f.nonce
          BY <1>5, <1>7, <1>9, <1>10
        <4> HIDE DEF b, f
        <4> QED  BY <1>4, <4>1, <4>2, SignedMade
      <3> QED  BY <1>2, <3>1, SameChain DEF MadeOfPast
    <2>3. \A y \in pool' : y \in pool \/ y = Signed(a.signer, builder', fields', maps')
      BY <1>2
    <2> QED  BY <2>1, <2>2, <2>3 DEF PoolInv
  <1>16. TypeOK'
    <2>1. maps' \in Maps  BY <1>6, StoredType
    <2> QED  BY <1>1, <1>2, <1>6, <1>8, <1>12, <1>15, <2>1 DEF TypeOK, Read
  <1>17. RefusedOnlyIfOvertaken'  BY <1>1, <1>2 DEF RefusedOnlyIfOvertaken
  <1> QED  BY <1>11, <1>12, <1>14, <1>15, <1>16, <1>17 DEF Inv

-----------------------------------------------------------------------------
(* Every step of the chain keeps the invariant.                            *)
LEMMA ChainSteps ==
    ASSUME Inv,
           \/ NewBlock \/ Upgrade \/ \E s \in Signers : OtherWallet(s)
           \/ \E x \in pool : Include(x)
    PROVE  Inv'
  <1>1. /\ block \in FirstBlock..LastBlock /\ spec \in 1..MaxSpec
        /\ nonce \in [Signers -> 0..MaxNonce] /\ pool \subseteq Extrinsics
        /\ FirstBlock \in Nat /\ LastBlock \in Nat /\ MaxSpec \in Nat /\ MaxNonce \in Nat
    <2>1. TypeOK  BY DEF Inv
    <2>2. FirstBlock \in Nat /\ LastBlock \in Nat /\ MaxSpec \in Nat /\ MaxNonce \in Nat
      BY BoundsAssumption, SMT
    <2>3. pool \subseteq Extrinsics  BY <2>1, Zenon DEF TypeOK
    <2>4. /\ block \in FirstBlock..LastBlock /\ spec \in 1..MaxSpec
          /\ nonce \in [Signers -> 0..MaxNonce]
      BY <2>1, Zenon DEF TypeOK
    <2> QED  BY <2>2, <2>3, <2>4, Zenon
  <1>2. ASSUME NEW s \in Signers PROVE nonce[s] <= nonce[s]
    <2>1. nonce[s] \in 0..MaxNonce  BY <1>1, Zenon
    <2>2. nonce[s] \in Int  BY <2>1, SMT
    <2> QED  BY <2>2, SMT
  <1>3. ASSUME NEW s \in Signers, nonce[s] < MaxNonce, nonce' = [nonce EXCEPT ![s] = @ + 1]
        PROVE  /\ nonce' \in [Signers -> 0..MaxNonce]
               /\ \A r \in Signers : nonce[r] <= nonce'[r]
    <2>1. nonce[s] + 1 \in 0..MaxNonce  BY <1>1, <1>3, SMT
    <2> QED  BY <1>1, <1>3, <2>1, SMT
  <1>4. spec \in spec..MaxSpec /\ block \in block..LastBlock  BY <1>1, SMT
  <1>5. CASE NewBlock
    <2>1. block' \in block..LastBlock  BY <1>1, <1>5, SMT DEF NewBlock
    <2> QED  BY <1>1, <1>2, <1>4, <1>5, <2>1, ChainStep DEF NewBlock
  <1>6. CASE Upgrade
    <2>1. spec' \in spec..MaxSpec  BY <1>1, <1>6, SMT DEF Upgrade
    <2> QED  BY <1>1, <1>2, <1>4, <1>6, <2>1, ChainStep DEF Upgrade
  <1>7. ASSUME NEW s \in Signers, OtherWallet(s) PROVE Inv'
    BY <1>3, <1>4, <1>7, ChainStep DEF OtherWallet
  <1>8. ASSUME NEW x \in pool, Include(x) PROVE Inv'
    <2>1. block' \in block..LastBlock  BY <1>1, <1>8, SMT DEF Include
    <2>2. x.signer \in Signers  BY <1>1, <1>8 DEF Extrinsics
    <2>3. /\ nonce' \in [Signers -> 0..MaxNonce]
          /\ \A r \in Signers : nonce[r] <= nonce'[r]
      BY <1>3, <1>8, <2>2 DEF Include
    <2> QED  BY <1>4, <1>8, <2>1, <2>3, ChainStep DEF Include
  <1> QED  BY <1>5, <1>6, <1>7, <1>8

LEMMA InvInit ==
    ASSUME Init
    PROVE  Inv
  <1>1. block \in FirstBlock..LastBlock /\ spec \in 1..MaxSpec
        /\ nonce \in [Signers -> 0..MaxNonce]
        /\ setters \in 0..MaxSetters /\ signs \in 0..MaxSigns
    BY BoundsAssumption, SMT DEF Init
  <1>2. TypeOK  BY <1>1 DEF Init, TypeOK, Read
  <1> QED
    BY <1>2 DEF Init, Inv, SignsItsFields, FetchInv, BuilderInv, PoolInv, RefusedOnlyIfOvertaken

LEMMA InvStep ==
    ASSUME Inv, [Next]_vars
    PROVE  Inv'
  <1>1. CASE UNCHANGED vars
    <2>1. UNCHANGED <<chain, built, awaiting, pool, refused, setters, signs>>
      BY <1>1 DEF vars
    <2>2. /\ block \in block..LastBlock /\ spec \in spec..MaxSpec
          /\ nonce \in [Signers -> 0..MaxNonce] /\ \A s \in Signers : nonce[s] <= nonce[s]
      BY BoundsAssumption, SMT DEF Inv, TypeOK
    <2> QED  BY <2>1, <2>2, ChainStep DEF chain
  <1>2. CASE \/ NewBlock \/ Upgrade \/ \E s \in Signers : OtherWallet(s)
             \/ \E x \in pool : Include(x)
    BY <1>2, ChainSteps
  <1>3. CASE \E x \in pool : Refuse(x)  BY <1>3, RefuseStep
  <1>4. CASE (\E account \in Read(Signers) : Fetch(account)) \/ NodeReads \/ FetchFails
    BY <1>4, FetchSteps
  <1>5. CASE \E p \in Periods : FromChainData(p)  BY <1>5, FromChainDataStep
  <1>6. CASE \/ SetNonce(1) \/ SetImmortal \/ SetBlockHash(FirstBlock) \/ SetSpecVersion(MaxSpec)
             \/ \E p \in Periods, h \in {Nothing, FirstBlock} : SetEra(p, h)
    BY <1>6, Setters
  <1>7. CASE \E s \in Signers : SignAndBuild(s)  BY <1>7, SignStep
  <1>8. CASE \E a \in awaiting : NodeReadsNonce(a) \/ Resume(a) \/ NonceFails(a)
    BY <1>8, NonceSteps, ResumeStep
  <1> QED  BY <1>1, <1>2, <1>3, <1>4, <1>5, <1>6, <1>7, <1>8 DEF Next

(* Always: the types; the maps that are encoded and signed are what the    *)
(* fields say; and whatever was fetched, set or signed lies in the chain's *)
(* past, of the fetch if the application overrode nothing.                 *)
THEOREM InvAlways == Spec => []Inv
  <1>1. Init => Inv  BY InvInit
  <1>2. Inv /\ [Next]_vars => Inv'  BY InvStep
  <1> QED  BY <1>1, <1>2, PTL DEF Spec

(* An extrinsic made of what the library fetched for its signer is refused *)
(* only when it was overtaken after the fetch had begun: by an upgrade, by *)
(* another extrinsic of the signer, or by the end of its era.              *)
THEOREM RefusedOnlyIfOvertakenAlways == Spec => []RefusedOnlyIfOvertaken
  <1>1. Inv => RefusedOnlyIfOvertaken  BY DEF Inv
  <1> QED  BY <1>1, InvAlways, PTL
=============================================================================
