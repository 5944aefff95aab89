--------------------------- MODULE RequestIdProofs ---------------------------
(* The decimal-to-hexadecimal reading of identifiers loses nothing as long *)
(* as they have at most eight digits.                                      *)
EXTENDS RequestId, TLAPS

\* Taking the last decimal digit off a number.
LEMMA LastDigit ==
    ASSUME NEW n \in Nat
    PROVE  /\ n \div 10 \in Nat /\ n % 10 \in 0 .. 9
           /\ n = 10 * (n \div 10) + (n % 10)
    BY SMT

\* Taking off one digit after the other.
LEMMA DivDiv ==
    ASSUME NEW n \in Nat
    PROVE  /\ n \div 100 = (n \div 10) \div 10
           /\ n \div 1000 = ((n \div 10) \div 10) \div 10
    BY SMT

\* A number below 10000 is given by its four decimal digits.
LEMMA Digits ==
    ASSUME NEW n \in Nat, n < 10000
    PROVE  /\ n % 10 \in 0 .. 9 /\ (n \div 10) % 10 \in 0 .. 9
           /\ (n \div 100) % 10 \in 0 .. 9 /\ (n \div 1000) % 10 \in 0 .. 9
           /\ n = (n % 10) + 10 * ((n \div 10) % 10)
                  + 100 * ((n \div 100) % 10) + 1000 * ((n \div 1000) % 10)
<1> DEFINE q1 == n \div 10  q2 == q1 \div 10  q3 == q2 \div 10  q4 == q3 \div 10
<1>1. /\ q1 \in Nat /\ n % 10 \in 0 .. 9 /\ n = 10 * q1 + (n % 10)
    BY LastDigit
<1> HIDE DEF q1
<1>2. /\ q2 \in Nat /\ q1 % 10 \in 0 .. 9 /\ q1 = 10 * q2 + (q1 % 10)
    BY <1>1, LastDigit
<1> HIDE DEF q2
<1>3. /\ q3 \in Nat /\ q2 % 10 \in 0 .. 9 /\ q2 = 10 * q3 + (q2 % 10)
    BY <1>2, LastDigit
<1> HIDE DEF q3
<1>4. /\ q4 \in Nat /\ q3 % 10 \in 0 .. 9 /\ q3 = 10 * q4 + (q3 % 10)
    BY <1>3, LastDigit
<1> HIDE DEF q4
<1>5. q4 = 0
    BY <1>1, <1>2, <1>3, <1>4, SMT
<1>6. n = (n % 10) + 10 * (q1 % 10) + 100 * (q2 % 10) + 1000 * (q3 % 10)
    BY <1>1, <1>2, <1>3, <1>4, <1>5, SMT
<1>7. n \div 100 = q2 /\ n \div 1000 = q3
    BY DivDiv DEF q1, q2, q3
<1> QED BY <1>1, <1>2, <1>3, <1>4, <1>6, <1>7, SMT DEF q1

\* Four hexadecimal digits are given by their value.
LEMMA Hex4Injective ==
    ASSUME NEW a \in Nat, a < 10000, NEW b \in Nat, b < 10000,
           Hex4(a) = Hex4(b)
    PROVE  a = b
<1> DEFINE a0 == a % 10  a1 == (a \div 10) % 10
           a2 == (a \div 100) % 10  a3 == (a \div 1000) % 10
           b0 == b % 10  b1 == (b \div 10) % 10
           b2 == (b \div 100) % 10  b3 == (b \div 1000) % 10
<1>1. a0 + 16 * a1 + 256 * a2 + 4096 * a3 = b0 + 16 * b1 + 256 * b2 + 4096 * b3
    BY SMT DEF Hex4
<1>2. /\ a0 \in 0 .. 9 /\ a1 \in 0 .. 9 /\ a2 \in 0 .. 9 /\ a3 \in 0 .. 9
      /\ a = a0 + 10 * a1 + 100 * a2 + 1000 * a3
    BY Digits, SMT
<1>3. /\ b0 \in 0 .. 9 /\ b1 \in 0 .. 9 /\ b2 \in 0 .. 9 /\ b3 \in 0 .. 9
      /\ b = b0 + 10 * b1 + 100 * b2 + 1000 * b3
    BY Digits, SMT
<1> HIDE DEF a0, a1, a2, a3, b0, b1, b2, b3
<1>4. a0 = b0 /\ a1 = b1 /\ a2 = b2 /\ a3 = b3
    BY <1>1, <1>2, <1>3, SMT
<1> QED BY <1>2, <1>3, <1>4, SMT

\* Requests whose identifiers have at most eight digits have different
\* sequence numbers.
THEOREM SequenceInjective ==
    ASSUME NEW m \in Nat, NEW n \in Nat, m < IdLimit, n < IdLimit,
           Sequence(m) = Sequence(n)
    PROVE  m = n
<1> DEFINE mh == (m \div 10000) % 10000  ml == m % 10000
           nh == (n \div 10000) % 10000  nl == n % 10000
<1>1. /\ mh \in Nat /\ mh < 10000 /\ ml \in Nat /\ ml < 10000
      /\ nh \in Nat /\ nh < 10000 /\ nl \in Nat /\ nl < 10000
      /\ m = 10000 * mh + ml /\ n = 10000 * nh + nl
    BY SMT DEF IdLimit
<1>2. Hex4(mh) = Hex4(nh) /\ Hex4(ml) = Hex4(nl)
    BY SMT DEF Sequence
<1> HIDE DEF mh, ml, nh, nl
<1>3. mh = nh /\ ml = nl
    BY <1>1, <1>2, Hex4Injective, SMT
<1> QED BY <1>1, <1>3, SMT
=============================================================================
