------------------------ MODULE ScalarCodecsProofs ------------------------
(***************************************************************************)
(* Timestamps and optionals for every size of a byte, every size of the    *)
(* number in an optional and any hosts. Digits and Value are inverse to    *)
(* each other, so what a host of either order puts into its memory is a    *)
(* number again, and the same one.                                         *)
(***************************************************************************)
EXTENDS ScalarCodecs, SequenceTheorems, WellFoundedInduction, TLAPS

Byte == 0 .. Base - 1

-----------------------------------------------------------------------------
(* Recursive functions of natural numbers                                  *)

(* A set with 0 and with the successor of each of its numbers has them all.*)
LEMMA NatSetInduction ==
    ASSUME NEW S, 0 \in S, \A n \in Nat : n \in S => n + 1 \in S
    PROVE  Nat \subseteq S
    <1> DEFINE R == OpToRel(<, Nat)
               T == Nat \ S
    <1>1. IsWellFoundedOn(R, Nat)
        BY NatLessThanWellFounded
    <1>2. \A n \in Nat \ {0} : <<n - 1, n>> \in R
        BY DEF OpToRel
    <1> HIDE DEF R
    <1> SUFFICES ASSUME T # {} PROVE FALSE
        OBVIOUS
    <1>3. PICK m \in T : \A n \in T : ~ (<<n, m>> \in R)
        BY <1>1, WFMin
    <1>4. m \in Nat \ {0} /\ m - 1 \in Nat
        OBVIOUS
    <1>5. m - 1 \in S
        BY <1>2, <1>3, <1>4
    <1> QED
        BY <1>4, <1>5

(* f makes n steps, each to a number of one more digit.                   *)
Goes(zero, digit, n, f) ==
    /\ f \in [0 .. n -> Nat]
    /\ f[0] = zero
    /\ \A k \in 0 .. n - 1 : f[k + 1] = Base * f[k] + digit[k]

LEMMA OneStepMore ==
    ASSUME NEW zero \in Nat, NEW digit \in [Nat -> Nat], NEW n \in Nat,
           NEW f, Goes(zero, digit, n, f)
    PROVE  \E g : Goes(zero, digit, n + 1, g)
    <1> DEFINE g == [k \in 0 .. n + 1 |-> IF k = n + 1 THEN Base * f[n] + digit[n] ELSE f[k]]
    <1>1. f \in [0 .. n -> Nat] /\ f[0] = zero
        BY DEF Goes
    <1>2. f[n] \in Nat
        BY <1>1
    <1>3. Base * f[n] + digit[n] \in Nat
        BY <1>2, ScalarAssumption
    <1>4. \A k \in 0 .. n : g[k] = f[k]
        OBVIOUS
    <1>5. g[n + 1] = Base * f[n] + digit[n] /\ DOMAIN g = 0 .. n + 1 /\ g = [k \in 0 .. n + 1 |-> g[k]]
        OBVIOUS
    <1> HIDE DEF g
    <1>6. g \in [0 .. n + 1 -> Nat]
        <2>1. ASSUME NEW k \in 0 .. n + 1 PROVE g[k] \in Nat
            <3>1. CASE k = n + 1
                BY <1>3, <1>5, <3>1
            <3>2. CASE k # n + 1
                <4>1. k \in 0 .. n
                    BY <3>2
                <4> QED
                    BY <1>1, <1>4, <4>1
            <3> QED
                BY <3>1, <3>2
        <2> QED
            BY <1>5, <2>1
    <1>7. ASSUME NEW k \in 0 .. (n + 1) - 1 PROVE g[k + 1] = Base * g[k] + digit[k]
        <2>1. CASE k = n
            <3>1. g[n] = f[n]
                BY <1>4
            <3> QED
                BY <1>5, <2>1, <3>1
        <2>2. CASE k # n
            <3>1. k \in 0 .. n - 1 /\ k \in 0 .. n /\ k + 1 \in 0 .. n
                BY <2>2
            <3>2. f[k + 1] = Base * f[k] + digit[k]
                BY <3>1 DEF Goes
            <3> QED
                BY <1>4, <3>1, <3>2
        <2> QED
            BY <2>1, <2>2
    <1>8. g[0] = zero
        BY <1>1, <1>4
    <1> QED
        BY <1>6, <1>7, <1>8 DEF Goes

(* There is a function with a given value at 0 and these steps.            *)
LEMMA Recursion ==
    ASSUME NEW zero \in Nat, NEW digit \in [Nat -> Nat]
    PROVE  \E f \in [Nat -> Nat] : f[0] = zero /\ \A n \in Nat : f[n + 1] = Base * f[n] + digit[n]
    <1>1. ASSUME NEW n \in Nat PROVE \E f : Goes(zero, digit, n, f)
        <2> DEFINE Some == {m \in Nat : \E f : Goes(zero, digit, m, f)}
        <2>1. 0 \in Some
            <3>1. Goes(zero, digit, 0, [k \in 0 .. 0 |-> zero])
                BY DEF Goes
            <3> QED
                BY <3>1
        <2>2. \A m \in Nat : m \in Some => m + 1 \in Some
            BY OneStepMore
        <2> HIDE DEF Some
        <2>3. Nat \subseteq Some
            BY <2>1, <2>2, NatSetInduction
        <2> QED
            BY <2>3 DEF Some
    <1> DEFINE path == [n \in Nat |-> CHOOSE f : Goes(zero, digit, n, f)]
               whole == [n \in Nat |-> path[n][n]]
    <1>2. \A n \in Nat : Goes(zero, digit, n, path[n])
        BY <1>1
    <1> HIDE DEF path
    <1>3. \A n \in Nat : path[n + 1][n] = path[n][n]
        <2> DEFINE Same == {n \in Nat : \A m \in Nat : n <= m => path[m][n] = path[n][n]}
        <2>1. 0 \in Same
            BY <1>2 DEF Goes
        <2>2. ASSUME NEW n \in Nat, n \in Same PROVE n + 1 \in Same
            <3> SUFFICES ASSUME NEW m \in Nat, n + 1 <= m
                         PROVE  path[m][n + 1] = path[n + 1][n + 1]
                OBVIOUS
            <3>1. path[m][n] = path[n][n] /\ path[n + 1][n] = path[n][n]
                BY <2>2
            <3>2. n \in 0 .. m - 1 /\ n \in 0 .. (n + 1) - 1
                OBVIOUS
            <3>3. path[m][n + 1] = Base * path[m][n] + digit[n]
                BY <1>2, <3>2 DEF Goes
            <3>4. path[n + 1][n + 1] = Base * path[n + 1][n] + digit[n]
                BY <1>2, <3>2 DEF Goes
            <3> QED
                BY <3>1, <3>3, <3>4
        <2> HIDE DEF Same
        <2>3. Nat \subseteq Same
            BY <2>1, <2>2, NatSetInduction
        <2> QED
            BY <2>3 DEF Same
    <1>4. whole \in [Nat -> Nat] /\ whole[0] = zero
        <2>1. ASSUME NEW n \in Nat PROVE path[n][n] \in Nat
            <3>1. path[n] \in [0 .. n -> Nat] /\ n \in 0 .. n
                BY <1>2 DEF Goes
            <3> QED
                BY <3>1
        <2>2. path[0][0] = zero
            BY <1>2 DEF Goes
        <2> QED
            BY <2>1, <2>2
    <1>5. ASSUME NEW n \in Nat PROVE whole[n + 1] = Base * whole[n] + digit[n]
        <2>1. n \in 0 .. (n + 1) - 1
            OBVIOUS
        <2>2. path[n + 1][n + 1] = Base * path[n + 1][n] + digit[n]
            BY <1>2, <2>1 DEF Goes
        <2> QED
            BY <1>3, <2>2
    <1> QED
        BY <1>4, <1>5

(* The powers of Base                                                      *)
LEMMA PowerIs ==
    /\ Power \in [Nat -> Nat]
    /\ Power[0] = 1
    /\ \A n \in Nat : Power[n + 1] = Base * Power[n]
    <1> DEFINE Is(f) == f = [n \in Nat |-> IF n = 0 THEN 1 ELSE Base * f[n - 1]]
    <1>1. \E f : Is(f)
        <2> DEFINE none == [n \in Nat |-> 0]
        <2>1. none \in [Nat -> Nat]
            OBVIOUS
        <2>2. PICK f \in [Nat -> Nat] :
                  f[0] = 1 /\ \A n \in Nat : f[n + 1] = Base * f[n] + none[n]
            <3> HIDE DEF none
            <3> QED
                BY <2>1, Recursion
        <2>3. ASSUME NEW n \in Nat \ {0} PROVE f[n] = Base * f[n - 1]
            <3>1. n - 1 \in Nat /\ (n - 1) + 1 = n
                OBVIOUS
            <3>2. f[(n - 1) + 1] = Base * f[n - 1] + 0
                BY <2>2, <3>1
            <3> QED
                BY <2>2, <3>1, <3>2, ScalarAssumption
        <2>4. Is(f)
            BY <2>2, <2>3
        <2> QED
            BY <2>4
    <1>2. Is(Power)
        <2> HIDE DEF Is
        <2>1. Power = CHOOSE f : Is(f)
            BY DEF Power, Is
        <2> QED
            BY <1>1, <2>1
    <1>3. Power[0] = 1
        BY <1>2
    <1>4. ASSUME NEW n \in Nat PROVE Power[n + 1] = Base * Power[n]
        <2>1. n + 1 \in Nat /\ n + 1 # 0 /\ (n + 1) - 1 = n
            OBVIOUS
        <2> QED
            BY <1>2, <2>1
    <1>5. ASSUME NEW n \in Nat PROVE Power[n] \in Nat
        <2> DEFINE Numbers == {k \in Nat : Power[k] \in Nat}
        <2>1. 0 \in Numbers
            BY <1>3
        <2>2. ASSUME NEW k \in Nat, k \in Numbers PROVE k + 1 \in Numbers
            BY <1>4, <2>2, ScalarAssumption
        <2> HIDE DEF Numbers
        <2>3. Nat \subseteq Numbers
            BY <2>1, <2>2, NatSetInduction
        <2> QED
            BY <2>3 DEF Numbers
    <1> HIDE DEF Power
    <1>6. Power = [n \in Nat |-> Power[n]]
        <2>1. DOMAIN Power = Nat
            BY <1>2
        <2> QED
            BY <1>2, <2>1
    <1> QED
        BY <1>3, <1>4, <1>5, <1>6

LEMMA PowerPositive == \A n \in Nat : Power[n] \in Nat \ {0}
    <1> DEFINE Positive == {n \in Nat : Power[n] \in Nat \ {0}}
    <1>1. 0 \in Positive
        BY PowerIs
    <1>2. ASSUME NEW n \in Nat, n \in Positive PROVE n + 1 \in Positive
        <2>1. Power[n] \in Nat \ {0} /\ Base \in Nat \ {0}
            BY <1>2, ScalarAssumption
        <2>2. Base * Power[n] \in Nat \ {0}
            BY <2>1
        <2> QED
            BY <2>2, PowerIs
    <1> HIDE DEF Positive
    <1>3. Nat \subseteq Positive
        BY <1>1, <1>2, NatSetInduction
    <1> QED
        BY <1>3 DEF Positive

-----------------------------------------------------------------------------
(* Division with remainder                                                 *)
LEMMA Euclid ==
    ASSUME NEW b \in Nat \ {0}, NEW q \in Nat, NEW d \in 0 .. b - 1
    PROVE  (b * q + d) \div b = q /\ (b * q + d) % b = d
    OBVIOUS

LEMMA Divided ==
    ASSUME NEW v \in Nat, NEW b \in Nat \ {0}
    PROVE  /\ v = b * (v \div b) + (v % b)
           /\ v \div b \in Nat
           /\ v % b \in 0 .. b - 1
    OBVIOUS

LEMMA RestIsLess ==
    ASSUME NEW v \in Nat, NEW b \in Nat \ {0}
    PROVE  v % b <= v /\ v % b \in Nat
    <1> DEFINE q == v \div b
               r == v % b
    <1>1. v = b * q + r /\ q \in Nat /\ r \in Nat
        BY Divided
    <1> HIDE DEF q, r
    <1>2. b * q \in Nat
        BY <1>1
    <1> QED
        BY <1>1, <1>2 DEF r

(* Dividing twice is dividing by the product.                              *)
LEMMA DividedTwice ==
    ASSUME NEW v \in Nat, NEW a \in Nat \ {0}, NEW b \in Nat \ {0}
    PROVE  (v \div a) \div b = v \div (b * a)
    <1> DEFINE w == v \div a
               r == v % a
               q == w \div b
               d == w % b
    <1>1. v = a * w + r /\ w \in Nat /\ r \in 0 .. a - 1
        BY Divided
    <1>2. w = b * q + d /\ q \in Nat /\ d \in 0 .. b - 1
        BY <1>1, Divided
    <1> HIDE DEF w, r, q, d
    <1>3. v = (b * a) * q + (a * d + r)
        BY <1>1, <1>2
    <1>4. a * d + r \in Nat /\ a * d + r < b * a
        <2>1. a * d \in Nat /\ a * d <= a * (b - 1)
            BY <1>2
        <2>2. a * (b - 1) = b * a - a
            OBVIOUS
        <2> QED
            BY <1>1, <2>1, <2>2
    <1>5. b * a \in Nat \ {0}
        OBVIOUS
    <1>6. v \div (b * a) = q
        <2> DEFINE p == b * a
                   e == a * d + r
        <2>1. v = p * q + e /\ p \in Nat \ {0} /\ e \in 0 .. p - 1
            BY <1>3, <1>4, <1>5
        <2> HIDE DEF p, e
        <2>2. v \div p = q
            BY <1>2, <2>1, Euclid
        <2> QED
            BY <2>2 DEF p
    <1> QED
        BY <1>6 DEF w, q

(* One digit less is one division by Base more.                            *)
LEMMA NextDigit ==
    ASSUME NEW v \in Nat, NEW k \in Nat
    PROVE  /\ v \div Power[k] \in Nat
           /\ (v \div Power[k]) % Base \in Byte
           /\ v \div Power[k] =
                  Base * (v \div Power[k + 1]) + ((v \div Power[k]) % Base)
    <1>1. Power[k] \in Nat \ {0} /\ Base \in Nat \ {0}
        BY PowerPositive, ScalarAssumption
    <1>2. v \div Power[k] \in Nat
        BY <1>1, Divided
    <1>3. (v \div Power[k]) \div Base = v \div Power[k + 1]
        BY <1>1, DividedTwice, PowerIs
    <1> QED
        BY <1>1, <1>2, <1>3, Divided DEF Byte

-----------------------------------------------------------------------------
(* Numbers and their digits                                                *)

(* What the recursive function of Values is at every place.                *)
LEMMA ValuesAre ==
    ASSUME NEW bytes \in Seq(Byte)
    PROVE  /\ Values(bytes) \in [0 .. Len(bytes) -> Nat]
           /\ Values(bytes)[0] = 0
           /\ \A n \in 1 .. Len(bytes) :
                  Values(bytes)[n] = Base * Values(bytes)[n - 1] + bytes[n]
    <1> DEFINE L == Len(bytes)
               Is(f) == f = [n \in 0 .. L |-> IF n = 0 THEN 0 ELSE Base * f[n - 1] + bytes[n]]
    <1>1. L \in Nat /\ bytes \in [1 .. L -> Byte] /\ Byte \subseteq Nat
        BY LenProperties, ScalarAssumption DEF Byte
    <1> HIDE DEF L
    <1>2. \E f : Is(f)
        <2> DEFINE digit == [n \in Nat |-> IF n < L THEN bytes[n + 1] ELSE 0]
        <2>1. digit \in [Nat -> Nat]
            <3>1. ASSUME NEW n \in Nat, n < L PROVE bytes[n + 1] \in Nat
                <4>1. n + 1 \in 1 .. L
                    BY <1>1, <3>1
                <4> QED
                    BY <1>1, <4>1
            <3> QED
                BY <3>1
        <2>2. ASSUME NEW n \in 1 .. L PROVE digit[n - 1] = bytes[n]
            <3>1. n - 1 \in Nat /\ n - 1 < L /\ (n - 1) + 1 = n
                BY <1>1
            <3> QED
                BY <3>1
        <2> HIDE DEF digit
        <2>3. PICK f \in [Nat -> Nat] :
                  f[0] = 0 /\ \A n \in Nat : f[n + 1] = Base * f[n] + digit[n]
            <3>1. 0 \in Nat
                OBVIOUS
            <3> QED
                BY <2>1, <3>1, Recursion, Zenon
        <2> DEFINE g == [n \in 0 .. L |-> f[n]]
        <2>4. ASSUME NEW n \in 1 .. L PROVE f[n] = Base * f[n - 1] + bytes[n]
            <3>1. n - 1 \in Nat /\ (n - 1) + 1 = n
                BY <1>1
            <3>2. f[(n - 1) + 1] = Base * f[n - 1] + digit[n - 1]
                BY <2>3, <3>1
            <3> QED
                BY <2>2, <3>1, <3>2
        <2>5. ASSUME NEW n \in 0 .. L
              PROVE  f[n] = IF n = 0 THEN 0 ELSE Base * g[n - 1] + bytes[n]
            <3>1. n # 0 => n \in 1 .. L /\ g[n - 1] = f[n - 1]
                BY <1>1
            <3> QED
                BY <2>3, <2>4, <3>1
        <2>6. Is(g)
            BY <2>5
        <2> QED
            BY <2>6
    <1> DEFINE V == Values(bytes)
    <1>3. Is(V)
        <2> HIDE DEF Is
        <2>1. V = CHOOSE f : Is(f)
            BY DEF Values, Is, L
        <2> HIDE DEF V
        <2> QED
            BY <1>2, <2>1
    <1> HIDE DEF V
    <1>4. V[0] = 0 /\ \A n \in 1 .. L : V[n] = Base * V[n - 1] + bytes[n]
        BY <1>1, <1>3
    <1>5. \A n \in 0 .. L : V[n] \in Nat
        <2> DEFINE Numbers == {n \in Nat : n <= L => V[n] \in Nat}
        <2>1. 0 \in Numbers
            BY <1>4
        <2>2. ASSUME NEW n \in Nat, n \in Numbers PROVE n + 1 \in Numbers
            <3> SUFFICES ASSUME n + 1 <= L PROVE V[n + 1] \in Nat
                OBVIOUS
            <3>1. n + 1 \in 1 .. L /\ (n + 1) - 1 = n /\ V[n] \in Nat
                BY <1>1, <2>2
            <3>2. bytes[n + 1] \in Nat /\ Base \in Nat
                BY <1>1, <3>1, ScalarAssumption
            <3>3. V[n + 1] = Base * V[n] + bytes[n + 1]
                BY <1>4, <3>1
            <3> QED
                BY <3>1, <3>2, <3>3
        <2> HIDE DEF Numbers
        <2>3. Nat \subseteq Numbers
            BY <2>1, <2>2, NatSetInduction
        <2> QED
            BY <1>1, <2>3 DEF Numbers
    <1>6. V = [n \in 0 .. L |-> V[n]]
        <2>1. DOMAIN V = 0 .. L
            BY <1>3
        <2> QED
            BY <1>3, <2>1
    <1>7. V \in [0 .. L -> Nat]
        BY <1>5, <1>6
    <1> QED
        BY <1>4, <1>7 DEF V, L

(* The digits of a number are bytes.                                       *)
LEMMA DigitsType ==
    ASSUME NEW v \in Nat, NEW size \in Nat
    PROVE  /\ Digits(v, size) \in Seq(Byte)
           /\ Len(Digits(v, size)) = size
           /\ \A i \in 1 .. size : Digits(v, size)[i] = (v \div Power[size - i]) % Base
    <1>1. ASSUME NEW i \in 1 .. size PROVE (v \div Power[size - i]) % Base \in Byte
        BY NextDigit
    <1>2. Digits(v, size) \in [1 .. size -> Byte]
        BY <1>1 DEF Digits
    <1> QED
        BY <1>2 DEF Digits

(* A number below Power[n] is what n bytes can say.                        *)
LEMMA ValueBounded ==
    ASSUME NEW bytes \in Seq(Byte)
    PROVE  \A n \in 0 .. Len(bytes) : Values(bytes)[n] < Power[n]
    <1> DEFINE L == Len(bytes)
               V == Values(bytes)
               Below == {n \in Nat : n <= L => V[n] < Power[n]}
    <1>1. /\ L \in Nat
          /\ \A n \in 1 .. L : bytes[n] \in Byte
          /\ V \in [0 .. L -> Nat]
          /\ V[0] = 0
          /\ \A n \in 1 .. L : V[n] = Base * V[n - 1] + bytes[n]
        BY ValuesAre, LenProperties
    <1> HIDE DEF L, V
    <1>2. 0 \in Below
        BY <1>1, PowerIs
    <1>3. ASSUME NEW n \in Nat, n \in Below PROVE n + 1 \in Below
        <2> SUFFICES ASSUME n + 1 <= L PROVE V[n + 1] < Power[n + 1]
            OBVIOUS
        <2>1. n \in 0 .. L /\ n + 1 \in 1 .. L /\ (n + 1) - 1 = n
            BY <1>1
        <2>2. V[n] \in Nat /\ V[n] < Power[n] /\ Power[n] \in Nat
            BY <1>1, <1>3, <2>1, PowerPositive
        <2>3. V[n + 1] = Base * V[n] + bytes[n + 1] /\ bytes[n + 1] \in Byte
            BY <1>1, <2>1
        <2>4. Power[n + 1] = Base * Power[n]
            BY PowerIs
        <2> DEFINE p == Power[n]
                   w == V[n]
                   d == bytes[n + 1]
        <2> HIDE DEF p, w, d
        <2>5. Base * w + d < Base * p
            <3>1. p \in Nat /\ w \in Nat /\ w <= p - 1 /\ d \in 0 .. Base - 1
                BY <2>2, <2>3 DEF p, w, d, Byte
            <3>2. Base * w <= Base * (p - 1)
                BY <3>1, ScalarAssumption
            <3>3. Base * (p - 1) = Base * p - Base
                BY <3>1, ScalarAssumption
            <3> QED
                BY <3>1, <3>2, <3>3, ScalarAssumption
        <2> QED
            BY <2>3, <2>4, <2>5 DEF p, w, d
    <1> HIDE DEF Below
    <1>4. Nat \subseteq Below
        BY <1>2, <1>3, NatSetInduction
    <1> QED
        BY <1>1, <1>4 DEF Below, L, V

(* The first n of some bytes are the value of all of them, divided.        *)
LEMMA ValueDivided ==
    ASSUME NEW bytes \in Seq(Byte)
    PROVE  \A n \in 0 .. Len(bytes) :
               Value(bytes) \div Power[n] = Values(bytes)[Len(bytes) - n]
    <1> DEFINE L == Len(bytes)
               V == Values(bytes)
               Rest == {n \in Nat : n <= L => V[L] \div Power[n] = V[L - n]}
    <1>1. /\ L \in Nat
          /\ \A n \in 1 .. L : bytes[n] \in Byte
          /\ V \in [0 .. L -> Nat]
          /\ \A n \in 1 .. L : V[n] = Base * V[n - 1] + bytes[n]
        BY ValuesAre, LenProperties
    <1> HIDE DEF L, V
    <1>2. 0 \in Rest
        BY <1>1, PowerIs
    <1>3. ASSUME NEW n \in Nat, n \in Rest PROVE n + 1 \in Rest
        <2> SUFFICES ASSUME n + 1 <= L PROVE V[L] \div Power[n + 1] = V[L - (n + 1)]
            OBVIOUS
        <2>1. L - n \in 1 .. L /\ (L - n) - 1 = L - (n + 1) /\ L - (n + 1) \in 0 .. L
            BY <1>1
        <2>2. V[L - n] = Base * V[L - (n + 1)] + bytes[L - n]
            BY <1>1, <2>1
        <2>3. V[L - (n + 1)] \in Nat /\ bytes[L - n] \in 0 .. Base - 1 /\ Base \in Nat \ {0}
            BY <1>1, <2>1, ScalarAssumption DEF Byte
        <2>4. V[L - n] \div Base = V[L - (n + 1)]
            BY <2>2, <2>3, Euclid
        <2>5. V[L] \in Nat /\ Power[n] \in Nat \ {0}
            BY <1>1, PowerPositive
        <2>6. (V[L] \div Power[n]) \div Base = V[L] \div (Base * Power[n])
            BY <2>3, <2>5, DividedTwice
        <2>7. n <= L
            BY <1>1
        <2>8. V[L] \div Power[n] = V[L - n]
            BY <1>3, <2>7
        <2>9. Power[n + 1] = Base * Power[n]
            BY PowerIs
        <2> QED
            BY <2>4, <2>6, <2>8, <2>9
    <1> HIDE DEF Rest
    <1>4. Nat \subseteq Rest
        BY <1>2, <1>3, NatSetInduction
    <1> QED
        BY <1>1, <1>4 DEF Rest, L, V, Value

(* Bytes are the digits of their value.                                    *)
LEMMA DigitsOfValue ==
    ASSUME NEW bytes \in Seq(Byte)
    PROVE  /\ Value(bytes) \in 0 .. Power[Len(bytes)] - 1
           /\ Digits(Value(bytes), Len(bytes)) = bytes
    <1> DEFINE L == Len(bytes)
               V == Values(bytes)
    <1>1. /\ L \in Nat
          /\ bytes \in [1 .. L -> Byte]
          /\ V \in [0 .. L -> Nat]
          /\ \A n \in 1 .. L : V[n] = Base * V[n - 1] + bytes[n]
        BY ValuesAre, LenProperties
    <1>2. Value(bytes) = V[L] /\ V[L] < Power[L] /\ Power[L] \in Nat
        BY <1>1, ValueBounded, PowerPositive DEF Value
    <1>3. \A n \in 0 .. L : Value(bytes) \div Power[n] = V[L - n]
        BY ValueDivided
    <1> HIDE DEF L, V
    <1>4. Value(bytes) \in 0 .. Power[L] - 1
        BY <1>1, <1>2
    <1>5. ASSUME NEW i \in 1 .. L PROVE (Value(bytes) \div Power[L - i]) % Base = bytes[i]
        <2>1. L - i \in 0 .. L /\ L - (L - i) = i /\ i - 1 \in 0 .. L
            BY <1>1
        <2>2. Value(bytes) \div Power[L - i] = Base * V[i - 1] + bytes[i]
            BY <1>1, <1>3, <2>1
        <2>3. V[i - 1] \in Nat /\ bytes[i] \in 0 .. Base - 1 /\ Base \in Nat \ {0}
            BY <1>1, <2>1, ScalarAssumption DEF Byte
        <2> QED
            BY <2>2, <2>3, Euclid
    <1>6. Digits(Value(bytes), L) = bytes
        BY <1>1, <1>5 DEF Digits
    <1> QED
        BY <1>4, <1>6 DEF L

(* The digits of a number say that number, but for what more digits than   *)
(* there are would say.                                                    *)
LEMMA ValueOfDigits ==
    ASSUME NEW v \in Nat, NEW size \in Nat
    PROVE  Value(Digits(v, size)) = v % Power[size]
    <1> DEFINE D == Digits(v, size)
               V == Values(D)
               high == v \div Power[size]
               Split == {n \in Nat :
                            n <= size => v \div Power[size - n] = Power[n] * high + V[n]}
    <1>1. /\ D \in Seq(Byte)
          /\ Len(D) = size
          /\ \A n \in 1 .. size : D[n] = (v \div Power[size - n]) % Base
        BY DigitsType
    <1>2. /\ V \in [0 .. size -> Nat]
          /\ V[0] = 0
          /\ \A n \in 1 .. size : V[n] = Base * V[n - 1] + D[n]
          /\ V[size] < Power[size]
        BY <1>1, ValuesAre, ValueBounded
    <1>3. high \in Nat
        BY PowerPositive, Divided
    <1>4. Value(D) = V[size]
        BY <1>1 DEF Value
    <1> HIDE DEF D, V, high
    <1>5. 0 \in Split
        BY <1>2, <1>3, PowerIs DEF high
    <1>6. ASSUME NEW n \in Nat, n \in Split PROVE n + 1 \in Split
        <2> SUFFICES ASSUME n + 1 <= size
                     PROVE  v \div Power[size - (n + 1)] = Power[n + 1] * high + V[n + 1]
            OBVIOUS
        <2> DEFINE k == size - (n + 1)
        <2>1. k \in Nat /\ k + 1 = size - n /\ n + 1 \in 1 .. size /\ (n + 1) - 1 = n
            OBVIOUS
        <2>2. v \div Power[k] = Base * (v \div Power[k + 1]) + ((v \div Power[k]) % Base)
            BY <2>1, NextDigit
        <2>3. v \div Power[k + 1] = Power[n] * high + V[n]
            BY <1>6, <2>1
        <2>4. V[n + 1] = Base * V[n] + ((v \div Power[k]) % Base)
            BY <1>1, <1>2, <2>1
        <2>5. Power[n + 1] = Base * Power[n]
            BY PowerIs
        <2> DEFINE p == Power[n]
                   w == V[n]
                   d == (v \div Power[k]) % Base
        <2>6. p \in Nat /\ w \in Nat /\ d \in Nat /\ Base \in Nat
            <3>1. d \in 0 .. Base - 1
                BY <2>1, NextDigit DEF Byte
            <3>2. n \in 0 .. size
                BY <2>1
            <3>3. p \in Nat /\ w \in Nat
                BY <1>2, <3>2, PowerPositive
            <3> QED
                BY <3>1, <3>3, ScalarAssumption
        <2>7. /\ v \div Power[k] = Base * (p * high + w) + d
              /\ V[n + 1] = Base * w + d
              /\ Power[n + 1] = Base * p
            BY <2>2, <2>3, <2>4, <2>5
        <2> HIDE DEF p, w, d, k
        <2>8. Base * (p * high + w) + d = (Base * p) * high + (Base * w + d)
            BY <1>3, <2>6
        <2> QED
            BY <2>7, <2>8 DEF k
    <1> HIDE DEF Split
    <1>7. Nat \subseteq Split
        BY <1>5, <1>6, NatSetInduction
    <1>8. v = Power[size] * high + V[size]
        <2>1. v \div Power[size - size] = v
            BY PowerIs
        <2> QED
            BY <1>7, <2>1 DEF Split
    <1>9. v % Power[size] = V[size]
        <2> DEFINE p == Power[size]
                   r == V[size]
        <2>1. p \in Nat \ {0} /\ r \in 0 .. p - 1 /\ v = p * high + r
            BY <1>2, <1>8, PowerPositive
        <2> HIDE DEF p, r
        <2> QED
            BY <1>3, <2>1, Euclid DEF p, r
    <1> QED
        BY <1>4, <1>9 DEF D

(* So a number that fits is what its digits say.                           *)
LEMMA ValueOfAllDigits ==
    ASSUME NEW size \in Nat, NEW v \in 0 .. Power[size] - 1
    PROVE  Value(Digits(v, size)) = v
    <1>1. v \in Nat /\ Power[size] \in Nat \ {0}
        BY PowerPositive
    <1>2. v % Power[size] = v
        <2> DEFINE p == Power[size]
        <2>1. p \in Nat \ {0} /\ v \in 0 .. p - 1
            BY <1>1
        <2> HIDE DEF p
        <2>2. (p * 0 + v) % p = v
            BY <2>1, Euclid
        <2> QED
            BY <2>1, <2>2 DEF p
    <1> QED
        BY <1>1, <1>2, ValueOfDigits

(* Zeros in front of a number do not change it.                            *)
LEMMA ValueBehindZeros ==
    ASSUME NEW bytes \in Seq(Byte)
    PROVE  /\ <<0, 0>> \o bytes \in Seq(Byte)
           /\ Len(<<0, 0>> \o bytes) = Len(bytes) + 2
           /\ Value(<<0, 0>> \o bytes) = Value(bytes)
    <1> DEFINE L == Len(bytes)
               longer == <<0, 0>> \o bytes
               V == Values(bytes)
               W == Values(longer)
               Same == {n \in Nat : n <= L => W[n + 2] = V[n]}
    <1>1. L \in Nat /\ 0 \in Byte
        BY LenProperties, ScalarAssumption DEF Byte
    <1>2. <<0, 0>> \in Seq(Byte) /\ Len(<<0, 0>>) = 2
        BY <1>1
    <1>3. /\ longer \in Seq(Byte)
          /\ Len(longer) = L + 2
          /\ longer[1] = 0 /\ longer[2] = 0
          /\ \A n \in 1 .. L : longer[n + 2] = bytes[n]
        BY <1>1, <1>2
    <1> HIDE DEF longer
    <1>4. /\ V \in [0 .. L -> Nat]
          /\ V[0] = 0
          /\ \A n \in 1 .. L : V[n] = Base * V[n - 1] + bytes[n]
        BY ValuesAre
    <1>5. /\ W \in [0 .. L + 2 -> Nat]
          /\ W[0] = 0
          /\ \A n \in 1 .. L + 2 : W[n] = Base * W[n - 1] + longer[n]
        BY <1>3, ValuesAre
    <1>6. Value(bytes) = V[L] /\ Value(longer) = W[L + 2]
        BY <1>3 DEF Value
    <1> HIDE DEF L, V, W
    <1>7. 0 \in Same
        <2>1. 1 \in 1 .. L + 2 /\ 2 \in 1 .. L + 2
            BY <1>1
        <2>2. W[1] = Base * W[0] + 0 /\ W[2] = Base * W[1] + 0
            BY <1>3, <1>5, <2>1
        <2> QED
            BY <1>4, <1>5, <2>2, ScalarAssumption
    <1>8. ASSUME NEW n \in Nat, n \in Same PROVE n + 1 \in Same
        <2> SUFFICES ASSUME n + 1 <= L PROVE W[(n + 1) + 2] = V[n + 1]
            OBVIOUS
        <2>1. n + 1 \in 1 .. L /\ (n + 1) - 1 = n /\ (n + 1) + 2 \in 1 .. L + 2
              /\ ((n + 1) + 2) - 1 = n + 2
            BY <1>1
        <2>2. W[(n + 1) + 2] = Base * W[n + 2] + longer[(n + 1) + 2]
            BY <1>5, <2>1
        <2>3. V[n + 1] = Base * V[n] + bytes[n + 1]
            BY <1>4, <2>1
        <2>4. longer[(n + 1) + 2] = bytes[n + 1] /\ W[n + 2] = V[n]
            <3>1. n <= L /\ (n + 1) + 2 = (n + 2) + 1
                BY <1>1
            <3>2. W[n + 2] = V[n]
                BY <1>8, <3>1
            <3> QED
                BY <1>3, <2>1, <3>2
        <2> QED
            BY <2>2, <2>3, <2>4
    <1> HIDE DEF Same
    <1>9. Nat \subseteq Same
        BY <1>7, <1>8, NatSetInduction
    <1> QED
        BY <1>1, <1>3, <1>6, <1>9 DEF Same, longer, L

-----------------------------------------------------------------------------
(* The memory of a host                                                    *)
LEMMA ReverseTwice ==
    ASSUME NEW s \in Seq(Byte)
    PROVE  Reverse(s) \in Seq(Byte) /\ Len(Reverse(s)) = Len(s) /\ Reverse(Reverse(s)) = s
    <1> DEFINE L == Len(s)
               t == Reverse(s)
    <1>1. L \in Nat /\ s \in [1 .. L -> Byte]
        BY LenProperties
    <1>2. t = [i \in 1 .. L |-> s[(L - i) + 1]]
        BY DEF Reverse
    <1> HIDE DEF L, t
    <1>3. \A i \in 1 .. L : (L - i) + 1 \in 1 .. L /\ (L - ((L - i) + 1)) + 1 = i
        BY <1>1
    <1>4. t \in [1 .. L -> Byte]
        BY <1>1, <1>2, <1>3
    <1>5. t \in Seq(Byte) /\ Len(t) = L
        BY <1>1, <1>4
    <1>6. Reverse(t) = [i \in 1 .. L |-> t[(L - i) + 1]]
        BY <1>5 DEF Reverse
    <1>7. ASSUME NEW i \in 1 .. L PROVE t[(L - i) + 1] = s[i]
        BY <1>2, <1>3
    <1>8. Reverse(t) = s
        BY <1>1, <1>6, <1>7
    <1> QED
        BY <1>5, <1>8 DEF t, L

(* A host takes out of its memory the number it has put there.             *)
LEMMA NumberOfMemory ==
    ASSUME NEW size \in Nat, NEW v \in 0 .. Power[size] - 1, NEW order
    PROVE  /\ Memory(v, size, order) \in Seq(Byte)
           /\ Len(Memory(v, size, order)) = size
           /\ Number(Memory(v, size, order), order) = v
    <1>1. v \in Nat
        BY PowerPositive
    <1>2. Digits(v, size) \in Seq(Byte) /\ Len(Digits(v, size)) = size
        BY <1>1, DigitsType
    <1>3. Value(Digits(v, size)) = v
        BY ValueOfAllDigits
    <1>4. CASE order = "big"
        BY <1>2, <1>3, <1>4 DEF Memory, Number
    <1>5. CASE order # "big"
        BY <1>2, <1>3, <1>5, ReverseTwice DEF Memory, Number
    <1> QED
        BY <1>4, <1>5

(* And finds in its memory the bytes it has taken for a number.            *)
LEMMA MemoryOfNumber ==
    ASSUME NEW bytes \in Seq(Byte), NEW order
    PROVE  /\ Number(bytes, order) \in 0 .. Power[Len(bytes)] - 1
           /\ Memory(Number(bytes, order), Len(bytes), order) = bytes
    <1>1. CASE order = "big"
        BY <1>1, DigitsOfValue DEF Memory, Number
    <1>2. CASE order # "big"
        <2> DEFINE t == Reverse(bytes)
        <2>1. t \in Seq(Byte) /\ Len(t) = Len(bytes) /\ Reverse(t) = bytes
            BY ReverseTwice
        <2> HIDE DEF t
        <2>2. Value(t) \in 0 .. Power[Len(t)] - 1 /\ Digits(Value(t), Len(t)) = t
            BY <2>1, DigitsOfValue
        <2>3. Number(bytes, order) = Value(t)
            BY <1>2 DEF Number, t
        <2> QED
            BY <1>2, <2>1, <2>2, <2>3 DEF Memory
    <1> QED
        BY <1>1, <1>2

(* boost::endian: converting gives the bytes of the one order a number of  *)
(* the other, whose memory they are.                                       *)
LEMMA MemoryOfConverted ==
    ASSUME NEW size \in Nat, NEW v \in 0 .. Power[size] - 1, NEW order, NEW h
    PROVE  /\ Converted(v, size, order, h) \in 0 .. Power[size] - 1
           /\ Memory(Converted(v, size, order, h), size, h) = Memory(v, size, order)
    <1> DEFINE m == Memory(v, size, order)
    <1>1. m \in Seq(Byte) /\ Len(m) = size
        BY NumberOfMemory
    <1> HIDE DEF m
    <1>2. /\ Number(m, h) \in 0 .. Power[size] - 1
          /\ Memory(Number(m, h), size, h) = m
        BY <1>1, MemoryOfNumber
    <1> QED
        BY <1>2 DEF m, Converted

(* And the other way: the bytes of a host's number are read in any order.  *)
LEMMA ConvertedNumber ==
    ASSUME NEW bytes \in Seq(Byte), NEW h, NEW order
    PROVE  Converted(Number(bytes, h), Len(bytes), h, order) = Number(bytes, order)
    BY MemoryOfNumber DEF Converted

-----------------------------------------------------------------------------
(* The codecs                                                              *)

(* What is sent of a timestamp are its six lower bytes, on every host.     *)
LEMMA EncodeTimestampIs ==
    ASSUME NEW v \in 0 .. Power[8] - 1, NEW h
    PROVE  EncodeTimestamp(v, h) = Digits(v, 6)
    <1>1. v \in Nat
        BY PowerPositive
    <1>2. EncodeTimestamp(v, h) = SubSeq(Digits(v, 8), 3, 8)
        BY MemoryOfConverted DEF EncodeTimestamp, Memory
    <1>3. \A i \in 1 .. 6 : Digits(v, 8)[i + 2] = (v \div Power[6 - i]) % Base
        <2>1. ASSUME NEW i \in 1 .. 6
              PROVE  Digits(v, 8)[i + 2] = (v \div Power[6 - i]) % Base
            <3>1. i + 2 \in 1 .. 8 /\ 8 - (i + 2) = 6 - i
                OBVIOUS
            <3>2. Digits(v, 8)[i + 2] = (v \div Power[8 - (i + 2)]) % Base
                BY <1>1, <3>1, DigitsType
            <3> QED
                BY <3>1, <3>2
        <2> QED
            BY <2>1
    <1> DEFINE D == Digits(v, 8)
    <1>4. D \in Seq(Byte) /\ Len(D) = 8
        BY <1>1, DigitsType
    <1> HIDE DEF D
    <1>5. SubSeq(D, 3, 8) = [i \in 1 .. 6 |-> D[i + 2]]
        BY <1>4
    <1>6. Digits(v, 6) = [i \in 1 .. 6 |-> (v \div Power[6 - i]) % Base]
        BY DEF Digits
    <1> QED
        BY <1>2, <1>3, <1>5, <1>6 DEF D

(* From these every host makes the timestamp without its upper bytes.      *)
LEMMA DecodeTimestampIs ==
    ASSUME NEW v \in Nat, NEW h
    PROVE  DecodeTimestamp(Digits(v, 6), h) = v % Power[6]
    <1> DEFINE D == Digits(v, 6)
               longer == <<0, 0>> \o D
    <1>1. D \in Seq(Byte) /\ Len(D) = 6 /\ Value(D) = v % Power[6]
        BY DigitsType, ValueOfDigits
    <1> HIDE DEF D
    <1>2. longer \in Seq(Byte) /\ Len(longer) = Len(D) + 2 /\ Value(longer) = Value(D)
        BY <1>1, ValueBehindZeros
    <1>3. Len(longer) = 8
        BY <1>1, <1>2
    <1>4. DecodeTimestamp(D, h) = Converted(Number(longer, h), 8, h, "big")
        BY DEF DecodeTimestamp
    <1> HIDE DEF longer
    <1>5. Converted(Number(longer, h), 8, h, "big") = Number(longer, "big")
        BY <1>2, <1>3, ConvertedNumber
    <1> QED
        BY <1>1, <1>2, <1>4, <1>5 DEF D, Number

(* The six lower bytes of a timestamp are those of the number they say.    *)
LEMMA DigitsOfRest ==
    ASSUME NEW v \in Nat, NEW size \in Nat
    PROVE  Digits(v % Power[size], size) = Digits(v, size)
    BY DigitsType, ValueOfDigits, DigitsOfValue

(* A number of any host arrives as that number on any other.               *)
LEMMA NumberArrives ==
    ASSUME NEW raw \in Optionals, NEW sender, NEW receiver
    PROVE  DecodeNumber(EncodeNumber(raw, sender), receiver) = raw
    <1> DEFINE m == Memory(raw, Size, "little")
    <1>1. Size \in Nat /\ raw \in 0 .. Power[Size] - 1
        BY ScalarAssumption DEF Optionals
    <1>2. EncodeNumber(raw, sender) = m
        BY <1>1, MemoryOfConverted DEF EncodeNumber
    <1>3. m \in Seq(Byte) /\ Len(m) = Size /\ Number(m, "little") = raw
        BY <1>1, NumberOfMemory
    <1> HIDE DEF m
    <1>4. Converted(Number(m, receiver), Size, receiver, "little") = Number(m, "little")
        BY <1>3, ConvertedNumber
    <1> QED
        BY <1>2, <1>3, <1>4 DEF DecodeNumber

-----------------------------------------------------------------------------
(* What a program holds and what it has sent, however many programs the    *)
(* value has come through.                                                 *)
Fresh == held = origin /\ wire = << >>

Timestamps ==
    codec = "timestamp" =>
        /\ origin \in 0 .. Power[8] - 1
        /\ pc = "held" => Fresh \/ held = origin % Power[6]
        /\ pc = "sent" => wire = Digits(origin, 6)

(* The number that stands for what the first program had.                  *)
Carried == Stored(origin, null)

NumbersSent ==
    codec = "optional" =>
        /\ null \in Optionals
        /\ origin \in Optionals \union {None}
        /\ pc = "held" => Fresh \/ held = ValueOf(Carried, null)
        /\ pc = "sent" => \E h \in Hosts : wire = EncodeNumber(Carried, h)

IInv ==
    /\ codec \in {"timestamp", "optional"}
    /\ pc \in {"held", "sent"}
    /\ host \in Hosts
    /\ Timestamps
    /\ NumbersSent

LEMMA InitIInv == Init => IInv
    BY DEF Init, IInv, Timestamps, NumbersSent, Fresh

LEMMA EncodeKeeps == ASSUME IInv, Encode PROVE IInv'
    <1> USE DEF IInv, Encode
    <1>1. ASSUME codec = "timestamp" PROVE wire' = Digits(origin, 6)
        <2>1. wire' = EncodeTimestamp(held, host)
            BY <1>1
        <2>2. origin \in 0 .. Power[8] - 1 /\ origin \in Nat
            BY <1>1, PowerPositive DEF Timestamps
        <2>3. CASE held = origin
            BY <2>1, <2>2, <2>3, EncodeTimestampIs
        <2>4. CASE held = origin % Power[6]
            <3>1. held \in 0 .. Power[8] - 1
                <4>1. Power[6] \in Nat \ {0} /\ Power[8] \in Nat
                    BY PowerPositive
                <4>2. origin % Power[6] <= origin /\ origin % Power[6] \in Nat
                    BY <2>2, <4>1, RestIsLess
                <4> QED
                    BY <2>2, <2>4, <4>1, <4>2
            <3>2. EncodeTimestamp(held, host) = Digits(held, 6)
                BY <3>1, EncodeTimestampIs
            <3> QED
                BY <2>1, <2>2, <2>4, <3>2, DigitsOfRest
        <2> QED
            BY <1>1, <2>3, <2>4 DEF Timestamps, Fresh
    <1>2. ASSUME codec = "optional" PROVE \E h \in Hosts : wire' = EncodeNumber(Carried, h)
        <2>1. Stored(held, null) = Carried
            BY <1>2, ScalarAssumption DEF NumbersSent, Fresh, Carried, Stored, ValueOf, Optionals
        <2> QED
            BY <1>2, <2>1
    <1> QED
        BY <1>1, <1>2 DEF Timestamps, NumbersSent, Carried

LEMMA DecodeKeeps == ASSUME IInv, NEW h \in Hosts, Decode(h) PROVE IInv'
    <1> USE DEF IInv, Decode
    <1>1. ASSUME codec = "timestamp" PROVE held' = origin % Power[6]
        <2>1. wire = Digits(origin, 6) /\ origin \in Nat
            BY <1>1, PowerPositive DEF Timestamps
        <2> QED
            BY <1>1, <2>1, DecodeTimestampIs
    <1>2. ASSUME codec = "optional" PROVE held' = ValueOf(Carried, null)
        <2>1. PICK s \in Hosts : wire = EncodeNumber(Carried, s)
            BY <1>2 DEF NumbersSent
        <2>2. Carried \in Optionals
            BY <1>2 DEF NumbersSent, Carried, Stored
        <2>3. DecodeNumber(wire, h) = Carried
            BY <2>1, <2>2, NumberArrives
        <2> QED
            BY <1>2, <2>3
    <1> QED
        BY <1>1, <1>2 DEF Timestamps, NumbersSent, Carried

LEMMA StutterKeeps == ASSUME IInv, UNCHANGED vars PROVE IInv'
    BY DEF vars, IInv, Timestamps, NumbersSent, Fresh, Carried

(* The inductive invariant holds in every reachable state.                 *)
THEOREM Invariance == Spec => []IInv
    <1>1. IInv /\ [Next]_vars => IInv'
        BY EncodeKeeps, DecodeKeeps, StutterKeeps DEF Next
    <1> QED
        BY InitIInv, <1>1, PTL DEF Spec

(* What a receiver has of a timestamp is its six lower bytes, for every    *)
(* timestamp and every chain of hosts.                                     *)
THEOREM TimestampCorrect == Spec => []TimestampCarried
    <1>1. IInv => TimestampCarried
        BY DEF IInv, Timestamps, Fresh, TimestampCarried
    <1> QED
        BY Invariance, <1>1, PTL

(* What a receiver has of an optional is what was sent, or nothing if that *)
(* was the number that stands for nothing, whichever number this is.       *)
THEOREM OptionalCorrect == Spec => []OptionalCarried
    <1>1. IInv => OptionalCarried
        BY ScalarAssumption
        DEF IInv, NumbersSent, Fresh, Carried, Stored, ValueOf, Optionals, OptionalCarried
    <1> QED
        BY Invariance, <1>1, PTL
=============================================================================
