----------------------- MODULE TransactionRecord_proofs -----------------------
(***************************************************************************)
(* Money, its spelling, and the records of an operation.                   *)
(*                                                                         *)
(* Money is exact, or refused, whatever the width of its integers: a       *)
(* wrapped sum has lost or gained twice the range of one operand, so it is *)
(* on the wrong side of the other.  An amount has one accepted text: the   *)
(* value of a number is followed digit by digit, by the least counter-     *)
(* example to what is claimed of its prefixes.  On these rests what is     *)
(* shown of the records: that each form of an operation can be made into   *)
(* the next one, and says the same.                                        *)
(***************************************************************************)
EXTENDS TransactionRecord, SequenceTheorems, WellFoundedInduction, TLAPS

LEMMA WrappedSum ==
    ASSUME NEW a \in Cents, NEW b \in Cents, NEW x \in {a + b, a - b}
    PROVE  /\ Wrapped(x) \in Int
           /\ x \in Cents => Wrapped(x) = x
           /\ x > Top => Wrapped(x) = x - 2 * (Top + 1)
           /\ x < -Top - 1 => Wrapped(x) = x + 2 * (Top + 1)
  BY WidthAssumption DEF Wrapped, Cents

\* Add returns the exact sum, or an error when an int64 cannot hold it.
LEMMA AddIsExact ==
    ASSUME NEW m \in Money, NEW n \in Money, SameCurrency(m, n)
    PROVE  Exactly(Add(m, n), m.cents + n.cents, m)
<1> DEFINE sum == m.cents + n.cents
<1>1. m.cents \in Cents /\ n.cents \in Cents /\ sum \in Int
  BY WidthAssumption DEF Money, Cents
<1>2. CASE sum \in Cents
  <2>1. Wrapped(sum) = sum
    BY <1>1, <1>2, WrappedSum
  <2> QED
    BY <1>1, <1>2, <2>1, WidthAssumption DEF Add, Exactly, Cents
<1>3. CASE sum > Top
  <2>1. Wrapped(sum) = sum - 2 * (Top + 1)
    BY <1>1, <1>3, WrappedSum
  <2>2. n.cents > 0 /\ Wrapped(sum) < m.cents /\ sum \notin Cents
    BY <1>1, <1>3, <2>1, WidthAssumption DEF Cents
  <2> QED
    BY <2>2 DEF Add, Exactly
<1>4. CASE sum < -Top - 1
  <2>1. Wrapped(sum) = sum + 2 * (Top + 1)
    BY <1>1, <1>4, WrappedSum
  <2>2. n.cents < 0 /\ Wrapped(sum) > m.cents /\ sum \notin Cents
    BY <1>1, <1>4, <2>1, WidthAssumption DEF Cents
  <2> QED
    BY <2>2 DEF Add, Exactly
<1> QED
  BY <1>1, <1>2, <1>3, <1>4, WidthAssumption DEF Cents

\* Subtract returns the exact difference, or an error.
LEMMA SubtractIsExact ==
    ASSUME NEW m \in Money, NEW n \in Money, SameCurrency(m, n)
    PROVE  Exactly(Subtract(m, n), m.cents - n.cents, m)
<1> DEFINE diff == m.cents - n.cents
<1>1. m.cents \in Cents /\ n.cents \in Cents /\ diff \in Int
  BY WidthAssumption DEF Money, Cents
<1>2. CASE diff \in Cents
  <2>1. Wrapped(diff) = diff
    BY <1>1, <1>2, WrappedSum
  <2> QED
    BY <1>1, <1>2, <2>1, WidthAssumption DEF Subtract, Exactly, Cents
<1>3. CASE diff > Top
  <2>1. Wrapped(diff) = diff - 2 * (Top + 1)
    BY <1>1, <1>3, WrappedSum
  <2>2. n.cents < 0 /\ Wrapped(diff) < m.cents /\ diff \notin Cents
    BY <1>1, <1>3, <2>1, WidthAssumption DEF Cents
  <2> QED
    BY <2>2 DEF Subtract, Exactly
<1>4. CASE diff < -Top - 1
  <2>1. Wrapped(diff) = diff + 2 * (Top + 1)
    BY <1>1, <1>4, WrappedSum
  <2>2. n.cents > 0 /\ Wrapped(diff) > m.cents /\ diff \notin Cents
    BY <1>1, <1>4, <2>1, WidthAssumption DEF Cents
  <2> QED
    BY <2>2 DEF Subtract, Exactly
<1> QED
  BY <1>1, <1>2, <1>3, <1>4, WidthAssumption DEF Cents

\* Negate returns the exact opposite, or an error for the one amount without.
LEMMA NegateIsExact ==
    ASSUME NEW m \in Money, m.currency # NoCurrency
    PROVE  Exactly(Negate(m), -m.cents, m)
  BY WidthAssumption DEF Negate, Exactly, Money, Cents

\* For every width of the integers, Add, Subtract and Negate return the exact
\* result or, exactly when it does not fit, an error.
THEOREM MoneyIsExact == ArithmeticIsExact
<1>1. SUFFICES ASSUME NEW m \in Money, NEW n \in Money, SameCurrency(m, n)
               PROVE  /\ Exactly(Add(m, n), m.cents + n.cents, m)
                      /\ Exactly(Subtract(m, n), m.cents - n.cents, m)
                      /\ Exactly(Negate(m), -m.cents, m)
  BY DEF ArithmeticIsExact
<1>2. m.currency # NoCurrency
  BY <1>1 DEF SameCurrency
<1> QED
  BY <1>1, <1>2, AddIsExact, SubtractIsExact, NegateIsExact

-----------------------------------------------------------------------------

\* A debit leaves the exact rest, which the balance covered.
LEMMA DebitLeavesTheRest ==
    ASSUME NEW balance \in Money, NEW amount \in Money, balance.cents >= 0,
           Debit(balance, amount) # Refused
    PROVE  /\ amount.cents > 0 /\ SameCurrency(balance, amount)
           /\ balance.cents - amount.cents \in 0..Top
           /\ Debit(balance, amount) = [balance EXCEPT !.cents = balance.cents - amount.cents]
<1>1. balance.cents \in Cents /\ amount.cents \in Cents
  BY DEF Money
<1>2. amount.cents > 0 /\ SameCurrency(balance, amount) /\ balance.cents >= amount.cents
  BY <1>1, WidthAssumption DEF Debit, Cents
<1>3. balance.cents - amount.cents \in 0..Top /\ balance.cents - amount.cents \in Cents
  BY <1>1, <1>2, WidthAssumption DEF Cents
<1>4. Debit(balance, amount) = Subtract(balance, amount)
  BY <1>1, <1>2, WidthAssumption DEF Debit, Cents
<1> QED
  BY <1>2, <1>3, <1>4, SubtractIsExact DEF Exactly

\* A credit leaves the exact sum, which fits.
LEMMA CreditLeavesTheSum ==
    ASSUME NEW balance \in Money, NEW amount \in Money, balance.cents >= 0,
           Credit(balance, amount) # Refused
    PROVE  /\ amount.cents > 0 /\ SameCurrency(balance, amount)
           /\ balance.cents + amount.cents \in 0..Top
           /\ Credit(balance, amount) = [balance EXCEPT !.cents = balance.cents + amount.cents]
<1>1. balance.cents \in Cents /\ amount.cents \in Cents
  BY DEF Money
<1>2. amount.cents > 0 /\ Credit(balance, amount) = Add(balance, amount)
  BY <1>1, WidthAssumption DEF Credit, Cents
<1>3. SameCurrency(balance, amount)
  BY <1>2 DEF Add
<1>4. Exactly(Add(balance, amount), balance.cents + amount.cents, balance)
  BY <1>3, AddIsExact
<1>5. balance.cents + amount.cents \in Cents
  BY <1>2, <1>4 DEF Exactly
<1>6. balance.cents + amount.cents \in 0..Top
  BY <1>1, <1>2, <1>5, WidthAssumption DEF Cents
<1> QED
  BY <1>2, <1>3, <1>4, <1>5, <1>6 DEF Exactly

\* For every width of the integers, what a wallet moves is a line its ledger
\* takes, and the line explains the balance.
THEOREM MovementsAreEntries == MovementsMakeEntries
<1>1. SUFFICES ASSUME NEW balance \in Money, NEW amount \in Money, NEW direction \in Direction,
                      NEW after,
                      after = IF direction = "CREDIT" THEN Credit(balance, amount)
                                                      ELSE Debit(balance, amount),
                      balance.cents >= 0, after # Refused
               PROVE  /\ after.cents >= 0
                      /\ ValidEntry(direction, amount, balance, after)
                      /\ Add(balance, SignedAmount(direction, amount)) = after
  BY DEF MovementsMakeEntries
<1>2. /\ balance.cents \in Cents /\ amount.cents \in Cents
      /\ balance.currency \in Currency \cup {NoCurrency}
      /\ balance = [cents |-> balance.cents, currency |-> balance.currency]
      /\ amount.currency \in Currency \cup {NoCurrency}
  BY DEF Money
<1>3. CASE direction = "CREDIT"
  <2>1. after = Credit(balance, amount)
    BY <1>1, <1>3
  <2>2. /\ amount.cents > 0 /\ SameCurrency(balance, amount)
        /\ balance.cents + amount.cents \in 0..Top
        /\ after = [balance EXCEPT !.cents = balance.cents + amount.cents]
    BY <1>1, <2>1, CreditLeavesTheSum
  <2>3. after.cents = balance.cents + amount.cents /\ after.currency = balance.currency
    BY <1>2, <2>2
  <2>4. Add(balance, amount) = after
    BY <1>1, <1>2, <2>1, <2>2, WidthAssumption DEF Credit, Cents
  <2>5. ValidEntry(direction, amount, balance, after)
    BY <1>1, <1>3, <2>2, <2>3, <2>4 DEF ValidEntry, SameCurrency
  <2> QED
    BY <1>3, <2>2, <2>3, <2>4, <2>5 DEF SignedAmount
<1>4. CASE direction # "CREDIT"
  <2>1. after = Debit(balance, amount)
    BY <1>1, <1>4
  <2>2. /\ amount.cents > 0 /\ SameCurrency(balance, amount)
        /\ balance.cents - amount.cents \in 0..Top
        /\ after = [balance EXCEPT !.cents = balance.cents - amount.cents]
    BY <1>1, <2>1, DebitLeavesTheRest
  <2>3. after.cents = balance.cents - amount.cents /\ after.currency = balance.currency
    BY <1>2, <2>2
  <2>4. Subtract(balance, amount) = after
    <3>1. balance.cents - amount.cents \in Cents
      BY <2>2, WidthAssumption DEF Cents
    <3> QED
      BY <2>2, <3>1, SubtractIsExact DEF Exactly
  <2>5. ValidEntry(direction, amount, balance, after)
    BY <1>1, <1>4, <2>2, <2>3, <2>4 DEF ValidEntry, SameCurrency
  <2> DEFINE opposite == [amount EXCEPT !.cents = -amount.cents]
  <2>6. Negate(amount) = opposite /\ -amount.cents \in Cents
    BY <1>2, <2>2, WidthAssumption DEF Negate, SameCurrency, Cents
  <2>7. opposite \in Money /\ opposite.cents = -amount.cents /\ SameCurrency(balance, opposite)
    BY <2>2, <2>6 DEF Money, SameCurrency
  <2>8. Exactly(Add(balance, opposite), balance.cents + opposite.cents, balance)
    BY <2>7, AddIsExact
  <2>9. balance.cents + opposite.cents = balance.cents - amount.cents
        /\ balance.cents - amount.cents \in Cents
    BY <1>2, <2>2, <2>7, WidthAssumption DEF Cents
  <2> QED
    BY <1>4, <2>2, <2>3, <2>5, <2>6, <2>8, <2>9 DEF Exactly, SignedAmount
<1> QED
  BY <1>3, <1>4

-----------------------------------------------------------------------------
(***************************************************************************)
(* The spelling of amounts.                                                *)
(***************************************************************************)

\* The induction of this module: a set of naturals has a least element.
LEMMA LeastNatural ==
    ASSUME NEW S \in SUBSET Nat, S # {}
    PROVE  \E m \in S : \A k \in S : m <= k
<1>1. PICK m \in S : \A k \in S : ~(<<k, m>> \in OpToRel(<, Nat))
  BY NatLessThanWellFounded, WFMin
<1>2. \A k \in S : k \in Nat /\ m \in Nat /\ ~(k < m)
  BY <1>1 DEF OpToRel
<1>. QED BY <1>2

LEMMA Digits == Base \in Nat \ {0, 1} /\ Digit \subseteq Nat /\ \A d \in Digit : d < Base
BY TextAssumption DEF Digit

LEMMA OneMoreDigit ==
    ASSUME NEW a \in Nat, NEW x \in Nat
    PROVE  Base * a + x \in Nat
<1>1. Base \in Nat
  BY Digits
<1>2. Base * a \in Nat
  BY <1>1
<1>. QED BY <1>2

\* The values of the prefixes of a number.
LEMMA ValueOfPrefixes ==
    ASSUME NEW s \in Seq(Digit)
    PROVE  \E v \in [0..Len(s) -> Nat] :
              /\ v[0] = 0 /\ v[Len(s)] = ValueOf(s)
              /\ \A i \in 1..Len(s) : v[i] = Base * v[i - 1] + s[i]
<1>. DEFINE n == Len(s)
            step(f, i) == IF i = 0 THEN 0 ELSE Base * f[i - 1] + s[i]
            Partial(m) == \E v \in [0..m -> Nat] : \A i \in 0..m : v[i] = step(v, i)
            h == CHOOSE f : f = [i \in 0..n |-> step(f, i)]
<1>1. n \in Nat /\ \A i \in 1..n : s[i] \in Nat
  <2>1. n \in Nat /\ \A i \in 1..n : s[i] \in Digit
    OBVIOUS
  <2>. QED BY <2>1, Digits
<1>2. \A m \in 0..n : Partial(m)
  <2>. DEFINE D == {m \in 0..n : ~Partial(m)}
  <2>. SUFFICES ASSUME D # {}  PROVE FALSE
    OBVIOUS
  <2>1. D \in SUBSET Nat
    BY <1>1
  <2>. HIDE DEF Partial
  <2>2. PICK m \in D : \A k \in D : m <= k
    BY <2>1, LeastNatural
  <2>3. CASE m = 0
    <3>. DEFINE v == [i \in 0..0 |-> 0]
    <3>1. v \in [0..0 -> Nat] /\ \A i \in 0..0 : v[i] = step(v, i)
      OBVIOUS
    <3>2. Partial(0)
      BY <3>1 DEF Partial
    <3>. QED BY <2>2, <2>3, <3>2
  <2>4. CASE m # 0
    <3>1. m \in 1..n /\ m - 1 \in 0..n /\ m - 1 \notin D
      BY <1>1, <2>2, <2>4
    <3>2. PICK u \in [0..(m - 1) -> Nat] : \A i \in 0..(m - 1) : u[i] = step(u, i)
      BY <3>1 DEF Partial
    <3>. DEFINE last == Base * u[m - 1] + s[m]
                v == [i \in 0..m |-> IF i = m THEN last ELSE u[i]]
    <3>3. last \in Nat
      <4>1. u[m - 1] \in Nat /\ s[m] \in Nat
        BY <1>1, <3>1
      <4>. QED BY <4>1, OneMoreDigit
    <3>4. v \in [0..m -> Nat]
      BY <3>1, <3>3
    <3>5. \A i \in 0..m : v[i] = step(v, i)
      BY <3>1, <3>2
    <3>6. Partial(m)
      BY <3>4, <3>5 DEF Partial
    <3>. QED BY <2>2, <3>6
  <2>. QED BY <2>3, <2>4
<1>3. h = [i \in 0..n |-> step(h, i)]
  <2>1. PICK v \in [0..n -> Nat] : \A i \in 0..n : v[i] = step(v, i)
    <3>1. n \in 0..n
      BY <1>1
    <3>2. Partial(n)
      BY <1>2, <3>1
    <3>. QED BY <3>2
  <2>2. v = [i \in 0..n |-> step(v, i)]
    BY <2>1
  <2>. QED BY <2>2
<1>4. ValueOf(s) = h[n]
  BY DEF ValueOf
<1>. HIDE DEF h
<1>5. \A i \in 0..n : h[i] = step(h, i)
  BY <1>3
<1>6. \A i \in 0..n : h[i] \in Nat
  <2>. DEFINE D == {i \in 0..n : h[i] \notin Nat}
  <2>. SUFFICES ASSUME D # {}  PROVE FALSE
    OBVIOUS
  <2>1. D \in SUBSET Nat
    BY <1>1
  <2>2. PICK m \in D : \A k \in D : m <= k
    BY <2>1, LeastNatural
  <2>3. CASE m = 0
    BY <1>5, <2>2, <2>3
  <2>4. CASE m # 0
    <3>1. m \in 1..n /\ m - 1 \in 0..n /\ m - 1 \notin D
      BY <1>1, <2>2, <2>4
    <3>2. h[m] = Base * h[m - 1] + s[m] /\ h[m - 1] \in Nat
      BY <1>5, <3>1
    <3>3. h[m] \in Nat
      BY <1>1, <3>1, <3>2, OneMoreDigit
    <3>. QED BY <2>2, <3>3
  <2>. QED BY <2>3, <2>4
<1>7. h \in [0..n -> Nat]
  BY <1>3, <1>6
<1>8. /\ h[0] = 0
      /\ \A i \in 1..n : h[i] = Base * h[i - 1] + s[i]
  BY <1>1, <1>5
<1>. QED BY <1>4, <1>7, <1>8

\* Two numbers with one value end in the same digit.
LEMMA LastDigit ==
    ASSUME NEW a \in Nat, NEW b \in Nat, NEW x \in Digit, NEW y \in Digit
    PROVE  /\ Base * a + x = Base * b + y => a = b /\ x = y
           /\ a < b => Base * a + x < Base * b + y
<1>1. Base \in Nat \ {0, 1} /\ x \in Nat /\ y \in Nat /\ x < Base /\ y < Base
  BY Digits
<1>2. ASSUME NEW u \in Nat, NEW w \in Nat, u < w  PROVE Base * u + Base <= Base * w
  <2>1. PICK k \in Nat : w = u + 1 + k
    <3>1. w - u - 1 \in Nat /\ w = u + 1 + (w - u - 1)
      BY <1>2
    <3>. QED BY <3>1
  <2>2. Base * w = Base * u + Base + Base * k
    BY <1>1, <2>1
  <2>3. Base * k \in Nat /\ Base * u \in Nat
    BY <1>1
  <2>. QED BY <1>1, <2>2, <2>3
<1>3. Base * a \in Nat /\ Base * b \in Nat
  BY <1>1
<1>4. a < b => Base * a + Base <= Base * b
  BY <1>2
<1>5. b < a => Base * b + Base <= Base * a
  BY <1>2
<1>6. a < b \/ b < a \/ a = b
  OBVIOUS
<1>. QED BY <1>1, <1>3, <1>4, <1>5, <1>6

\* Two numbers of one length and one value have the same digits.
LEMMA SameLengthSameDigits ==
    ASSUME NEW s \in Seq(Digit), NEW t \in Seq(Digit), Len(s) = Len(t), ValueOf(s) = ValueOf(t)
    PROVE  s = t
<1>. DEFINE n == Len(s)
<1>1. PICK v \in [0..n -> Nat] :
         v[n] = ValueOf(s) /\ \A i \in 1..n : v[i] = Base * v[i - 1] + s[i]
  BY ValueOfPrefixes
<1>2. PICK w \in [0..n -> Nat] :
         w[n] = ValueOf(t) /\ \A i \in 1..n : w[i] = Base * w[i - 1] + t[i]
  BY ValueOfPrefixes
<1>3. n \in Nat /\ \A i \in 1..n : s[i] \in Digit /\ t[i] \in Digit
  OBVIOUS
<1>. HIDE DEF n
<1>4. ASSUME NEW i \in 1..n, v[i] = w[i]
      PROVE  v[i - 1] = w[i - 1] /\ s[i] = t[i]
  <2>1. v[i - 1] \in Nat /\ w[i - 1] \in Nat /\ s[i] \in Digit /\ t[i] \in Digit
    BY <1>3
  <2>2. Base * v[i - 1] + s[i] = Base * w[i - 1] + t[i]
    BY <1>1, <1>2, <1>4
  <2>. QED BY <2>1, <2>2, LastDigit
<1>5. \A k \in 0..n : v[n - k] = w[n - k]
  <2>. DEFINE D == {k \in 0..n : v[n - k] # w[n - k]}
  <2>. SUFFICES ASSUME D # {}  PROVE FALSE
    OBVIOUS
  <2>1. D \in SUBSET Nat
    BY <1>3
  <2>2. PICK m \in D : \A k \in D : m <= k
    BY <2>1, LeastNatural
  <2>3. m # 0
    BY <1>1, <1>2, <1>3, <2>2, ValueOf(s) = ValueOf(t)
  <2>4. m \in 1..n /\ m - 1 \in 0..n /\ n - (m - 1) \in 1..n
    BY <1>3, <2>2, <2>3
  <2>41. m - 1 \notin D
    BY <2>2, <2>4
  <2>5. v[n - (m - 1)] = w[n - (m - 1)]
    BY <2>4, <2>41
  <2>6. v[n - (m - 1) - 1] = w[n - (m - 1) - 1]
    BY <1>4, <2>4, <2>5
  <2>7. n - (m - 1) - 1 = n - m
    BY <1>3, <2>2
  <2>. QED BY <2>2, <2>6, <2>7
<1>6. \A i \in 1..n : s[i] = t[i]
  <2>. SUFFICES ASSUME NEW i \in 1..n  PROVE s[i] = t[i]
    OBVIOUS
  <2>1. n - i \in 0..n /\ n - (n - i) = i
    BY <1>3
  <2>. QED BY <1>4, <1>5, <2>1
<1>7. \A i \in 1..Len(s) : s[i] = t[i]
  BY <1>6 DEF n
<1>. QED BY <1>7

\* A longer number that does not start with 0 is larger.
LEMMA LongerIsLarger ==
    ASSUME NEW s \in Seq(Digit), NEW t \in Seq(Digit), Len(s) < Len(t), t[1] # 0
    PROVE  ValueOf(s) < ValueOf(t)
<1>. DEFINE n == Len(s)
            k == Len(t) - Len(s)
<1>1. PICK v \in [0..n -> Nat] :
         /\ v[0] = 0 /\ v[n] = ValueOf(s)
         /\ \A i \in 1..n : v[i] = Base * v[i - 1] + s[i]
  BY ValueOfPrefixes
<1>0. n + k = Len(t)
  OBVIOUS
<1>2. PICK w \in [0..(n + k) -> Nat] :
         /\ w[0] = 0 /\ w[n + k] = ValueOf(t)
         /\ \A i \in 1..(n + k) : w[i] = Base * w[i - 1] + t[i]
  <2>1. PICK w \in [0..Len(t) -> Nat] :
           /\ w[0] = 0 /\ w[Len(t)] = ValueOf(t)
           /\ \A i \in 1..Len(t) : w[i] = Base * w[i - 1] + t[i]
    BY ValueOfPrefixes
  <2>. QED BY ONLY <1>0, <2>1
<1>3. /\ n \in Nat /\ k \in Nat \ {0}
      /\ \A i \in 1..n : s[i] \in Digit
      /\ \A i \in 1..(n + k) : t[i] \in Digit
  <2>1. n + k = Len(t) /\ Len(s) \in Nat /\ Len(t) \in Nat
    OBVIOUS
  <2>. QED BY <2>1
<1>. HIDE DEF n, k
<1>4. \A j \in 1..(n + k) : w[j] > 0
  <2>. DEFINE D == {j \in 1..(n + k) : ~(w[j] > 0)}
  <2>. SUFFICES ASSUME D # {}  PROVE FALSE
    OBVIOUS
  <2>1. D \in SUBSET Nat
    BY <1>3
  <2>2. PICK m \in D : \A j \in D : m <= j
    BY <2>1, LeastNatural
  <2>3. /\ m \in 1..(n + k) /\ m - 1 \in 0..(n + k) /\ w[m] = Base * w[m - 1] + t[m]
        /\ w[m - 1] \in Nat /\ w[m] \in Int
    <3>1. m \in 1..(n + k) /\ m - 1 \in 0..(n + k) /\ m \in 0..(n + k)
      BY <1>3, <2>2
    <3>2. w[m] = Base * w[m - 1] + t[m]
      BY <1>2, <3>1
    <3>3. w[m - 1] \in Nat /\ w[m] \in Nat
      BY <3>1
    <3>. QED BY <3>1, <3>2, <3>3
  <2>31. t[m] \in Nat
    BY <1>3, <2>3, Digits
  <2>4. CASE m = 1
    <3>1. w[m - 1] = 0 /\ t[m] > 0
      BY <1>2, <2>3, <2>31, <2>4, t[1] # 0
    <3>2. w[m] = t[m]
      <4>1. Base * 0 + t[m] = t[m]
        BY <2>31, Digits
      <4>. QED BY <2>3, <3>1, <4>1
    <3>. QED BY <2>2, <3>1, <3>2
  <2>5. CASE m # 1
    <3>1. m - 1 \in 1..(n + k) /\ m - 1 \notin D
      BY <1>3, <2>2, <2>3, <2>5
    <3>2. 0 < w[m - 1]
      BY <2>3, <3>1
    <3>3. 0 \in Digit /\ Base * 0 + 0 = 0
      BY Digits DEF Digit
    <3>4. PICK x \in Digit : x = t[m]
      BY <1>3, <2>3
    <3>5. Base * 0 + 0 < Base * w[m - 1] + x
      BY <2>3, <3>2, <3>3, LastDigit
    <3>. QED BY <2>2, <2>3, <3>3, <3>4, <3>5
  <2>. QED BY <2>4, <2>5
<1>5. \A i \in 0..n : v[i] < w[i + k]
  <2>. DEFINE D == {i \in 0..n : ~(v[i] < w[i + k])}
  <2>. SUFFICES ASSUME D # {}  PROVE FALSE
    OBVIOUS
  <2>1. D \in SUBSET Nat
    BY <1>3
  <2>2. PICK m \in D : \A i \in D : m <= i
    BY <2>1, LeastNatural
  <2>3. m # 0
    BY <1>1, <1>3, <1>4, <2>2
  <2>4. m \in 1..n /\ m - 1 \in 0..n /\ m - 1 \notin D
    BY <1>3, <2>2, <2>3
  <2>5. PICK j \in 1..(n + k) : j = m + k /\ j - 1 = (m - 1) + k
    BY <1>3, <2>4
  <2>6. /\ v[m - 1] \in Nat /\ w[j - 1] \in Nat /\ v[m - 1] < w[j - 1]
        /\ s[m] \in Digit /\ t[j] \in Digit
    BY <1>3, <2>4, <2>5
  <2>7. Base * v[m - 1] + s[m] < Base * w[j - 1] + t[j]
    <3>1. ASSUME NEW a \in Nat, NEW b \in Nat, NEW x \in Digit, NEW y \in Digit, a < b
          PROVE  Base * a + x < Base * b + y
      BY <3>1, LastDigit
    <3>. QED BY ONLY <2>6, <3>1
  <2>8. v[m] = Base * v[m - 1] + s[m] /\ w[j] = Base * w[j - 1] + t[j]
    <3>1. v[m] = Base * v[m - 1] + s[m]
      BY <1>1, <2>4
    <3>2. w[j] = Base * w[j - 1] + t[j]
      BY ONLY <1>2, j \in 1..(n + k)
    <3>. QED BY <3>1, <3>2
  <2>9. ~(v[m] < w[j])
    BY <2>2, <2>5
  <2>. QED BY ONLY <2>7, <2>8, <2>9
<1>. QED BY <1>1, <1>2, <1>3, <1>5

\* What an accepted text consists of: the digits of its value, with the dot
\* before the last two, and no 0 before a first digit that is not the units.
LEMMA AcceptedText ==
    ASSUME NEW text \in Seq(Char), ParseMoney(text) # Refused
    PROVE  \E digits \in Seq(Digit) :
              /\ Len(digits) = Len(text) - 1 /\ Len(digits) > scale
              /\ digits[1] # 0 \/ Len(digits) = scale + 1
              /\ ValueOf(digits) = ParseMoney(text)
              /\ text = [i \in 1..(Len(digits) + 1) |->
                           IF i < Len(digits) - 1 THEN digits[i]
                           ELSE IF i = Len(digits) - 1 THEN Dot ELSE digits[i - 1]]
<1>. DEFINE n == Len(text)
            separator == n - scale
            units == SubSeq(text, 1, separator - 1)
            fraction == SubSeq(text, separator + 1, n)
            digits == units \o fraction
<1>1. /\ {i \in DOMAIN text : text[i] = Dot} = {separator} /\ separator > 1
      /\ isCanonicalUnits(units) /\ isDigits(fraction)
      /\ ParseMoney(text) = ValueOf(digits)
  BY DEF ParseMoney
<1>2. n \in Nat /\ separator = n - 2 /\ n > 3 /\ DOMAIN text = 1..n
  BY <1>1 DEF scale
<1>3. text[n - 2] = Dot
  BY <1>1, <1>2
<1>4. \A i \in 1..n : text[i] \in Char
  OBVIOUS
<1>5. /\ units \in Seq(Char) /\ Len(units) = n - 3
      /\ \A i \in 1..(n - 3) : units[i] = text[i]
  <2>1. \A i \in 1..(n - 3) : text[i] \in Char
    BY <1>2, <1>4
  <2>2. /\ SubSeq(text, 1, n - 3) \in Seq(Char)
        /\ Len(SubSeq(text, 1, n - 3)) = n - 3
        /\ \A i \in 1..(n - 3) : SubSeq(text, 1, n - 3)[i] = text[i]
    <3>1. 1 \in Int /\ n - 3 \in Int /\ 1 <= n - 3 /\ n - 3 - 1 + 1 = n - 3
      BY <1>2
    <3>. HIDE DEF n
    <3>2. /\ SubSeq(text, 1, n - 3) \in Seq(Char)
          /\ Len(SubSeq(text, 1, n - 3)) = n - 3 - 1 + 1
          /\ \A i \in 1..(n - 3 - 1 + 1) : SubSeq(text, 1, n - 3)[i] = text[1 + i - 1]
      BY <2>1, <3>1, SubSeqProperties
    <3>3. \A i \in 1..(n - 3) : 1 + i - 1 = i
      OBVIOUS
    <3>. QED BY <3>1, <3>2, <3>3
  <2>3. separator - 1 = n - 3
    BY <1>2
  <2>. QED BY <2>2, <2>3
<1>6. /\ fraction \in Seq(Char) /\ Len(fraction) = 2
      /\ fraction[1] = text[n - 1] /\ fraction[2] = text[n]
  <2>1. \A i \in (n - 1)..n : text[i] \in Char
    BY <1>2, <1>4
  <2>2. n - 1 \in Int /\ n \in Int /\ n - 1 <= n /\ n - (n - 1) + 1 = 2
    BY <1>2
  <2>3. /\ SubSeq(text, n - 1, n) \in Seq(Char)
        /\ Len(SubSeq(text, n - 1, n)) = n - (n - 1) + 1
        /\ \A i \in 1..(n - (n - 1) + 1) : SubSeq(text, n - 1, n)[i] = text[(n - 1) + i - 1]
    <3>. HIDE DEF n
    <3>. QED BY <2>1, <2>2, SubSeqProperties
  <2>4. (n - 1) + 1 - 1 = n - 1 /\ (n - 1) + 2 - 1 = n /\ separator + 1 = n - 1
    BY <1>2
  <2>5. 1 \in 1..2 /\ 2 \in 1..2
    OBVIOUS
  <2>6. /\ fraction \in Seq(Char) /\ Len(fraction) = 2
        /\ \A i \in 1..2 : fraction[i] = text[(n - 1) + i - 1]
    BY <2>2, <2>3, <2>4
  <2>. HIDE DEF n, fraction
  <2>. QED BY <2>4, <2>5, <2>6
<1>. HIDE DEF n, units, fraction, separator
<1>7. units \in Seq(Digit) /\ fraction \in Seq(Digit)
  <2>1. ASSUME NEW s \in Seq(Char), isDigits(s)  PROVE s \in Seq(Digit)
    <3>1. \A i \in 1..Len(s) : s[i] \in Digit
      BY <2>1 DEF isDigits, Range
    <3>. QED BY <3>1
  <2>. QED BY <1>1, <1>5, <1>6, <2>1 DEF isCanonicalUnits
<1>8. /\ digits \in Seq(Digit) /\ Len(digits) = n - 1
      /\ \A i \in 1..(n - 1) : digits[i] = IF i <= n - 3 THEN units[i] ELSE fraction[i - (n - 3)]
  <2>1. Len(units) + Len(fraction) = n - 1
    BY <1>2, <1>5, <1>6
  <2>2. /\ digits \in Seq(Digit) /\ Len(digits) = Len(units) + Len(fraction)
        /\ \A i \in 1..(Len(units) + Len(fraction)) :
              digits[i] = IF i <= Len(units) THEN units[i] ELSE fraction[i - Len(units)]
    BY <1>7, ConcatProperties
  <2>. QED BY <1>5, <2>1, <2>2
<1>. HIDE DEF digits
<1>9. \A i \in 1..(n - 1) : digits[i] = IF i <= n - 3 THEN text[i] ELSE text[i + 1]
  <2>. SUFFICES ASSUME NEW i \in 1..(n - 1)
                PROVE  digits[i] = IF i <= n - 3 THEN text[i] ELSE text[i + 1]
    OBVIOUS
  <2>1. CASE i <= n - 3
    BY <1>2, <1>5, <1>8, <2>1
  <2>2. CASE i = n - 2
    <3>1. i - (n - 3) = 1 /\ i + 1 = n - 1 /\ ~(i <= n - 3)
      BY <1>2, <2>2
    <3>. QED BY <1>6, <1>8, <3>1
  <2>3. CASE i = n - 1
    <3>1. i - (n - 3) = 2 /\ i + 1 = n /\ ~(i <= n - 3)
      BY <1>2, <2>3
    <3>. QED BY <1>6, <1>8, <3>1
  <2>. QED BY <1>2, <2>1, <2>2, <2>3
<1>10. digits[1] # 0 \/ Len(digits) = 3
  <2>1. Len(units) = 1 \/ Head(units) # 0
    BY <1>1 DEF isCanonicalUnits
  <2>2. Head(units) = units[1] /\ digits[1] = units[1]
    BY <1>2, <1>5, <1>8
  <2>. QED BY <1>2, <1>5, <1>8, <2>1, <2>2
<1>11. text = [i \in 1..(Len(digits) + 1) |->
                 IF i < Len(digits) - 1 THEN digits[i]
                 ELSE IF i = Len(digits) - 1 THEN Dot ELSE digits[i - 1]]
  <2>. DEFINE spelled == [i \in 1..n |-> IF i < n - 2 THEN digits[i]
                                        ELSE IF i = n - 2 THEN Dot ELSE digits[i - 1]]
  <2>1. Len(digits) + 1 = n /\ Len(digits) - 1 = n - 2
    BY <1>2, <1>8
  <2>2. \A i \in 1..n : text[i] = spelled[i]
    <3>. SUFFICES ASSUME NEW i \in 1..n  PROVE text[i] = spelled[i]
      OBVIOUS
    <3>1. CASE i < n - 2
      BY <1>2, <1>9, <3>1
    <3>2. CASE i = n - 2
      BY <1>2, <1>3, <3>2
    <3>3. CASE i > n - 2
      <4>1. i - 1 \in 1..(n - 1) /\ ~(i - 1 <= n - 3) /\ (i - 1) + 1 = i
        BY <1>2, <3>3
      <4>2. digits[i - 1] = text[i]
        BY <1>9, <4>1
      <4>. QED BY <1>2, <3>3, <4>2
    <3>. QED BY <1>2, <3>1, <3>2, <3>3
  <2>3. text = [i \in 1..n |-> text[i]]
    BY DEF n
  <2>4. text = spelled
    BY <2>2, <2>3
  <2>. QED BY <2>1, <2>4
<1>12. Len(digits) > 2 /\ ValueOf(digits) = ParseMoney(text)
  BY <1>1, <1>2, <1>8 DEF digits
<1>13. Len(digits) = Len(text) - 1
  BY <1>8 DEF n
<1>14. digits \in Seq(Digit)
  BY <1>8
<1>. USE <1>14
<1>. WITNESS digits \in Seq(Digit)
<1>. QED BY <1>10, <1>11, <1>12, <1>13 DEF scale

\* What ParseMoney returns is a number of cents that is not negative.
LEMMA ParsedIsNatural ==
    ASSUME NEW text \in Seq(Char), ParseMoney(text) # Refused
    PROVE  ParseMoney(text) \in Nat
<1>1. PICK digits \in Seq(Digit) : ValueOf(digits) = ParseMoney(text)
  BY AcceptedText
<1>2. Len(digits) \in Nat /\ Len(digits) \in 0..Len(digits)
  OBVIOUS
<1>3. PICK v \in [0..Len(digits) -> Nat] : v[Len(digits)] = ValueOf(digits)
  BY ValueOfPrefixes
<1>. QED BY <1>1, <1>2, <1>3

\* Two texts that are accepted for one amount are the same text, whatever the
\* base, the width of the integers and the length of the texts.
THEOREM OneSpelling ==
    ASSUME NEW a \in Seq(Char), NEW b \in Seq(Char),
           ParseMoney(a) = ParseMoney(b), ParseMoney(a) # Refused
    PROVE  a = b
<1>1. PICK s \in Seq(Digit) :
         /\ Len(s) > scale
         /\ s[1] # 0 \/ Len(s) = scale + 1
         /\ ValueOf(s) = ParseMoney(a)
         /\ a = [i \in 1..(Len(s) + 1) |-> IF i < Len(s) - 1 THEN s[i]
                                          ELSE IF i = Len(s) - 1 THEN Dot ELSE s[i - 1]]
  BY AcceptedText
<1>2. PICK t \in Seq(Digit) :
         /\ Len(t) > scale
         /\ t[1] # 0 \/ Len(t) = scale + 1
         /\ ValueOf(t) = ParseMoney(b)
         /\ b = [i \in 1..(Len(t) + 1) |-> IF i < Len(t) - 1 THEN t[i]
                                          ELSE IF i = Len(t) - 1 THEN Dot ELSE t[i - 1]]
  BY AcceptedText
<1>3. /\ Len(s) \in Nat /\ Len(t) \in Nat /\ ValueOf(s) = ValueOf(t)
      /\ Len(s) > scale /\ Len(t) > scale
      /\ s[1] # 0 \/ Len(s) = scale + 1
      /\ t[1] # 0 \/ Len(t) = scale + 1
  BY <1>1, <1>2
<1>4. ASSUME NEW x \in Seq(Digit)  PROVE ValueOf(x) \in Nat
  <2>1. Len(x) \in Nat /\ Len(x) \in 0..Len(x)
    OBVIOUS
  <2>2. PICK v \in [0..Len(x) -> Nat] : v[Len(x)] = ValueOf(x)
    BY ValueOfPrefixes
  <2>. QED BY <2>1, <2>2
<1>5. ~(Len(s) < Len(t))
  <2>1. Len(s) < Len(t) => t[1] # 0
    BY ONLY <1>3 DEF scale
  <2>. QED BY <1>3, <1>4, <2>1, LongerIsLarger
<1>6. ~(Len(t) < Len(s))
  <2>1. Len(t) < Len(s) => s[1] # 0
    BY ONLY <1>3 DEF scale
  <2>. QED BY <1>3, <1>4, <2>1, LongerIsLarger
<1>7. s = t
  BY <1>3, <1>5, <1>6, SameLengthSameDigits
<1>. QED BY <1>1, <1>2, <1>7

-----------------------------------------------------------------------------
(***************************************************************************)
(* The records.                                                            *)
(*                                                                         *)
(* SoundRow and SoundAggregate say what the domain and the table together  *)
(* leave possible; the lemmas about the operators show that each form of a *)
(* record keeps it, and Records, the inductive invariant, that calls which *)
(* hold an old form do not destroy it.                                     *)
(***************************************************************************)

\* A row is the one of the operation c.
RowOf(row, c) ==
    /\ row.ext = c.ext /\ row.key = c.key /\ row.hash = c.hash
    /\ row.ref = nullableText(c.ref) /\ row.wallet = c.wallet
    /\ row.kind = c.kind /\ row.amount = c.money

\* What holds of every row: the checks of the table, texts that are not blank
\* where the domain wants one, and instants a timestamptz holds.
SoundRow(row) ==
    /\ row \in Record
    /\ Checked(row)
    /\ Empty \notin {row.ext, row.key, row.ref}
    /\ row.kind \in ExternalKind => ~Blank(row.ext) /\ ~Blank(row.key)
    /\ RequiresReference(row.kind) => ~Blank(row.ref)
    /\ row.state # "PENDING"
    /\ row.state = "PENDING_REFERENCE" => RequiresReference(row.kind) /\ row.resolved = Null
    /\ Micros(row.created) = row.created /\ Micros(row.updated) = row.updated

\* What holds of the aggregate a call works on, which is not concluded.
SoundAggregate(t) ==
    /\ t \in Record
    /\ {t.ext, t.key, t.ref} \subseteq Text /\ ~Blank(t.ext) /\ ~Blank(t.key)
    /\ t.hash # Null /\ t.kind \in ExternalKind
    /\ AmountFits(t.kind, t.amount)
    /\ RequiresReference(t.kind) => ~Blank(t.ref)
    /\ ~AcceptsReference(t.kind) => t.ref = Empty
    /\ t.state \in {"PENDING", "PENDING_REFERENCE"}
    /\ t.state = "PENDING_REFERENCE" => RequiresReference(t.kind)
    /\ t.code = Null /\ t.balance = Null /\ t.resolved = Null
    /\ t.updated >= t.created

Typed ==
    /\ table \in [Text -> Record \cup {Null}]
    /\ mem \in [Call -> Held \cup {Null}]
    /\ outbox \subseteq Envelope

Rows ==
    \A e \in Text : table[e] # Null =>
        /\ SoundRow(table[e])
        /\ (table[e].kind = "OPENING") = (e = Opening)
        /\ e # Opening => table[e].ext = e /\ \E c \in Command : RowOf(table[e], c)

\* The operation of a call is stored, in some state, unless it is new.
CallFits(m) ==
    LET t == m.t IN
    /\ SoundAggregate(t) /\ m.trace # NilId
    /\ IF m.fresh
       THEN t.state = "PENDING" /\ \E c \in Command : RowOf(Columns(t), c)
       ELSE /\ table[t.ext] # Null
            /\ table[t.ext].kind = t.kind /\ table[t.ext].amount = t.amount
            /\ table[t.ext].ref = nullableText(t.ref)
            /\ table[t.ext].created = t.created

Calls == \A p \in Call : mem[p] # Null => CallFits(mem[p])

\* An event is well formed, and the outcome it tells is still in the row.
EventFits(v) ==
    LET row == table[IF v.data.kind = "OPENING" THEN Opening ELSE v.data.ext] IN
    /\ RestoreEnvelope(v) = v
    /\ row # Null
    /\ \/ v.type = "WagerTransactionPendingReference"
       \/ /\ IsTerminal(row.state)
          /\ <<v.data.code, v.data.balance, v.data.resolved>>
               = <<row.code, row.balance, row.resolved>>

Events == \A v \in outbox : EventFits(v)

Records == Typed /\ Rows /\ Calls /\ Events

-----------------------------------------------------------------------------
(* The aggregate and its row. *)

LEMMA Kinds ==
    /\ "OPENING" \notin ExternalKind
    /\ ~RequiresReference("OPENING") /\ ~AcceptsReference("OPENING")
    /\ \A kind : RequiresReference(kind) => AcceptsReference(kind) /\ kind \in ExternalKind
  BY DEF ExternalKind, RequiresReference, AcceptsReference

LEMMA PaddingSet ==
    ASSUME NEW n, NEW old, NEW new
    PROVE  [[name |-> n, padded |-> old] EXCEPT !.padded = new] = [name |-> n, padded |-> new]
  OBVIOUS

LEMMA Texts ==
    /\ Empty \in Text /\ Blank(Empty) /\ Null \notin Text /\ Absent \notin Text
    /\ \A x \in Text : x = [name |-> x.name, padded |-> x.padded]
    /\ \A x \in Text : TrimSpace(x) \in Text /\ (Blank(TrimSpace(x)) = Blank(x))
    /\ \A x \in Text : Blank(TrimSpace(x)) => TrimSpace(x) = Empty
    /\ \A x \in Text : ~x.padded => TrimSpace(x) = x
<1>1. Empty \in Text /\ Blank(Empty) /\ Null \notin Text /\ Absent \notin Text
  BY NothingAssumption DEF Text, Empty, Blank
<1>2. \A x \in Text : x = [name |-> x.name, padded |-> x.padded]
  BY DEF Text
<1>3. ASSUME NEW x \in Text
      PROVE  TrimSpace(x) \in Text /\ TrimSpace(x) = [name |-> x.name, padded |-> FALSE]
  <2>. DEFINE y == [name |-> x.name, padded |-> FALSE]
  <2>1. x.name \in Name \cup {NoName}
    BY DEF Text
  <2>2. TrimSpace([name |-> x.name, padded |-> x.padded]) = y
    BY PaddingSet DEF TrimSpace
  <2>3. TrimSpace(x) = y
    BY <1>2, <2>2
  <2>4. y \in Text
    BY <2>1 DEF Text
  <2>. QED BY <2>3, <2>4
<1>4. \A x \in Text : Blank(TrimSpace(x)) = Blank(x)
  BY <1>3 DEF Blank
<1>5. \A x \in Text : Blank(TrimSpace(x)) => TrimSpace(x) = Empty
  BY <1>3 DEF Blank, Empty
<1>6. ASSUME NEW x \in Text, ~x.padded  PROVE TrimSpace(x) = x
  <2>1. x.padded = FALSE
    BY <1>6 DEF Text
  <2>. QED BY <1>2, <1>3, <2>1
<1>. QED BY <1>1, <1>2, <1>3, <1>4, <1>5, <1>6

\* A text survives its column.
LEMMA TextColumns ==
    /\ \A x \in Text : nullableText(x) \in Text \cup {Null} /\ nullableText(x) # Empty
    /\ \A x \in Text : textOf(nullableText(x)) = x /\ (x # Empty => nullableText(x) = x)
    /\ \A x \in Text \cup {Null} : textOf(x) \in Text
    /\ \A x \in Text \cup {Null} : x # Empty => nullableText(textOf(x)) = x
    /\ \A x \in Text \cup {Null} : (x # Null /\ x # Empty) = (textOf(x) # Empty)
  BY Texts DEF nullableText, textOf

\* A timestamptz rounds instants down, in their order.
LEMMA WholeMicros ==
    /\ \A x \in Nat : Micros(x) \in Nat /\ Micros(x) <= x /\ Micros(Micros(x)) = Micros(x)
    /\ \A x, y \in Nat : x <= y => Micros(x) <= Micros(y)
  BY DEF Micros

\* Of the members that give a field, one is the last.
LEMMA LastMember ==
    ASSUME NEW body, IsBody(body), NEW S \in SUBSET DOMAIN body, S # {}
    PROVE  Max(S) \in S
<1>1. PICK n \in Nat : n = Len(body) /\ S \subseteq 1..n
  BY DEF IsBody
<1>. DEFINE R == {n - i : i \in S}
<1>2. R \in SUBSET Nat /\ R # {}
  BY <1>1
<1>3. PICK m \in R : \A k \in R : m <= k
  BY <1>2, LeastNatural
<1>4. PICK x \in S : m = n - x
  BY <1>3
<1>5. \A y \in S : x >= y
  <2>. SUFFICES ASSUME NEW y \in S  PROVE x >= y
    OBVIOUS
  <2>1. n - y \in R /\ n - x <= n - y
    BY <1>3, <1>4
  <2>2. x \in Int /\ y \in Int /\ n \in Int
    BY <1>1
  <2>. QED BY <2>1, <2>2
<1>. QED BY <1>5 DEF Max

\* A field that is decoded has the value of a member that gives it.
LEMMA ValueIsGiven ==
    ASSUME NEW body, IsBody(body), NEW f, Value(body, f) # Null
    PROVE  \E i \in DOMAIN body :
              IsMember(body[i]) /\ body[i].key.field = f /\ body[i].value = Value(body, f)
<1>. DEFINE given == {i \in DOMAIN body : body[i].key.field = f /\ body[i].value # Null}
<1>1. given # {} /\ Value(body, f) = body[Max(given)].value
  BY DEF Value
<1>2. Max(given) \in given
  BY <1>1, LastMember
<1>3. \A i \in DOMAIN body : IsMember(body[i])
  BY DEF IsBody
<1>. HIDE DEF given
<1>4. PICK i \in given : i = Max(given)
  BY <1>2
<1>. QED BY <1>1, <1>3, <1>4 DEF given

\* What the fields of a body are.
LEMMA FieldsOfBody ==
    ASSUME NEW body, IsBody(body)
    PROVE  /\ \A f \in {"ext", "ref", "idempotencyKey"} : Decoded(body, f) \in Text
           /\ WalletOf(body) \in Wallet \cup {NilId}
           /\ AmountOf(body) # Refused => AmountOf(body) \in Nat
<1>1. ASSUME NEW f \in {"ext", "ref", "idempotencyKey"}  PROVE Decoded(body, f) \in Text
  <2>1. Value(body, f) # Null => Value(body, f) \in Text
    BY ValueIsGiven DEF IsMember
  <2>. QED BY <2>1, Texts DEF Decoded
<1>2. WalletOf(body) \in Wallet \cup {NilId}
  <2>1. Value(body, "walletId") # Null =>
          Value(body, "walletId") \in [id: Wallet \cup {NilId}, spelling: Spelling]
    BY ValueIsGiven DEF IsMember
  <2>. QED BY <2>1 DEF WalletOf
<1>3. ASSUME AmountOf(body) # Refused  PROVE AmountOf(body) \in Nat
  <2>1. Value(body, "money") # Null /\ AmountOf(body) = ParseMoney(Value(body, "money"))
    BY <1>3 DEF AmountOf
  <2>2. Value(body, "money") \in Seq(Char)
    BY <2>1, ValueIsGiven DEF IsMember
  <2>. QED BY <1>3, <2>1, <2>2, ParsedIsNatural
<1>. QED BY <1>1, <1>2, <1>3

\* A command is the one of a delivery: the texts the domain wants are there, the
\* wallet, and an amount.
LEMMA CommandFacts ==
    ASSUME NEW c \in Command
    PROVE  /\ {c.ext, c.key, c.ref} \subseteq Text /\ ~Blank(c.ext)
           /\ ~Blank(c.ref) \/ AcceptsReference(c.kind) \/ c.ref = Empty
           /\ c.wallet \in Wallet /\ c.kind \in ExternalKind /\ c.money \in Nat
           /\ c.hash \in Hash /\ c.trace \in Trace /\ c.trace # NilId
           /\ \E d \in Delivery :
                /\ IsBody(d.body) /\ c.hash = CanonicalHash(d.body)
                /\ c.kind = KindOf(d.body) /\ c.money = AmountOf(d.body)
                /\ c.wallet = WalletOf(d.body)
                /\ c.ref \in {Ref(d.body), TrimSpace(Ref(d.body))}
<1>1. PICK d \in Delivery : c = CommandOf(d) /\ c # Refused
  BY DEF Command
<1>. DEFINE body == d.body
            o == IF d.transport = "HTTP" THEN toCommand(d) ELSE ParseInbound(d)
            trace == IF d.transport = "HTTP" THEN HeaderCorrelation(d) ELSE CorrelationOf(body)
<1>2. /\ o # Refused /\ o.ext # Empty /\ o.wallet # NilId
      /\ c = [o EXCEPT !.trace = IF @ = NilId THEN NewId ELSE @]
  <2>. HIDE DEF o
  <2>1. CommandOf(d) = IF ValidCommand(o) THEN [o EXCEPT !.trace = IF @ = NilId THEN NewId ELSE @]
                                          ELSE Refused
    BY DEF CommandOf, o
  <2>. QED BY <1>1, <2>1 DEF ValidCommand
<1>3. d.key \in Text /\ IsBody(body)
  BY RecordAssumption
<1>4. Ext(body) \in Text /\ Ref(body) \in Text /\ Decoded(body, "idempotencyKey") \in Text
  BY <1>3, FieldsOfBody DEF Ext, Ref
<1>5. \E ext, key, ref \in Text :
         /\ o = Operation(body, ext, key, ref, trace)
         /\ ~Blank(ext)
         /\ ~Blank(ref) \/ AcceptsReference(KindOf(body)) \/ ref = Empty
         /\ ref \in {Ref(body), TrimSpace(Ref(body))}
         /\ KindOf(body) \in ExternalKind /\ AmountOf(body) # Refused
  <2>1. CASE d.transport = "HTTP"
    <3>1. o = Operation(body, TrimSpace(Ext(body)), TrimSpace(d.key), TrimSpace(Ref(body)), trace)
          /\ KindOf(body) \in ExternalKind /\ AmountOf(body) # Refused
      BY <1>2, <2>1 DEF toCommand, ValidSubmission
    <3>2. o.ext = TrimSpace(Ext(body))
      BY <3>1 DEF Operation
    <3>3. ~Blank(TrimSpace(Ext(body)))
      BY <1>2, <1>4, <3>2, Texts
    <3>4. /\ TrimSpace(Ext(body)) \in Text /\ TrimSpace(d.key) \in Text
          /\ TrimSpace(Ref(body)) \in Text
          /\ ~Blank(TrimSpace(Ref(body))) \/ TrimSpace(Ref(body)) = Empty
      BY <1>3, <1>4, Texts
    <3>. QED BY <3>1, <3>3, <3>4
  <2>2. CASE d.transport # "HTTP"
    <3>1. o = Operation(body, Ext(body), Decoded(body, "idempotencyKey"), Ref(body), trace)
          /\ ValidRequest(body)
      BY <1>2, <2>2 DEF ParseInbound
    <3>2. /\ ~Blank(Ext(body)) /\ KindOf(body) \in ExternalKind /\ AmountOf(body) # Refused
          /\ ~AcceptsReference(KindOf(body)) => Ref(body) = Empty
      BY <3>1 DEF ValidRequest
    <3>. QED BY <1>4, <3>1, <3>2
  <2>. QED BY <2>1, <2>2
<1>6. trace \in Trace /\ NewId \in Trace
  BY DEF Trace, HeaderCorrelation
<1>. HIDE DEF o, trace
<1>7. PICK ext \in Text, key \in Text, ref \in Text :
         /\ o = Operation(body, ext, key, ref, trace)
         /\ ~Blank(ext)
         /\ ~Blank(ref) \/ AcceptsReference(KindOf(body)) \/ ref = Empty
         /\ ref \in {Ref(body), TrimSpace(Ref(body))}
         /\ KindOf(body) \in ExternalKind /\ AmountOf(body) # Refused
  BY <1>5
<1>8. c = Operation(body, ext, key, ref, IF trace = NilId THEN NewId ELSE trace)
  BY <1>2, <1>7 DEF Operation
<1>9. /\ c.ext = ext /\ c.key = key /\ c.ref = ref /\ c.wallet = WalletOf(body)
      /\ c.kind = KindOf(body) /\ c.money = AmountOf(body) /\ c.hash = CanonicalHash(body)
      /\ c.trace = IF trace = NilId THEN NewId ELSE trace
  BY <1>8 DEF Operation
<1>10. c.trace \in Trace /\ c.trace # NilId
  BY <1>6, <1>9, ContractAssumption
<1>11. c.wallet \in Wallet
  <2>1. o.wallet = WalletOf(body)
    BY <1>7 DEF Operation
  <2>. QED BY <1>2, <1>3, <1>9, <2>1, FieldsOfBody
<1>12. c.money \in Nat
  BY <1>3, <1>7, <1>9, FieldsOfBody
<1>13. c.hash \in Hash
  BY <1>9 DEF Hash
<1>. QED BY <1>3, <1>7, <1>9, <1>10, <1>11, <1>12, <1>13

\* The fields of a record, one by one.
LEMMA RecordFields ==
    ASSUME NEW t \in Record
    PROVE  /\ t.ext \in Text \cup {Null} /\ t.key \in Text \cup {Null}
           /\ t.hash \in Hash \cup {Null} /\ t.ref \in Text \cup {Null}
           /\ t.wallet \in Wallet /\ t.kind \in ExternalKind \cup {"OPENING"} /\ t.amount \in Int /\ t.state \in State
           /\ t.code \in {Null, "refused"} /\ t.balance \in Balance \cup {Null}
           /\ t.resolved \in {Null, ReferenceId} /\ t.created \in Nat /\ t.updated \in Nat
  BY DEF Record

LEMMA Sentinels ==
    /\ Refused \notin Record /\ Refused \notin Envelope
    /\ Null \notin Record /\ Null \notin SubjectRecord /\ Null \notin Held
    /\ Null \notin Hash /\ "refused" # Null /\ ReferenceId # Null
    /\ Null \notin Balance /\ Balance \subseteq Nat
  BY NamesAssumption, RecordAssumption

\* What a new operation becomes: a sound aggregate, whose row is the one of its
\* command.
LEMMA NewIsSound ==
    ASSUME NEW c \in Command, NEW now \in Nat, NewExternalTransaction(c, now) # Refused
    PROVE  LET t == NewExternalTransaction(c, now)  IN
           /\ SoundAggregate(t) /\ t.state = "PENDING" /\ t.ext = c.ext
           /\ RowOf(Columns(t), c) /\ SameOperation(t, c)
<1>. DEFINE t == NewExternalTransaction(c, now)
<1>1. /\ {c.ext, c.key, c.ref} \subseteq Text /\ ~Blank(c.ext)
      /\ ~Blank(c.ref) \/ AcceptsReference(c.kind) \/ c.ref = Empty
      /\ c.wallet \in Wallet /\ c.kind \in ExternalKind /\ c.hash \in Hash
  BY CommandFacts
<1>2. c.money \in Nat
  BY CommandFacts
<1>3. /\ Identified(c) /\ AmountFits(c.kind, c.money) /\ ReferenceFits(c.kind, c.ref)
      /\ t = [ext |-> c.ext, key |-> c.key, hash |-> c.hash, ref |-> c.ref,
              wallet |-> c.wallet, kind |-> c.kind, amount |-> c.money, state |-> "PENDING", code |-> Null, balance |-> Null,
              resolved |-> Null, created |-> now, updated |-> now]
  BY DEF NewExternalTransaction, Aggregate
<1>. HIDE DEF t
<1>4. t \in Record
  BY <1>1, <1>2, <1>3 DEF Record, State
<1>5. /\ t.ext = c.ext /\ t.key = c.key /\ t.hash = c.hash /\ t.ref = c.ref /\ t.kind = c.kind
      /\ t.wallet = c.wallet /\ t.amount = c.money /\ t.state = "PENDING" /\ t.code = Null /\ t.balance = Null
      /\ t.resolved = Null /\ t.created = now /\ t.updated = now
  BY <1>3
<1>6. /\ ~Blank(c.ext) /\ ~Blank(c.key) /\ c.hash # Null
      /\ RequiresReference(c.kind) => ~Blank(c.ref)
      /\ ~AcceptsReference(c.kind) => c.ref = Empty
  BY <1>1, <1>3 DEF Identified, ReferenceFits
<1>7. SoundAggregate(t)
  <2>1. t.updated >= t.created
    BY <1>5
  <2>2. {t.ext, t.key, t.ref} \subseteq Text
    BY <1>1, <1>5
  <2>. QED BY <1>1, <1>3, <1>4, <1>5, <1>6, <2>1, <2>2 DEF SoundAggregate
<1>8. /\ Columns(t).ext = nullableText(t.ext) /\ Columns(t).key = nullableText(t.key)
      /\ Columns(t).ref = nullableText(t.ref) /\ Columns(t).hash = t.hash
      /\ Columns(t).wallet = t.wallet /\ Columns(t).kind = t.kind
      /\ Columns(t).amount = t.amount
  BY <1>3 DEF Columns
<1>9. nullableText(c.ext) = c.ext /\ nullableText(c.key) = c.key
  BY <1>1, <1>6, Texts, TextColumns
<1>10. RowOf(Columns(t), c)
  BY <1>5, <1>8, <1>9 DEF RowOf
<1>11. SameOperation(t, c)
  BY <1>5 DEF SameOperation
<1>. QED BY <1>5, <1>7, <1>10, <1>11 DEF t

\* Every sound row is read back, as what was written.
LEMMA SoundRowRestores ==
    ASSUME NEW row, SoundRow(row)
    PROVE  LET t == Restore(row)  IN
           /\ t # Refused /\ Columns(t) = row
           /\ t = [row EXCEPT !.ext = textOf(@), !.key = textOf(@), !.ref = textOf(@)]
<1>. DEFINE t == [row EXCEPT !.ext = textOf(@), !.key = textOf(@), !.ref = textOf(@)]
<1>1. /\ row \in Record /\ Checked(row)
      /\ Empty \notin {row.ext, row.key, row.ref}
      /\ row.kind \in ExternalKind => ~Blank(row.ext) /\ ~Blank(row.key)
      /\ RequiresReference(row.kind) => ~Blank(row.ref)
      /\ Micros(row.created) = row.created /\ Micros(row.updated) = row.updated
  BY DEF SoundRow
<1>2. /\ row.ext \in Text \cup {Null} /\ row.key \in Text \cup {Null}
      /\ row.ref \in Text \cup {Null} /\ row.kind \in ExternalKind \cup {"OPENING"}
      /\ row.balance \in Balance \cup {Null} /\ row.amount \in Int
      /\ row.created \in Nat /\ row.updated \in Nat
  BY <1>1, RecordFields
<1>3. /\ t \in Record
      /\ t.ext = textOf(row.ext) /\ t.key = textOf(row.key) /\ t.ref = textOf(row.ref)
      /\ t.hash = row.hash /\ t.wallet = row.wallet /\ t.kind = row.kind
      /\ t.amount = row.amount
      /\ t.state = row.state /\ t.code = row.code /\ t.balance = row.balance
      /\ t.resolved = row.resolved /\ t.created = row.created /\ t.updated = row.updated
  <2>1. textOf(row.ext) \in Text /\ textOf(row.key) \in Text /\ textOf(row.ref) \in Text
    BY <1>2, TextColumns
  <2>. QED BY <1>1, <2>1 DEF Record
<1>. HIDE DEF t
<1>4. /\ AmountFits(row.kind, row.amount)
      /\ row.kind = "OPENING" => row.ext = Null /\ row.key = Null /\ row.hash = Null
      /\ row.kind # "OPENING" => row.ext # Null /\ row.key # Null /\ row.hash # Null
      /\ RequiresReference(row.kind) => row.ref # Null
      /\ ~AcceptsReference(row.kind) => row.ref = Null
      /\ row.resolved # Null => row.ref # Null
      /\ row.state = "PROCESSED" /\ RequiresReference(row.kind) => row.resolved # Null
      /\ (row.state = "REJECTED") = (row.code # Null)
      /\ (row.state = "PROCESSED") = (row.balance # Null)
      /\ row.balance # Null => row.balance >= 0
      /\ row.updated >= row.created
  BY <1>1 DEF Checked
<1>5. validateRestoredOrigin(t)
  <2>1. CASE row.kind \in ExternalKind
    <3>1. row.ext # Null /\ row.key # Null /\ row.hash # Null
      BY <1>4, <2>1, Kinds
    <3>2. t.ext = row.ext /\ t.key = row.key
      BY <1>3, <3>1 DEF textOf
    <3>. QED BY <1>1, <1>3, <2>1, <3>1, <3>2 DEF validateRestoredOrigin, Identified
  <2>2. CASE row.kind \notin ExternalKind
    <3>1. row.ext = Null /\ row.key = Null /\ row.hash = Null
      BY <1>2, <1>4, <2>2
    <3>2. t.ext = Empty /\ t.key = Empty
      BY <1>3, <3>1 DEF textOf
    <3>. QED BY <1>3, <2>2, <3>1, <3>2 DEF validateRestoredOrigin
  <2>. QED BY <2>1, <2>2
<1>6. ReferenceFits(t.kind, t.ref)
  <2>1. RequiresReference(t.kind) => ~Blank(t.ref)
    BY <1>1, <1>3, <1>4 DEF textOf
  <2>2. ~AcceptsReference(t.kind) => Blank(t.ref)
    BY <1>3, <1>4, Texts DEF textOf
  <2>. QED BY <2>1, <2>2 DEF ReferenceFits
<1>7. validateRestoredOutcome(t)
  <2>1. t.resolved # Null => AcceptsReference(t.kind) /\ t.ref # Empty
    BY <1>1, <1>2, <1>3, <1>4, TextColumns
  <2>. QED BY <1>3, <1>4, <2>1 DEF validateRestoredOutcome
<1>8. t.updated >= t.created /\ AmountFits(t.kind, t.amount)
  BY <1>3, <1>4
<1>9. Restore(row) = t
  BY <1>5, <1>6, <1>7, <1>8 DEF Restore, t
<1>10. Columns(t) = row
  <2>1. /\ nullableText(t.ext) = row.ext /\ nullableText(t.key) = row.key
        /\ nullableText(t.ref) = row.ref
    BY <1>1, <1>2, <1>3, TextColumns
  <2>2. Columns(t) = [t EXCEPT !.ext = row.ext, !.key = row.key, !.ref = row.ref,
                               !.created = row.created, !.updated = row.updated]
    BY <1>1, <1>3, <2>1 DEF Columns
  <2>3. [t EXCEPT !.ext = row.ext, !.key = row.key, !.ref = row.ref,
                  !.created = row.created, !.updated = row.updated]
        = [row EXCEPT !.ext = row.ext, !.key = row.key, !.ref = row.ref,
                      !.created = row.created, !.updated = row.updated]
    BY <1>1 DEF t, Record
  <2>4. [row EXCEPT !.ext = row.ext, !.key = row.key, !.ref = row.ref,
                    !.created = row.created, !.updated = row.updated] = row
    BY <1>1 DEF Record
  <2>. QED BY <2>2, <2>3, <2>4
<1>. QED BY <1>3, <1>9, <1>10, Sentinels DEF t

\* A row that is not concluded gives back an aggregate to work on.
LEMMA UnfinishedRestores ==
    ASSUME NEW row, SoundRow(row), ~IsTerminal(row.state)
    PROVE  LET t == Restore(row)  IN
           /\ SoundAggregate(t) /\ t.ext = row.ext /\ row.ref = nullableText(t.ref)
           /\ t.kind = row.kind /\ t.amount = row.amount /\ t.created = row.created
           /\ t.wallet = row.wallet /\ t.hash = row.hash
<1>. DEFINE t == [row EXCEPT !.ext = textOf(@), !.key = textOf(@), !.ref = textOf(@)]
<1>1. Restore(row) = t
  BY SoundRowRestores
<1>2. /\ row \in Record /\ Checked(row)
      /\ Empty \notin {row.ext, row.key, row.ref}
      /\ row.kind \in ExternalKind => ~Blank(row.ext) /\ ~Blank(row.key)
      /\ RequiresReference(row.kind) => ~Blank(row.ref)
      /\ row.state # "PENDING"
      /\ row.state = "PENDING_REFERENCE" => RequiresReference(row.kind) /\ row.resolved = Null
  BY DEF SoundRow
<1>3. /\ row.ext \in Text \cup {Null} /\ row.key \in Text \cup {Null}
      /\ row.ref \in Text \cup {Null} /\ row.state \in State
      /\ row.hash \in Hash \cup {Null}
  BY <1>2, RecordFields
<1>4. row.state = "PENDING_REFERENCE" /\ RequiresReference(row.kind) /\ row.resolved = Null
  BY <1>2, <1>3 DEF IsTerminal, State
<1>5. row.kind \in ExternalKind /\ row.kind # "OPENING" /\ AcceptsReference(row.kind)
  BY <1>4, Kinds
<1>6. /\ AmountFits(row.kind, row.amount)
      /\ row.ext # Null /\ row.key # Null /\ row.hash # Null /\ row.ref # Null
      /\ row.code = Null /\ row.balance = Null /\ row.updated >= row.created
  BY <1>2, <1>4, <1>5 DEF Checked
<1>7. t.ext = row.ext /\ t.key = row.key /\ t.ref = row.ref
  BY <1>2, <1>6 DEF textOf, Record
<1>8. /\ t.hash = row.hash /\ t.wallet = row.wallet /\ t.kind = row.kind
      /\ t.amount = row.amount /\ t.state = row.state /\ t.code = row.code /\ t.balance = row.balance
      /\ t.resolved = row.resolved /\ t.created = row.created /\ t.updated = row.updated
  BY <1>2 DEF Record
<1>9. t = row
  BY <1>2, <1>6 DEF textOf, Record
<1>. HIDE DEF t
<1>10. {t.ext, t.key, t.ref} \subseteq Text /\ row.ref = nullableText(t.ref)
  BY <1>2, <1>3, <1>6, <1>7 DEF nullableText
<1>11. SoundAggregate(t)
  BY <1>2, <1>4, <1>5, <1>6, <1>7, <1>8, <1>9, <1>10 DEF SoundAggregate
<1>. QED BY <1>1, <1>7, <1>8, <1>10, <1>11

\* What a call makes of its aggregate t: the operation is the same one.
Outcome(r, t) ==
    /\ r \in Record
    /\ r.ext = t.ext /\ r.kind = t.kind /\ r.amount = t.amount /\ r.ref = t.ref
    /\ r.state # "PENDING"
    /\ (r.state = "REJECTED") = (r.code # Null)
    /\ (r.state = "PROCESSED") = (r.balance # Null)
    /\ r.resolved # Null => RequiresReference(t.kind)
    /\ r.state = "PROCESSED" /\ RequiresReference(t.kind) => r.resolved # Null
    /\ r.state = "PENDING_REFERENCE" => RequiresReference(t.kind) /\ r.resolved = Null
    /\ r.updated >= t.created

\* Whatever a call ends with, the domain allows it.
LEMMA ResultsAreOutcomes ==
    ASSUME NEW m \in Held, SoundAggregate(m.t), NEW r \in Results(m)
    PROVE  r # Refused /\ Outcome(r, m.t)
<1>. DEFINE t == m.t
            resolved == IF RequiresReference(t.kind)
                        THEN ResolveReference(t, ReferenceId, m.now) ELSE t
            later == IF m.now < t.updated THEN t.updated ELSE m.now
            known == IF RequiresReference(t.kind)
                     THEN [t EXCEPT !.resolved = ReferenceId, !.updated = later] ELSE t
<1>1. /\ t \in Record /\ t.kind \in ExternalKind
      /\ RequiresReference(t.kind) => ~Blank(t.ref)
      /\ t.state \in {"PENDING", "PENDING_REFERENCE"}
      /\ t.state = "PENDING_REFERENCE" => RequiresReference(t.kind)
      /\ t.code = Null /\ t.balance = Null /\ t.resolved = Null
      /\ t.updated >= t.created /\ t.ref \in Text
  BY DEF SoundAggregate
<1>2. m.now \in Nat /\ t.created \in Nat /\ t.updated \in Nat
  BY <1>1, RecordFields DEF Held
<1>3. ~IsTerminal(t.state)
  BY <1>1 DEF IsTerminal
<1>4. ASSUME RequiresReference(t.kind)
      PROVE  AcceptsReference(t.kind) /\ t.ref # Empty
  BY <1>1, <1>4, Kinds, Texts
<1>5. later \in Nat /\ later >= t.updated /\ later >= t.created /\ later >= m.now
  BY <1>1, <1>2
<1>6. resolved = known
  <2>1. CASE RequiresReference(t.kind)
    <3>1. ResolveReference(t, ReferenceId, m.now) = touch([t EXCEPT !.resolved = ReferenceId], m.now)
      BY <1>1, <1>3, <1>4, <2>1 DEF ResolveReference
    <3>2. touch([t EXCEPT !.resolved = ReferenceId], m.now)
            = [t EXCEPT !.resolved = ReferenceId, !.updated = later]
      BY <1>1 DEF touch, Record
    <3>. QED BY <2>1, <3>1, <3>2
  <2>. QED BY <2>1
<1>7. /\ known \in Record /\ known.ext = t.ext /\ known.key = t.key /\ known.hash = t.hash
      /\ known.ref = t.ref /\ known.kind = t.kind /\ known.amount = t.amount
      /\ known.state = t.state /\ known.code = Null /\ known.balance = Null
      /\ known.created = t.created /\ known.updated \in Nat /\ known.updated >= t.created
      /\ known.resolved = IF RequiresReference(t.kind) THEN ReferenceId ELSE Null
  <2>1. CASE RequiresReference(t.kind)
    <3>. DEFINE x == [t EXCEPT !.resolved = ReferenceId, !.updated = later]
    <3>. HIDE DEF later, t
    <3>1. /\ x \in Record /\ x.ext = t.ext /\ x.key = t.key /\ x.hash = t.hash
          /\ x.ref = t.ref /\ x.kind = t.kind /\ x.amount = t.amount
          /\ x.state = t.state /\ x.code = t.code /\ x.balance = t.balance
          /\ x.created = t.created /\ x.updated = later /\ x.resolved = ReferenceId
      BY <1>1, <1>5 DEF Record
    <3>2. known = x
      BY <2>1
    <3>. HIDE DEF x, known
    <3>. QED BY <1>1, <1>5, <2>1, <3>1, <3>2
  <2>2. CASE ~RequiresReference(t.kind)
    <3>1. known = t
      BY <2>2
    <3>. HIDE DEF known
    <3>. QED BY <1>1, <1>2, <2>2, <3>1
  <2>. QED BY <2>1, <2>2
<1>. HIDE DEF resolved, known, later, t
<1>8. ASSUME NEW x \in Record, x.updated >= t.created, NEW y, y = touch(x, m.now)
      PROVE  /\ y \in Record /\ y.updated >= t.created
             /\ y.ext = x.ext /\ y.kind = x.kind /\ y.amount = x.amount /\ y.ref = x.ref
             /\ y.state = x.state /\ y.code = x.code /\ y.balance = x.balance
             /\ y.resolved = x.resolved
  <2>. DEFINE new == IF m.now < x.updated THEN x.updated ELSE m.now
  <2>1. x.updated \in Nat
    BY RecordFields
  <2>2. new \in Nat /\ new >= t.created
    BY <1>2, <1>8, <2>1
  <2>. HIDE DEF new
  <2>3. y = [x EXCEPT !.updated = new]
    BY <1>8 DEF touch, new
  <2>. QED BY <2>2, <2>3 DEF Record
<1>9. CASE \E b \in Balance : r = MarkAsProcessed(resolved, b, m.now)
  <2>1. PICK b \in Balance : r = MarkAsProcessed(known, b, m.now)
    BY <1>6, <1>9
  <2>2. b \in Nat /\ b # Null
    BY Sentinels
  <2>. DEFINE x == [known EXCEPT !.state = "PROCESSED", !.balance = b]
  <2>3. r = touch(x, m.now)
    BY <1>3, <1>7, <2>1, <2>2, Sentinels DEF MarkAsProcessed
  <2>4. /\ x \in Record /\ x.state = "PROCESSED" /\ x.balance = b
        /\ x.ext = t.ext /\ x.kind = t.kind /\ x.amount = t.amount /\ x.ref = t.ref
        /\ x.code = Null /\ x.resolved = known.resolved /\ x.updated = known.updated
    BY <1>7 DEF Record, State
  <2>. HIDE DEF x
  <2>5. /\ r \in Record /\ r.updated >= t.created
        /\ r.ext = x.ext /\ r.kind = x.kind /\ r.amount = x.amount /\ r.ref = x.ref
        /\ r.state = x.state /\ r.code = x.code /\ r.balance = x.balance
        /\ r.resolved = x.resolved
    BY <1>7, <1>8, <2>3, <2>4
  <2>. QED BY <1>7, <2>2, <2>4, <2>5, Sentinels DEF Outcome, t
<1>10. CASE \E x \in {t, resolved} : r = Reject(x, "refused", m.now)
  <2>1. PICK z \in {t, known} : r = Reject(z, "refused", m.now)
    BY <1>6, <1>10
  <2>2. /\ z \in Record /\ z.ext = t.ext /\ z.kind = t.kind /\ z.amount = t.amount
        /\ z.ref = t.ref /\ z.state = t.state /\ z.balance = Null /\ z.updated >= t.created
        /\ z.resolved # Null => RequiresReference(t.kind)
    BY <1>1, <1>7
  <2>21. z \in Record
    BY <2>2
  <2>. DEFINE x == [z EXCEPT !.state = "REJECTED", !.code = "refused"]
  <2>3. r = touch(x, m.now)
    BY <1>3, <2>1, <2>2 DEF Reject
  <2>4. /\ x \in Record /\ x.state = "REJECTED" /\ x.code = "refused"
        /\ x.ext = t.ext /\ x.kind = t.kind /\ x.amount = t.amount /\ x.ref = t.ref
        /\ x.balance = Null /\ x.resolved = z.resolved /\ x.updated = z.updated
    <3>1. /\ x \in Record /\ x.state = "REJECTED" /\ x.code = "refused"
          /\ x.ext = z.ext /\ x.kind = z.kind /\ x.amount = z.amount /\ x.ref = z.ref
          /\ x.balance = z.balance /\ x.resolved = z.resolved /\ x.updated = z.updated
      BY <2>21 DEF Record, State
    <3>. HIDE DEF x
    <3>. QED BY <2>2, <3>1
  <2>. HIDE DEF x
  <2>5. /\ r \in Record /\ r.updated >= t.created
        /\ r.ext = x.ext /\ r.kind = x.kind /\ r.amount = x.amount /\ r.ref = x.ref
        /\ r.state = x.state /\ r.code = x.code /\ r.balance = x.balance
        /\ r.resolved = x.resolved
    BY <1>8, <2>2, <2>3, <2>4
  <2>. QED BY <2>2, <2>4, <2>5, Sentinels DEF Outcome, t
<1>11. CASE RequiresReference(t.kind) /\ t.state = "PENDING" /\ r = MarkAsPendingReference(t, m.now)
  <2>. DEFINE x == [t EXCEPT !.state = "PENDING_REFERENCE"]
  <2>1. r = touch(x, m.now)
    BY <1>3, <1>4, <1>11 DEF MarkAsPendingReference
  <2>2. /\ x \in Record /\ x.state = "PENDING_REFERENCE" /\ x.code = Null
        /\ x.ext = t.ext /\ x.kind = t.kind /\ x.amount = t.amount /\ x.ref = t.ref
        /\ x.balance = Null /\ x.resolved = Null /\ x.updated = t.updated
    BY <1>1 DEF Record, State
  <2>. HIDE DEF x
  <2>3. /\ r \in Record /\ r.updated >= t.created
        /\ r.ext = x.ext /\ r.kind = x.kind /\ r.amount = x.amount /\ r.ref = x.ref
        /\ r.state = x.state /\ r.code = x.code /\ r.balance = x.balance
        /\ r.resolved = x.resolved
    BY <1>1, <1>8, <2>1, <2>2
  <2>. QED BY <1>11, <2>2, <2>3, Sentinels DEF Outcome, t
<1>12. \/ \E b \in Balance : r = MarkAsProcessed(resolved, b, m.now)
       \/ \E x \in {t, resolved} : r = Reject(x, "refused", m.now)
       \/ /\ RequiresReference(t.kind) /\ t.state = "PENDING"
          /\ r = MarkAsPendingReference(t, m.now)
  BY DEF Results, resolved, t
<1>. QED BY <1>9, <1>10, <1>11, <1>12

\* The row a call updates is the one of its operation, in whatever state.
OldFits(old, t) ==
    /\ old \in Record
    /\ Empty \notin {old.ext, old.key, old.ref} /\ Null \notin {old.ext, old.key, old.hash}
    /\ ~Blank(old.ext) /\ ~Blank(old.key)
    /\ old.kind = t.kind /\ old.amount = t.amount /\ old.ref = nullableText(t.ref)
    /\ old.created <= t.created /\ Micros(old.created) = old.created

\* What Insert writes passes the checks of the table.
LEMMA NewRowIsChecked ==
    ASSUME NEW t, SoundAggregate(t), t.state = "PENDING"
    PROVE  OldFits(Columns(t), t) /\ Checked(Columns(t))
<1>. DEFINE row == Columns(t)
<1>1. /\ t \in Record /\ {t.ext, t.key, t.ref} \subseteq Text
      /\ ~Blank(t.ext) /\ ~Blank(t.key)
      /\ t.hash # Null /\ t.kind \in ExternalKind /\ t.kind # "OPENING"
      /\ AmountFits(t.kind, t.amount)
      /\ RequiresReference(t.kind) => ~Blank(t.ref)
      /\ ~AcceptsReference(t.kind) => t.ref = Empty
      /\ t.code = Null /\ t.balance = Null /\ t.resolved = Null
      /\ t.updated >= t.created
  BY Kinds DEF SoundAggregate
<1>2. t.created \in Nat /\ t.updated \in Nat
  BY <1>1, RecordFields
<1>3. /\ Micros(t.created) \in Nat /\ Micros(t.created) <= t.created
      /\ Micros(t.updated) \in Nat /\ Micros(t.updated) >= Micros(t.created)
      /\ Micros(Micros(t.created)) = Micros(t.created)
  BY <1>1, <1>2, WholeMicros
<1>4. /\ nullableText(t.ext) = t.ext /\ nullableText(t.key) = t.key
      /\ t.ext # Empty /\ t.key # Empty /\ t.ext # Null /\ t.key # Null
      /\ nullableText(t.ref) \in Text \cup {Null} /\ nullableText(t.ref) # Empty
  BY <1>1, Texts, TextColumns
<1>5. (nullableText(t.ref) = Null) = (t.ref = Empty)
  BY <1>1, Texts DEF nullableText
<1>. HIDE DEF row
<1>6. row = [t EXCEPT !.ext = t.ext, !.key = t.key, !.ref = nullableText(t.ref),
                      !.created = Micros(t.created), !.updated = Micros(t.updated)]
  BY <1>1, <1>4 DEF row, Columns
<1>7. /\ row \in Record
      /\ row.ext = t.ext /\ row.key = t.key /\ row.ref = nullableText(t.ref)
      /\ row.hash = t.hash /\ row.kind = t.kind /\ row.amount = t.amount
      /\ row.state = t.state /\ row.code = t.code /\ row.balance = t.balance
      /\ row.resolved = t.resolved /\ row.created = Micros(t.created)
      /\ row.updated = Micros(t.updated)
  BY <1>1, <1>3, <1>4, <1>6 DEF Record
<1>8. OldFits(row, t)
  BY <1>1, <1>3, <1>4, <1>7 DEF OldFits
<1>9. Checked(row)
  <2>1. Null \notin {row.ext, row.key, row.hash} /\ row.kind # "OPENING"
    BY <1>1, <1>4, <1>7
  <2>2. /\ RequiresReference(row.kind) => row.ref # Null
        /\ ~AcceptsReference(row.kind) => row.ref = Null
    BY <1>1, <1>5, <1>7, Texts
  <2>3. /\ row.state = "PENDING" /\ row.code = Null /\ row.balance = Null
        /\ row.resolved = Null /\ row.updated >= row.created
        /\ AmountFits(row.kind, row.amount)
    BY <1>1, <1>3, <1>7
  <2>. QED BY <2>1, <2>2, <2>3 DEF Checked
<1>. QED BY <1>8, <1>9 DEF row

\* What Update writes is a sound row.
LEMMA UpdatedIsSound ==
    ASSUME NEW t, SoundAggregate(t), NEW old, OldFits(old, t), NEW r, Outcome(r, t)
    PROVE  LET new == Updated(old, r)  IN
           /\ SoundRow(new) /\ new.ext = old.ext /\ new.key = old.key /\ new.hash = old.hash
           /\ new.ref = old.ref /\ new.kind = old.kind /\ new.amount = old.amount
           /\ new.wallet = old.wallet /\ new.created = old.created /\ new.state = r.state
           /\ new.code = r.code /\ new.balance = r.balance /\ new.resolved = r.resolved
<1>. DEFINE new == Updated(old, r)
<1>1. /\ old \in Record
      /\ Empty \notin {old.ext, old.key, old.ref} /\ Null \notin {old.ext, old.key, old.hash}
      /\ ~Blank(old.ext) /\ ~Blank(old.key)
      /\ old.kind = t.kind /\ old.amount = t.amount /\ old.ref = nullableText(t.ref)
      /\ old.created <= t.created /\ Micros(old.created) = old.created
  BY DEF OldFits
<1>2. /\ t \in Record /\ t.ref \in Text /\ t.kind \in ExternalKind /\ t.kind # "OPENING"
      /\ AmountFits(t.kind, t.amount)
      /\ RequiresReference(t.kind) => ~Blank(t.ref)
      /\ ~AcceptsReference(t.kind) => t.ref = Empty
  BY Kinds DEF SoundAggregate
<1>3. /\ r \in Record /\ r.state # "PENDING"
      /\ (r.state = "REJECTED") = (r.code # Null)
      /\ (r.state = "PROCESSED") = (r.balance # Null)
      /\ r.resolved # Null => RequiresReference(t.kind)
      /\ r.state = "PROCESSED" /\ RequiresReference(t.kind) => r.resolved # Null
      /\ r.state = "PENDING_REFERENCE" => RequiresReference(t.kind) /\ r.resolved = Null
      /\ r.updated >= t.created
  BY DEF Outcome
<1>4. /\ t.created \in Nat /\ old.created \in Nat /\ r.updated \in Nat
      /\ r.state \in State /\ r.code \in {Null, "refused"} /\ r.balance \in Balance \cup {Null}
      /\ r.resolved \in {Null, ReferenceId}
  BY <1>1, <1>2, <1>3, RecordFields
<1>5. /\ Micros(r.updated) \in Nat /\ Micros(Micros(r.updated)) = Micros(r.updated)
      /\ Micros(r.updated) >= old.created
  <2>1. old.created <= r.updated
    BY <1>1, <1>3, <1>4
  <2>2. Micros(old.created) <= Micros(r.updated)
    BY <1>4, <2>1, WholeMicros
  <2>3. Micros(r.updated) \in Nat /\ Micros(Micros(r.updated)) = Micros(r.updated)
    BY <1>4, WholeMicros
  <2>. QED BY <1>1, <1>4, <2>2, <2>3
<1>6. /\ (old.ref = Null) = (t.ref = Empty)
      /\ RequiresReference(t.kind) => ~Blank(old.ref) /\ old.ref # Null
  <2>1. (old.ref = Null) = (t.ref = Empty)
    BY <1>1, <1>2, Texts DEF nullableText
  <2>2. ASSUME RequiresReference(t.kind)  PROVE ~Blank(old.ref) /\ old.ref # Null
    BY <1>1, <1>2, <2>1, <2>2, Texts, TextColumns
  <2>. QED BY <2>1, <2>2
<1>. HIDE DEF new
<1>7. /\ new \in Record
      /\ new.ext = old.ext /\ new.key = old.key /\ new.ref = old.ref
      /\ new.hash = old.hash /\ new.wallet = old.wallet
      /\ new.kind = old.kind /\ new.amount = old.amount
      /\ new.state = r.state /\ new.code = r.code /\ new.balance = r.balance
      /\ new.resolved = r.resolved /\ new.created = old.created
      /\ new.updated = Micros(r.updated)
  BY <1>1, <1>4, <1>5 DEF Record, Updated, new
<1>8. Checked(new)
  <2>1. Null \notin {new.ext, new.key, new.hash} /\ new.kind # "OPENING"
    BY <1>1, <1>2, <1>7
  <2>2. /\ RequiresReference(new.kind) => new.ref # Null
        /\ ~AcceptsReference(new.kind) => new.ref = Null
    BY <1>1, <1>2, <1>6, <1>7
  <2>3. /\ new.resolved # Null => new.ref # Null
        /\ new.state = "PROCESSED" /\ RequiresReference(new.kind) => new.resolved # Null
        /\ new.state = "PENDING_REFERENCE" => AcceptsReference(new.kind)
    BY <1>1, <1>3, <1>6, <1>7, Kinds
  <2>4. /\ (new.state = "REJECTED") = (new.code # Null)
        /\ (new.state = "PROCESSED") = (new.balance # Null)
        /\ new.updated >= new.created /\ AmountFits(new.kind, new.amount)
    BY <1>1, <1>2, <1>3, <1>5, <1>7
  <2>5. new.balance # Null => new.balance >= 0
    <3>1. \A b \in Balance : b \in Nat
      BY Sentinels
    <3>2. new.balance \in Balance \cup {Null}
      BY <1>4, <1>7
    <3>3. new.balance # Null => new.balance \in Nat
      BY ONLY <3>1, <3>2
    <3>. QED BY ONLY <3>3
  <2>6. IF new.kind = "OPENING" THEN {new.ext, new.key, new.hash} = {Null}
                                 ELSE Null \notin {new.ext, new.key, new.hash}
    BY <2>1
  <2>. QED BY ONLY <2>2, <2>3, <2>4, <2>5, <2>6, Zenon DEF Checked
<1>9. SoundRow(new)
  <2>1. Empty \notin {new.ext, new.key, new.ref} /\ ~Blank(new.ext) /\ ~Blank(new.key)
    BY <1>1, <1>7
  <2>2. /\ RequiresReference(new.kind) => ~Blank(new.ref)
        /\ new.state # "PENDING"
        /\ new.state = "PENDING_REFERENCE" => RequiresReference(new.kind) /\ new.resolved = Null
    BY <1>1, <1>3, <1>6, <1>7
  <2>3. Micros(new.created) = new.created /\ Micros(new.updated) = new.updated
    BY <1>1, <1>5, <1>7
  <2>. QED BY <1>7, <1>8, <2>1, <2>2, <2>3 DEF SoundRow
<1>. QED BY <1>7, <1>9 DEF new

\* An event that is built is one the publisher restores.
LEMMA EnvelopeRestores ==
    ASSUME NEW type \in EventType, NEW trace \in Trace, trace # NilId, NEW data \in SubjectRecord
    PROVE  LET v == newEnvelope(type, trace, data)  IN
           /\ v \in Envelope /\ v # Refused /\ RestoreEnvelope(v) = v
           /\ v.type = type /\ v.data = data
<1>. DEFINE v == newEnvelope(type, trace, data)
<1>1. v = [type |-> type, aggregate |-> aggregateFor(type), trace |-> trace, data |-> data]
  BY DEF newEnvelope
<1>. HIDE DEF v
<1>2. v \in Envelope
  BY <1>1 DEF Envelope, aggregateFor
<1>3. /\ v.type = type /\ v.aggregate = aggregateFor(v.type) /\ v.trace = trace /\ v.data = data
  BY <1>1
<1>4. RestoreEnvelope(v) = v
  BY <1>3, Sentinels DEF RestoreEnvelope
<1>. QED BY <1>2, <1>3, <1>4, Sentinels DEF v

\* Every outcome can be announced.
LEMMA OutcomesAreAnnounced ==
    ASSUME NEW r \in Record, r.ext \in Text, r.ref \in Text,
           AmountFits(r.kind, r.amount), r.state # "PENDING",
           r.state = "PROCESSED" => r.balance # Null,
           r.state = "REJECTED" => r.code # Null,
           r.state = "PENDING_REFERENCE" => r.ref # Empty,
           NEW trace \in Trace, trace # NilId,
           NEW v \in Announced(r, trace)
    PROVE  /\ v # Refused /\ v \in Envelope /\ RestoreEnvelope(v) = v /\ v.data = Subject(r)
           /\ v.type = "WagerTransactionPendingReference" \/ IsTerminal(r.state)
<1>. DEFINE data == Subject(r)
<1>1. data \in SubjectRecord
  BY RecordFields DEF Subject, SubjectRecord
<1>2. r.state \in State /\ r.amount \in Int
  BY RecordFields
<1>. HIDE DEF data
<1>3. CASE r.state = "PROCESSED"
  <2>1. NewWagerTransactionProcessed(r, trace) = newEnvelope("WagerTransactionProcessed", trace, data)
    BY <1>3 DEF NewWagerTransactionProcessed, data
  <2>2. r.kind # "LOSS" =>
          NewWalletBalanceChanged(r, trace) = newEnvelope("WalletBalanceChanged", trace, data)
    BY <1>2 DEF NewWalletBalanceChanged, AmountFits, data
  <2>3. \/ v = newEnvelope("WagerTransactionProcessed", trace, data)
        \/ v = newEnvelope("WalletBalanceChanged", trace, data)
    BY <1>3, <2>1, <2>2 DEF Announced
  <2>4. {"WagerTransactionProcessed", "WalletBalanceChanged"} \subseteq EventType
    BY DEF EventType, TransactionEvent
  <2>. QED BY <1>1, <1>3, <2>3, <2>4, EnvelopeRestores DEF IsTerminal, data
<1>4. CASE r.state = "REJECTED"
  <2>1. v = newEnvelope("WagerTransactionRejected", trace, data)
    BY <1>4 DEF Announced, NewWagerTransactionRejected, data
  <2>2. "WagerTransactionRejected" \in EventType
    BY DEF EventType, TransactionEvent
  <2>. QED BY <1>1, <1>4, <2>1, <2>2, EnvelopeRestores DEF IsTerminal, data
<1>5. CASE r.state = "PENDING_REFERENCE"
  <2>1. v = newEnvelope("WagerTransactionPendingReference", trace, data)
    BY <1>5 DEF Announced, NewWagerTransactionPendingReference, data
  <2>2. "WagerTransactionPendingReference" \in EventType
    BY DEF EventType, TransactionEvent
  <2>. QED BY <1>1, <2>1, <2>2, EnvelopeRestores DEF data
<1>. QED BY <1>2, <1>3, <1>4, <1>5 DEF State

-----------------------------------------------------------------------------
(* The inductive invariant. *)

\* What no step does to a stored row.
Kept ==
    \A e \in Text : table[e] # Null =>
        /\ table'[e] # Null
        /\ table'[e].kind = table[e].kind /\ table'[e].amount = table[e].amount
        /\ table'[e].ref = table[e].ref /\ table'[e].created = table[e].created
        /\ IsTerminal(table[e].state) => table'[e] = table[e]

LEMMA CallsAreKept ==
    ASSUME Kept, NEW m, CallFits(m)
    PROVE  CallFits(m)'
<1>. DEFINE t == m.t
<1>1. /\ SoundAggregate(t) /\ m.trace # NilId
      /\ m.fresh => t.state = "PENDING" /\ \E c \in Command : RowOf(Columns(t), c)
  BY DEF CallFits
<1>2. CASE m.fresh
  BY <1>1, <1>2 DEF CallFits
<1>3. CASE ~m.fresh
  <2>1. /\ t.ext \in Text /\ table[t.ext] # Null
        /\ table[t.ext].kind = t.kind /\ table[t.ext].amount = t.amount
        /\ table[t.ext].ref = nullableText(t.ref) /\ table[t.ext].created = t.created
    BY <1>3 DEF CallFits, SoundAggregate
  <2>2. /\ table'[t.ext] # Null
        /\ table'[t.ext].kind = t.kind /\ table'[t.ext].amount = t.amount
        /\ table'[t.ext].ref = nullableText(t.ref) /\ table'[t.ext].created = t.created
    BY <2>1 DEF Kept
  <2>. QED BY <1>1, <1>3, <2>2 DEF CallFits
<1>. QED BY <1>2, <1>3

LEMMA EventsAreKept ==
    ASSUME Kept, NEW v \in Envelope, EventFits(v)
    PROVE  EventFits(v)'
<1>. DEFINE e == IF v.data.kind = "OPENING" THEN Opening ELSE v.data.ext
<1>1. e \in Text
  BY Texts DEF Envelope, SubjectRecord, Opening
<1>2. /\ RestoreEnvelope(v) = v /\ table[e] # Null
      /\ \/ v.type = "WagerTransactionPendingReference"
         \/ /\ IsTerminal(table[e].state)
            /\ <<v.data.code, v.data.balance, v.data.resolved>>
                 = <<table[e].code, table[e].balance, table[e].resolved>>
  BY DEF EventFits
<1>3. table'[e] # Null /\ (IsTerminal(table[e].state) => table'[e] = table[e])
  BY <1>1, <1>2 DEF Kept
<1>. HIDE DEF e
<1>4. /\ RestoreEnvelope(v) = v /\ table'[e] # Null
      /\ \/ v.type = "WagerTransactionPendingReference"
         \/ /\ IsTerminal(table'[e].state)
            /\ <<v.data.code, v.data.balance, v.data.resolved>>
                 = <<table'[e].code, table'[e].balance, table'[e].resolved>>
  BY <1>2, <1>3
<1>. QED BY <1>4 DEF EventFits, e

\* A write of the row e with its events, which leaves the invariant as it was.
Writes(e, new, events) ==
    /\ e \in Text
    /\ table' = [table EXCEPT ![e] = new] /\ outbox' = outbox \cup events
    /\ SoundRow(new)
    /\ (new.kind = "OPENING") = (e = Opening)
    /\ e # Opening => new.ext = e /\ \E c \in Command : RowOf(new, c)
    /\ table[e] # Null =>
         /\ new.kind = table[e].kind /\ new.amount = table[e].amount
         /\ new.ref = table[e].ref /\ new.created = table[e].created
         /\ ~IsTerminal(table[e].state)
    /\ \A v \in events :
         /\ v \in Envelope /\ RestoreEnvelope(v) = v
         /\ (IF v.data.kind = "OPENING" THEN Opening ELSE v.data.ext) = e
         /\ \/ v.type = "WagerTransactionPendingReference"
            \/ /\ IsTerminal(new.state)
               /\ <<v.data.code, v.data.balance, v.data.resolved>>
                    = <<new.code, new.balance, new.resolved>>

LEMMA WritesKeepRecords ==
    ASSUME Records, NEW e, NEW new, NEW events, Writes(e, new, events),
           mem' \in [Call -> Held \cup {Null}],
           \A p \in Call : mem'[p] \in {Null, mem[p]}
    PROVE  Records'
<1>1. /\ table \in [Text -> Record \cup {Null}] /\ mem \in [Call -> Held \cup {Null}]
      /\ outbox \subseteq Envelope
  BY DEF Records, Typed
<1>2. /\ e \in Text
      /\ table' = [table EXCEPT ![e] = new] /\ outbox' = outbox \cup events
      /\ SoundRow(new)
      /\ (new.kind = "OPENING") = (e = Opening)
      /\ e # Opening => new.ext = e /\ \E c \in Command : RowOf(new, c)
      /\ table[e] # Null =>
           /\ new.kind = table[e].kind /\ new.amount = table[e].amount
           /\ new.ref = table[e].ref /\ new.created = table[e].created
           /\ ~IsTerminal(table[e].state)
  BY DEF Writes
<1>3. \A v \in events :
         /\ v \in Envelope /\ RestoreEnvelope(v) = v
         /\ (IF v.data.kind = "OPENING" THEN Opening ELSE v.data.ext) = e
         /\ \/ v.type = "WagerTransactionPendingReference"
            \/ /\ IsTerminal(new.state)
               /\ <<v.data.code, v.data.balance, v.data.resolved>>
                    = <<new.code, new.balance, new.resolved>>
  BY DEF Writes
<1>4. new \in Record /\ new # Null
  BY <1>2, Sentinels DEF SoundRow
<1>5. table'[e] = new /\ \A x \in Text \ {e} : table'[x] = table[x]
  BY <1>1, <1>2
<1>6. Kept
  <2>. SUFFICES ASSUME NEW x \in Text, table[x] # Null
                PROVE  /\ table'[x] # Null
                       /\ table'[x].kind = table[x].kind /\ table'[x].amount = table[x].amount
                       /\ table'[x].ref = table[x].ref /\ table'[x].created = table[x].created
                       /\ IsTerminal(table[x].state) => table'[x] = table[x]
    BY DEF Kept
  <2>1. CASE x = e
    BY <1>2, <1>4, <1>5, <2>1
  <2>2. CASE x # e
    BY <1>5, <2>2
  <2>. QED BY <2>1, <2>2
<1>7. Typed'
  <2>1. table' \in [Text -> Record \cup {Null}]
    BY <1>1, <1>2, <1>4
  <2>2. outbox' \subseteq Envelope
    BY <1>1, <1>2, <1>3
  <2>. QED BY <2>1, <2>2 DEF Typed
<1>8. Rows'
  <2>. SUFFICES ASSUME NEW x \in Text, table'[x] # Null
                PROVE  /\ SoundRow(table'[x])
                       /\ (table'[x].kind = "OPENING") = (x = Opening)
                       /\ x # Opening =>
                            table'[x].ext = x /\ \E c \in Command : RowOf(table'[x], c)
    BY DEF Rows
  <2>1. CASE x = e
    BY <1>2, <1>5, <2>1
  <2>2. CASE x # e
    <3>1. table'[x] = table[x]
      BY <1>5, <2>2
    <3>. QED BY <3>1 DEF Records, Rows
  <2>. QED BY <2>1, <2>2
<1>9. Calls'
  <2>. SUFFICES ASSUME NEW p \in Call, mem'[p] # Null  PROVE CallFits(mem[p])'
    BY DEF Calls
  <2>1. mem'[p] = mem[p] /\ CallFits(mem[p])
    BY DEF Records, Calls
  <2>2. PICK m : m = mem[p]
    OBVIOUS
  <2>3. CallFits(m)'
    BY <1>6, <2>1, <2>2, CallsAreKept
  <2>4. (mem[p])' = m
    BY <2>1, <2>2
  <2>. QED BY <2>3, <2>4 DEF CallFits
<1>10. Events'
  <2>. SUFFICES ASSUME NEW v \in outbox'  PROVE EventFits(v)'
    BY DEF Events
  <2>1. CASE v \in outbox
    <3>1. EventFits(v) /\ v \in Envelope
      BY <1>1, <2>1 DEF Records, Events
    <3>. QED BY <1>6, <3>1, EventsAreKept
  <2>2. CASE v \in events
    <3>1. (IF v.data.kind = "OPENING" THEN Opening ELSE v.data.ext) = e
      BY <1>3, <2>2
    <3>2. /\ RestoreEnvelope(v) = v /\ table'[e] # Null
          /\ \/ v.type = "WagerTransactionPendingReference"
             \/ /\ IsTerminal(table'[e].state)
                /\ <<v.data.code, v.data.balance, v.data.resolved>>
                     = <<table'[e].code, table'[e].balance, table'[e].resolved>>
      BY <1>3, <1>4, <1>5, <2>2
    <3>. QED BY <3>1, <3>2 DEF EventFits
  <2>. QED BY <1>2, <2>1, <2>2
<1>. QED BY <1>7, <1>8, <1>9, <1>10 DEF Records

LEMMA RecordsInit == Init => Records
<1>. SUFFICES ASSUME Init  PROVE Records
  OBVIOUS
<1>1. /\ \A e \in Text : table[e] = Null
      /\ \A p \in Call : mem[p] = Null
      /\ outbox = {}
  BY DEF Init
<1>2. Typed
  BY <1>1 DEF Init, Typed
<1>. QED BY <1>1, <1>2 DEF Records, Rows, Calls, Events

LEMMA OpenWalletKeeps ==
    ASSUME Records, NEW wallet \in Wallet, NEW amount \in Balance, OpenWallet(wallet, amount)
    PROVE  Records'
<1>. DEFINE t == NewOpeningTransaction(wallet, amount, 2)
            row == Columns(t)
            events == Announced(t, NewId)
<1>1. /\ table[Opening] = Null
      /\ t # Refused /\ Checked(row)
      /\ table' = [table EXCEPT ![Opening] = row]
      /\ outbox' = outbox \cup events
      /\ mem' = mem
  BY DEF OpenWallet, Save
<1>2. amount \in Nat /\ amount # Null
  BY Sentinels
<1>3. /\ AmountFits("OPENING", amount)
      /\ t = [ext |-> Opening, key |-> Empty, hash |-> Null, ref |-> Empty,
              wallet |-> wallet, kind |-> "OPENING", amount |-> amount, state |-> "PROCESSED", code |-> Null, balance |-> amount,
              resolved |-> Null, created |-> 2, updated |-> 2]
  BY <1>1 DEF NewOpeningTransaction, Aggregate
<1>. HIDE DEF t
<1>4. /\ t \in Record
      /\ t.ext = Opening /\ t.key = Empty /\ t.hash = Null /\ t.ref = Empty
      /\ t.kind = "OPENING" /\ t.amount = amount /\ t.state = "PROCESSED" /\ t.code = Null
      /\ t.balance = amount /\ t.resolved = Null /\ t.created = 2 /\ t.updated = 2
  BY <1>2, <1>3, Texts DEF Record, State, Opening
<1>. HIDE DEF row, events
<1>5. /\ row \in Record
      /\ row.ext = Null /\ row.key = Null /\ row.ref = Null /\ row.hash = Null
      /\ row.kind = "OPENING" /\ row.amount = amount /\ row.state = "PROCESSED"
      /\ row.code = Null /\ row.balance = amount /\ row.resolved = Null
      /\ row.created = Micros(2) /\ row.updated = Micros(2)
  <2>1. row = [t EXCEPT !.ext = Null, !.key = Null, !.ref = Null,
                        !.created = Micros(2), !.updated = Micros(2)]
    BY <1>3 DEF row, Columns, nullableText, Opening
  <2>2. Micros(2) \in Nat
    BY WholeMicros
  <2>. QED BY <1>4, <2>1, <2>2 DEF Record
<1>6. SoundRow(row)
  <2>1. Empty # Null
    BY Texts
  <2>2. Micros(Micros(2)) = Micros(2)
    BY WholeMicros
  <2>3. row.kind \notin ExternalKind /\ ~RequiresReference(row.kind)
    BY <1>5, Kinds
  <2>. QED BY <1>1, <1>5, <2>1, <2>2, <2>3 DEF SoundRow
<1>7. ASSUME NEW v \in events
      PROVE  /\ v \in Envelope /\ RestoreEnvelope(v) = v
             /\ v.data.kind = "OPENING"
             /\ <<v.data.code, v.data.balance, v.data.resolved>>
                  = <<row.code, row.balance, row.resolved>>
  <2>1. NewId \in Trace /\ NewId # NilId
    BY ContractAssumption DEF Trace
  <2>2. v \in Envelope /\ RestoreEnvelope(v) = v /\ v.data = Subject(t)
    BY <1>2, <1>3, <1>4, <1>7, <2>1, Texts, OutcomesAreAnnounced DEF events, Opening
  <2>. QED BY <1>4, <1>5, <2>2 DEF Subject
<1>8. Writes(Opening, row, events)
  <2>1. Opening \in Text
    BY Texts DEF Opening
  <2>2. IsTerminal(row.state)
    BY <1>5 DEF IsTerminal
  <2>. QED BY <1>1, <1>5, <1>6, <1>7, <2>1, <2>2 DEF Writes
<1>9. mem' \in [Call -> Held \cup {Null}]
  BY <1>1 DEF Records, Typed
<1>. QED BY <1>1, <1>8, <1>9, WritesKeepRecords

\* A call that takes an aggregate into memory leaves the rest alone.
LEMMA HoldingKeeps ==
    ASSUME Records, NEW p \in Call, NEW m \in Held, CallFits(m),
           mem' = [mem EXCEPT ![p] = m], table' = table, outbox' = outbox
    PROVE  Records'
<1>1. Typed'
  BY DEF Records, Typed
<1>2. Rows' /\ Events'
  <2>1. Rows /\ Events
    BY DEF Records
  <2>2. Rows'
    BY <2>1 DEF Rows
  <2>3. Events'
    <3>1. \A v \in outbox : EventFits(v)'
      BY <2>1 DEF Events, EventFits
    <3>. QED BY <3>1 DEF Events
  <2>. QED BY <2>2, <2>3
<1>3. Calls'
  <2>. SUFFICES ASSUME NEW q \in Call, mem'[q] # Null  PROVE CallFits(mem[q])'
    BY DEF Calls
  <2>1. PICK x : x = mem'[q]
    OBVIOUS
  <2>2. CallFits(x)
    <3>1. CASE q = p
      BY <2>1, <3>1 DEF Records, Typed
    <3>2. CASE q # p
      <4>1. mem'[q] = mem[q]
        BY <3>2
      <4>. QED BY <2>1, <4>1 DEF Records, Calls
    <3>. QED BY <3>1, <3>2
  <2>3. CallFits(x)'
    BY <2>2 DEF CallFits
  <2>. QED BY <2>1, <2>3 DEF CallFits
<1>. QED BY <1>1, <1>2, <1>3 DEF Records

LEMMA HeldFields ==
    ASSUME NEW t \in Record, NEW now \in Nat, NEW new \in BOOLEAN, NEW trace \in Trace,
           NEW m, m = [t |-> t, now |-> now, fresh |-> new, trace |-> trace]
    PROVE  m \in Held /\ m.t = t /\ m.now = now /\ m.fresh = new /\ m.trace = trace
  BY DEF Held

LEMMA ExecuteKeeps ==
    ASSUME Records, NEW p \in Call, NEW c \in Command, NEW now \in Instant, Execute(p, c, now)
    PROVE  Records'
<1>. DEFINE fresh == table[c.ext] = Null
            t == IF fresh THEN NewExternalTransaction(c, now) ELSE Restore(table[c.ext])
            m == [t |-> t, now |-> now, fresh |-> fresh, trace |-> c.trace]
<1>1. /\ t # Refused /\ ~IsTerminal(t.state)
      /\ mem' = [mem EXCEPT ![p] = m] /\ table' = table /\ outbox' = outbox
  BY DEF Execute
<1>2. now \in Nat
  BY RecordAssumption DEF Instant
<1>3. c.ext \in Text /\ ~Blank(c.ext) /\ c.trace \in Trace /\ c.trace # NilId
  BY CommandFacts
<1>4. c \in Command
  OBVIOUS
<1>5. /\ SoundAggregate(t)
      /\ IF fresh
         THEN t.state = "PENDING" /\ RowOf(Columns(t), c)
         ELSE /\ table[t.ext] # Null
              /\ table[t.ext].kind = t.kind /\ table[t.ext].amount = t.amount
              /\ table[t.ext].ref = nullableText(t.ref)
              /\ table[t.ext].created = t.created
  <2>1. CASE fresh
    <3>1. t = NewExternalTransaction(c, now)
      BY <2>1
    <3>2. SoundAggregate(t) /\ t.state = "PENDING" /\ RowOf(Columns(t), c)
      BY <1>1, <1>2, <3>1, NewIsSound
    <3>. QED BY <2>1, <3>2
  <2>2. CASE ~fresh
    <3>. DEFINE row == table[c.ext]
    <3>1. t = Restore(row)
      BY <2>2
    <3>2. SoundRow(row) /\ row.ext = c.ext
      BY <1>3, <2>2, Texts DEF Records, Rows, Opening
    <3>3. t.state = row.state
      <4>1. t = [row EXCEPT !.ext = textOf(@), !.key = textOf(@), !.ref = textOf(@)]
        BY <3>1, <3>2, SoundRowRestores
      <4>2. row \in Record
        BY <3>2 DEF SoundRow
      <4>. HIDE DEF t, row
      <4>. QED BY <4>1, <4>2 DEF Record
    <3>4. /\ SoundAggregate(t) /\ t.ext = row.ext /\ row.ref = nullableText(t.ref)
          /\ t.kind = row.kind /\ t.amount = row.amount /\ t.created = row.created
      BY <1>1, <3>1, <3>2, <3>3, UnfinishedRestores
    <3>5. row # Null /\ t.ext = c.ext
      BY <2>2, <3>2, <3>4
    <3>. HIDE DEF t
    <3>. QED BY <2>2, <3>4, <3>5
  <2>. QED BY <2>1, <2>2
<1>6. PICK new \in BOOLEAN : new = fresh
  OBVIOUS
<1>. HIDE DEF t
<1>7. t \in Record
  BY <1>5 DEF SoundAggregate
<1>8. m = [t |-> t, now |-> now, fresh |-> new, trace |-> c.trace]
  BY <1>6
<1>. HIDE DEF m
<1>9. m \in Held /\ m.t = t /\ m.fresh = new /\ m.trace = c.trace
  BY <1>2, <1>3, <1>7, <1>8, HeldFields
<1>10. CallFits(m)
  BY <1>3, <1>4, <1>5, <1>6, <1>9 DEF CallFits
<1>. QED BY <1>1, <1>9, <1>10, HoldingKeeps

LEMMA ResumeKeeps ==
    ASSUME Records, NEW p \in Call, NEW e \in Text, NEW now \in Instant, Resume(p, e, now)
    PROVE  Records'
<1>. DEFINE row == table[e]
            t == Restore(row)
            m == [t |-> t, now |-> now, fresh |-> FALSE, trace |-> NewId]
<1>1. /\ row # Null /\ row.state = "PENDING_REFERENCE" /\ t # Refused
      /\ mem' = [mem EXCEPT ![p] = m] /\ table' = table /\ outbox' = outbox
  BY DEF Resume
<1>2. now \in Nat /\ NewId \in Trace /\ NewId # NilId
  BY RecordAssumption, ContractAssumption DEF Instant, Trace
<1>3. SoundRow(row) /\ ~IsTerminal(row.state)
  BY <1>1 DEF Records, Rows, IsTerminal
<1>4. row.ext = e
  <2>1. row.kind # "OPENING"
    BY <1>1, <1>3, Kinds DEF SoundRow
  <2>. QED BY <1>1, <2>1 DEF Records, Rows
<1>5. /\ SoundAggregate(t) /\ t.ext = row.ext /\ row.ref = nullableText(t.ref)
      /\ t.kind = row.kind /\ t.amount = row.amount /\ t.created = row.created
  BY <1>3, UnfinishedRestores
<1>. HIDE DEF t
<1>6. t \in Record
  BY <1>5 DEF SoundAggregate
<1>61. PICK new \in BOOLEAN : new = FALSE
  OBVIOUS
<1>62. m = [t |-> t, now |-> now, fresh |-> new, trace |-> NewId]
  BY <1>61
<1>. HIDE DEF m
<1>63. m \in Held /\ m.t = t /\ m.fresh = new /\ m.trace = NewId
  BY <1>2, <1>6, <1>62, HeldFields
<1>7. m \in Held /\ m.t = t /\ ~m.fresh /\ m.trace = NewId
  BY <1>61, <1>63
<1>8. CallFits(m)
  BY <1>1, <1>2, <1>4, <1>5, <1>7 DEF CallFits
<1>. QED BY <1>1, <1>7, <1>8, HoldingKeeps

\* The row of the operation of a call, as the call finds it.
LEMMA RowOfCall ==
    ASSUME Records, NEW m \in Held, CallFits(m)
    PROVE  LET old == IF m.fresh THEN Columns(m.t) ELSE table[m.t.ext]  IN
           /\ OldFits(old, m.t) /\ (m.fresh => Checked(old))
           /\ old.ext = m.t.ext /\ \E c \in Command : RowOf(old, c)
<1>. DEFINE t == m.t
            old == IF m.fresh THEN Columns(t) ELSE table[t.ext]
<1>1. SoundAggregate(t)
  BY DEF CallFits
<1>2. t.ext \in Text /\ ~Blank(t.ext) /\ t.ext # Opening /\ t.kind \in ExternalKind /\ t \in Record
  BY <1>1, Texts DEF SoundAggregate, Opening
<1>3. CASE m.fresh
  <2>1. t.state = "PENDING" /\ \E c \in Command : RowOf(Columns(t), c)
    BY <1>3 DEF CallFits
  <2>2. OldFits(Columns(t), t) /\ Checked(Columns(t))
    BY <1>1, <2>1, NewRowIsChecked
  <2>3. Columns(t).ext = t.ext
    <3>1. nullableText(t.ext) = t.ext
      BY <1>2, Texts, TextColumns
    <3>. HIDE DEF t
    <3>. QED BY <1>2, <3>1 DEF Columns, Record
  <2>. QED BY <1>3, <2>1, <2>2, <2>3
<1>4. CASE ~m.fresh
  <2>. DEFINE row == table[t.ext]
  <2>1. /\ row # Null /\ row.kind = t.kind /\ row.amount = t.amount
        /\ row.ref = nullableText(t.ref) /\ row.created = t.created
    BY <1>4 DEF CallFits
  <2>2. SoundRow(row) /\ row.ext = t.ext /\ \E c \in Command : RowOf(row, c)
    BY <1>2, <2>1 DEF Records, Rows
  <2>3. row.kind \in ExternalKind /\ row.kind # "OPENING" /\ t.created \in Nat
    BY <1>2, <2>1, Kinds, RecordFields
  <2>. HIDE DEF row
  <2>4. Null \notin {row.ext, row.key, row.hash}
    BY <2>2, <2>3 DEF SoundRow, Checked
  <2>5. OldFits(row, t)
    BY <2>1, <2>2, <2>3, <2>4 DEF SoundRow, OldFits
  <2>. QED BY <1>4, <2>2, <2>5 DEF row
<1>. QED BY <1>3, <1>4

\* An outcome of a call, as it is written and announced.
LEMMA OutcomeOfCall ==
    ASSUME Records, NEW m \in Held, CallFits(m), NEW r \in Results(m)
    PROVE  LET old == IF m.fresh THEN Columns(m.t) ELSE table[m.t.ext]
               new == Updated(old, r)
           IN  /\ r # Refused
               /\ SoundRow(new) /\ new.ext = m.t.ext /\ new.kind = m.t.kind
               /\ new.kind = old.kind /\ new.amount = old.amount
               /\ new.ref = old.ref /\ new.created = old.created
               /\ \E c \in Command : RowOf(new, c)
               /\ \A v \in Announced(r, m.trace) :
                    /\ v # Refused /\ v \in Envelope /\ RestoreEnvelope(v) = v
                    /\ v.data.ext = m.t.ext /\ v.data.kind = m.t.kind
                    /\ \/ v.type = "WagerTransactionPendingReference"
                       \/ /\ IsTerminal(new.state)
                          /\ <<v.data.code, v.data.balance, v.data.resolved>>
                               = <<new.code, new.balance, new.resolved>>
<1>. DEFINE t == m.t
            old == IF m.fresh THEN Columns(t) ELSE table[t.ext]
            new == Updated(old, r)
<1>1. SoundAggregate(t) /\ m.trace # NilId /\ m.trace \in Trace
  BY DEF CallFits, Held
<1>2. /\ OldFits(old, t) /\ old.ext = t.ext /\ \E c \in Command : RowOf(old, c)
  BY RowOfCall
<1>3. r # Refused /\ Outcome(r, t)
  BY <1>1, ResultsAreOutcomes
<1>. HIDE DEF t, old
<1>4. /\ SoundRow(new) /\ new.ext = old.ext /\ new.key = old.key /\ new.hash = old.hash
      /\ new.ref = old.ref /\ new.kind = old.kind /\ new.amount = old.amount
      /\ new.wallet = old.wallet /\ new.created = old.created /\ new.state = r.state
      /\ new.code = r.code /\ new.balance = r.balance /\ new.resolved = r.resolved
  BY <1>1, <1>2, <1>3, UpdatedIsSound
<1>. HIDE DEF new
<1>5. old.kind = t.kind
  BY <1>2 DEF OldFits
<1>6. \E c \in Command : RowOf(new, c)
  BY <1>2, <1>4 DEF RowOf
<1>7. ASSUME NEW v \in Announced(r, m.trace)
      PROVE  /\ v # Refused /\ v \in Envelope /\ RestoreEnvelope(v) = v
             /\ v.data.ext = t.ext /\ v.data.kind = t.kind
             /\ \/ v.type = "WagerTransactionPendingReference"
                \/ /\ IsTerminal(new.state)
                   /\ <<v.data.code, v.data.balance, v.data.resolved>>
                        = <<new.code, new.balance, new.resolved>>
  <2>1. /\ r \in Record /\ r.ext = t.ext /\ r.ref = t.ref /\ r.kind = t.kind
        /\ r.amount = t.amount /\ r.state # "PENDING"
        /\ r.state = "PROCESSED" => r.balance # Null
        /\ r.state = "REJECTED" => r.code # Null
        /\ r.state = "PENDING_REFERENCE" => RequiresReference(t.kind)
    BY <1>3 DEF Outcome
  <2>2. /\ t.ext \in Text /\ t.ref \in Text /\ AmountFits(t.kind, t.amount)
        /\ RequiresReference(t.kind) => t.ref # Empty
    BY <1>1, Texts DEF SoundAggregate
  <2>3. /\ r.ext \in Text /\ r.ref \in Text /\ AmountFits(r.kind, r.amount)
        /\ r.state = "PENDING_REFERENCE" => r.ref # Empty
    BY <2>1, <2>2
  <2>4. /\ v # Refused /\ v \in Envelope /\ RestoreEnvelope(v) = v /\ v.data = Subject(r)
        /\ v.type = "WagerTransactionPendingReference" \/ IsTerminal(r.state)
    BY <1>1, <1>7, <2>1, <2>3, OutcomesAreAnnounced
  <2>5. /\ Subject(r).ext = t.ext /\ Subject(r).kind = t.kind /\ Subject(r).code = new.code
        /\ Subject(r).balance = new.balance /\ Subject(r).resolved = new.resolved
    BY <1>4, <2>1 DEF Subject
  <2>. QED BY <1>4, <2>4, <2>5
<1>8. /\ r # Refused
      /\ SoundRow(new) /\ new.ext = t.ext /\ new.kind = t.kind
      /\ new.kind = old.kind /\ new.amount = old.amount
      /\ new.ref = old.ref /\ new.created = old.created
  BY <1>2, <1>3, <1>4, <1>5
<1>. QED BY <1>6, <1>7, <1>8 DEF t, old, new

LEMMA CommitKeeps ==
    ASSUME Records, NEW p \in Call, mem[p] # Null, NEW r \in Results(mem[p]), Commit(p, r)
    PROVE  Records'
<1>1. PICK m : m = mem[p]
  OBVIOUS
<1>2. m \in Held /\ CallFits(m) /\ r \in Results(m)
  BY <1>1 DEF Records, Typed, Calls
<1>. DEFINE t == m.t
            old == IF m.fresh THEN Columns(t) ELSE table[t.ext]
            new == Updated(old, r)
            events == Announced(r, m.trace)
<1>3. /\ m.fresh => table[t.ext] = Null
      /\ GuardUpdate(old, new)
      /\ table' = [table EXCEPT ![t.ext] = new]
      /\ outbox' = outbox \cup events
      /\ mem' = [mem EXCEPT ![p] = Null]
  BY <1>1 DEF Commit, Save
<1>4. t.ext \in Text /\ t.ext # Opening /\ t.kind \in ExternalKind /\ t.kind # "OPENING"
  BY <1>2, Texts, Kinds DEF CallFits, SoundAggregate, Opening
<1>5. /\ SoundRow(new) /\ new.ext = t.ext /\ new.kind = t.kind
      /\ new.kind = old.kind /\ new.amount = old.amount
      /\ new.ref = old.ref /\ new.created = old.created
      /\ \E c \in Command : RowOf(new, c)
  BY <1>2, OutcomeOfCall
<1>6. ASSUME NEW v \in events
      PROVE  /\ v \in Envelope /\ RestoreEnvelope(v) = v
             /\ v.data.ext = t.ext /\ v.data.kind = t.kind
             /\ \/ v.type = "WagerTransactionPendingReference"
                \/ /\ IsTerminal(new.state)
                   /\ <<v.data.code, v.data.balance, v.data.resolved>>
                        = <<new.code, new.balance, new.resolved>>
  BY <1>2, <1>6, OutcomeOfCall
<1>. HIDE DEF new, events
<1>7. table[t.ext] # Null => old = table[t.ext]
  BY <1>3
<1>8. ~IsTerminal(old.state)
  BY <1>3 DEF GuardUpdate
<1>. HIDE DEF t, old
<1>9. ASSUME NEW v \in events
      PROVE  (IF v.data.kind = "OPENING" THEN Opening ELSE v.data.ext) = t.ext
  BY <1>4, <1>6
<1>10. Writes(t.ext, new, events)
  BY <1>3, <1>4, <1>5, <1>6, <1>7, <1>8, <1>9 DEF Writes
<1>11. /\ mem' \in [Call -> Held \cup {Null}]
       /\ \A q \in Call : mem'[q] \in {Null, mem[q]}
  BY <1>3 DEF Records, Typed
<1>. QED BY <1>10, <1>11, WritesKeepRecords

LEMMA AbandonKeeps ==
    ASSUME Records, NEW p \in Call, Abandon(p)
    PROVE  Records'
<1>1. /\ mem' = [mem EXCEPT ![p] = Null] /\ table' = table /\ outbox' = outbox
  BY DEF Abandon
<1>2. Typed' /\ Rows'
  BY <1>1 DEF Records, Typed, Rows
<1>3. Events'
  <2>1. \A v \in outbox : EventFits(v)'
    BY <1>1 DEF Records, Events, EventFits
  <2>. QED BY <1>1, <2>1 DEF Events
<1>4. Calls'
  <2>. SUFFICES ASSUME NEW q \in Call, mem'[q] # Null  PROVE CallFits(mem[q])'
    BY DEF Calls
  <2>1. PICK x : x = mem[q]
    OBVIOUS
  <2>2. mem'[q] = x /\ CallFits(x)
    BY <1>1, <2>1 DEF Records, Typed, Calls
  <2>3. CallFits(x)'
    BY <1>1, <2>2 DEF CallFits
  <2>. QED BY <2>2, <2>3 DEF CallFits
<1>. QED BY <1>2, <1>3, <1>4 DEF Records

LEMMA RecordsStep == Records /\ [Next]_vars => Records'
<1>. SUFFICES ASSUME Records, [Next]_vars  PROVE Records'
  OBVIOUS
<1>1. CASE \E wallet \in Wallet, amount \in Balance : OpenWallet(wallet, amount)
  BY <1>1, OpenWalletKeeps
<1>2. ASSUME NEW p \in Call,
             \/ \E c \in Command, now \in Instant : Execute(p, c, now)
             \/ \E e \in Text, now \in Instant : Resume(p, e, now)
             \/ mem[p] # Null /\ \E t \in Results(mem[p]) : Commit(p, t)
             \/ Abandon(p)
      PROVE  Records'
  <2>1. CASE \E c \in Command, now \in Instant : Execute(p, c, now)
    BY <2>1, ExecuteKeeps
  <2>2. CASE \E e \in Text, now \in Instant : Resume(p, e, now)
    BY <2>2, ResumeKeeps
  <2>3. CASE mem[p] # Null /\ \E t \in Results(mem[p]) : Commit(p, t)
    BY <2>3, CommitKeeps
  <2>4. CASE Abandon(p)
    BY <2>4, AbandonKeeps
  <2>. QED BY <1>2, <2>1, <2>2, <2>3, <2>4
<1>3. CASE UNCHANGED vars
  <2>1. table' = table /\ mem' = mem /\ outbox' = outbox
    BY <1>3 DEF vars
  <2>2. \A p \in Call : mem[p] # Null => CallFits(mem[p])'
    BY <2>1 DEF Records, Calls, CallFits
  <2>3. \A v \in outbox : EventFits(v)'
    BY <2>1 DEF Records, Events, EventFits
  <2>. QED BY <2>1, <2>2, <2>3 DEF Records, Typed, Rows, Calls, Events
<1>. QED BY <1>1, <1>2, <1>3 DEF Next

\* Rows, aggregates and events stay sound, whatever the calls that interleave.
THEOREM RecordsAreSound == Spec => []Records
<1>1. Init => Records
  BY RecordsInit
<1>2. Records /\ [Next]_vars => Records'
  BY RecordsStep
<1>. QED BY <1>1, <1>2, PTL DEF Spec

-----------------------------------------------------------------------------
(* The properties. *)

\* Every stored row is read back as what was written, for whatever was sent,
\* over either transport, and whichever calls wrote it.
THEOREM RowsAreReadBack == Spec => []RowsRestore
<1>1. Records => RowsRestore
  <2>. SUFFICES ASSUME Records, NEW e \in Stored
                PROVE  Restore(table[e]) # Refused /\ Columns(Restore(table[e])) = table[e]
    BY DEF RowsRestore
  <2>1. SoundRow(table[e])
    BY DEF Records, Rows, Stored
  <2>. QED BY <2>1, SoundRowRestores
<1>. QED BY <1>1, RecordsAreSound, PTL

\* What the contract and the domain accepted is never refused by the table or by
\* the events, whatever the clocks of the calls said.
THEOREM AcceptedIsStorable == Spec => []AcceptedMeansStorable
<1>1. Records => AcceptedMeansStorable
  <2>. SUFFICES ASSUME Records, NEW p \in Call, mem[p] # Null
                PROVE  LET m == mem[p]
                           old == IF m.fresh THEN Columns(m.t) ELSE table[m.t.ext]
                       IN  /\ m.fresh => Checked(old)
                           /\ \A t \in Results(m) :
                                /\ t # Refused
                                /\ Checked(Updated(old, t))
                                /\ Refused \notin Announced(t, m.trace)
    BY DEF AcceptedMeansStorable
  <2>1. PICK m : m = mem[p]
    OBVIOUS
  <2>2. m \in Held /\ CallFits(m)
    BY <2>1 DEF Records, Typed, Calls
  <2>. DEFINE old == IF m.fresh THEN Columns(m.t) ELSE table[m.t.ext]
  <2>3. m.fresh => Checked(old)
    BY <2>2, RowOfCall
  <2>4. ASSUME NEW t \in Results(m)
        PROVE  t # Refused /\ Checked(Updated(old, t)) /\ Refused \notin Announced(t, m.trace)
    <3>1. /\ t # Refused /\ SoundRow(Updated(old, t))
          /\ \A v \in Announced(t, m.trace) : v # Refused
      BY <2>2, OutcomeOfCall
    <3>. QED BY <3>1 DEF SoundRow
  <2>. QED BY <2>1, <2>3, <2>4
<1>. QED BY <1>1, RecordsAreSound, PTL

\* Every committed event can be published, and tells the outcome of its row.
THEOREM EventsArePublishable == Spec => []EventsCanBePublished
<1>1. Records => EventsCanBePublished
  BY DEF Records, Events, EventFits, EventsCanBePublished
<1>. QED BY <1>1, RecordsAreSound, PTL

\* A body that gives each field once has the values its hash is computed over.
LEMMA HashedValue ==
    ASSUME NEW body, IsBody(body), GivenOnce(body), NEW f \in BodyField \ TransportField
    PROVE  LET h == CanonicalHash(body)  IN
           /\ \A k \in DOMAIN h : k.field = f => Value(body, f) = h[k]
           /\ (\A k \in DOMAIN h : k.field # f) => Value(body, f) = Null
<1>. DEFINE h == CanonicalHash(body)
            object == JSONObject(body)
            given == {i \in DOMAIN body : body[i].key.field = f /\ body[i].value # Null}
<1>1. /\ DOMAIN object = {body[i].key : i \in DOMAIN body}
      /\ \A k \in DOMAIN object :
            object[k] = body[Max({i \in DOMAIN body : body[i].key = k})].value
  BY DEF JSONObject
<1>2. /\ DOMAIN h = {k \in DOMAIN object : k.field \notin TransportField /\ object[k] # Null}
      /\ \A k \in DOMAIN h : h[k] = object[k]
  BY DEF CanonicalHash
<1>3. ASSUME NEW i \in DOMAIN body, body[i].key.field = f
      PROVE  object[body[i].key] = body[i].value
  <2>. DEFINE same == {j \in DOMAIN body : body[j].key = body[i].key}
  <2>1. same = {i}
    BY <1>3 DEF GivenOnce
  <2>2. Max(same) = i
    BY <2>1, LastMember
  <2>. HIDE DEF same
  <2>3. object[body[i].key] = body[Max(same)].value
    BY <1>1 DEF same
  <2>. QED BY <2>2, <2>3
<1>4. ASSUME NEW i \in given  PROVE given = {i} /\ Value(body, f) = body[i].value
  <2>1. given = {i}
    BY DEF GivenOnce
  <2>2. Max(given) = i
    BY <2>1, LastMember
  <2>3. Value(body, f) = body[Max(given)].value
    BY <2>1 DEF Value
  <2>. QED BY <2>1, <2>2, <2>3
<1>. HIDE DEF h, object
<1>5. ASSUME NEW k \in DOMAIN h, k.field = f  PROVE Value(body, f) = h[k]
  <2>1. PICK i \in DOMAIN body : body[i].key = k
    BY <1>1, <1>2
  <2>2. h[k] = body[i].value /\ body[i].value # Null
    BY <1>2, <1>3, <1>5, <2>1
  <2>3. i \in given
    BY <1>5, <2>1, <2>2
  <2>. QED BY <1>4, <2>2, <2>3
<1>6. ASSUME \A k \in DOMAIN h : k.field # f  PROVE Value(body, f) = Null
  <2>1. given = {}
    <3>. SUFFICES ASSUME NEW i \in given  PROVE FALSE
      OBVIOUS
    <3>1. body[i].key \in DOMAIN object /\ object[body[i].key] # Null
      BY <1>1, <1>3
    <3>. QED BY <1>2, <1>6, <3>1
  <2>. QED BY <2>1 DEF Value
<1>. QED BY <1>5, <1>6 DEF h

\* Two commands with one hash, which no body that repeats a field has, are one
\* operation.
LEMMA HashIdentifies ==
    ASSUME NEW c \in Command, NEW o \in Command, c.hash = o.hash, c.hash \in Unambiguous
    PROVE  /\ o.wallet = c.wallet /\ o.kind = c.kind /\ o.money = c.money
           /\ TrimSpace(o.ref) = TrimSpace(c.ref)
<1>1. PICK d \in Delivery :
         /\ IsBody(d.body) /\ c.hash = CanonicalHash(d.body)
         /\ c.kind = KindOf(d.body) /\ c.money = AmountOf(d.body)
         /\ c.wallet = WalletOf(d.body)
         /\ c.ref \in {Ref(d.body), TrimSpace(Ref(d.body))}
  BY CommandFacts
<1>2. PICK x \in Delivery :
         /\ IsBody(x.body) /\ o.hash = CanonicalHash(x.body)
         /\ o.kind = KindOf(x.body) /\ o.money = AmountOf(x.body)
         /\ o.wallet = WalletOf(x.body)
         /\ o.ref \in {Ref(x.body), TrimSpace(Ref(x.body))}
  BY CommandFacts
<1>3. GivenOnce(d.body) /\ GivenOnce(x.body)
  BY <1>1, <1>2 DEF Unambiguous
<1>4. ASSUME NEW f \in BodyField \ TransportField
      PROVE  Value(d.body, f) = Value(x.body, f)
  <2>1. /\ \A k \in DOMAIN c.hash : k.field = f => Value(d.body, f) = c.hash[k]
        /\ (\A k \in DOMAIN c.hash : k.field # f) => Value(d.body, f) = Null
    BY <1>1, <1>3, HashedValue
  <2>2. /\ \A k \in DOMAIN o.hash : k.field = f => Value(x.body, f) = o.hash[k]
        /\ (\A k \in DOMAIN o.hash : k.field # f) => Value(x.body, f) = Null
    BY <1>2, <1>3, HashedValue
  <2>. QED BY <2>1, <2>2
<1>5. {"walletId", "ref", "kind", "money"} \subseteq BodyField \ TransportField
  BY DEF BodyField, TransportField
<1>6. /\ WalletOf(d.body) = WalletOf(x.body) /\ KindOf(d.body) = KindOf(x.body)
      /\ AmountOf(d.body) = AmountOf(x.body) /\ Ref(d.body) = Ref(x.body)
  BY <1>4, <1>5 DEF WalletOf, KindOf, AmountOf, Ref, Decoded
<1>7. \A y \in Text : TrimSpace(TrimSpace(y)) = TrimSpace(y)
  BY Texts DEF TrimSpace
<1>8. Ref(d.body) \in Text
  BY <1>1, FieldsOfBody DEF Ref
<1>. QED BY <1>1, <1>2, <1>6, <1>7, <1>8

\* Whatever providers send, and whichever calls interleave, a call works on the
\* operation its provider asked for.
THEOREM CallsWorkOnTheirOperation == Spec => CallsWorkOnWhatWasAsked
<1>1. Records /\ [Next]_vars =>
        [\A p \in Call : mem'[p] \notin {mem[p], Null} =>
            \A c \in Command :
               c.hash \in Unambiguous /\ ~SameOperation(mem'[p].t, c) =>
                   \A now \in Instant : ~Execute(p, c, now)]_vars
  <2>. SUFFICES ASSUME Records, NEW p \in Call, NEW c \in Command, c.hash \in Unambiguous,
                       NEW now \in Instant, Execute(p, c, now)
                PROVE  SameOperation(mem'[p].t, c)
    OBVIOUS
  <2>. DEFINE row == table[c.ext]
              t == IF row = Null THEN NewExternalTransaction(c, now) ELSE Restore(row)
  <2>1. /\ t # Refused /\ ~IsTerminal(t.state) /\ t.hash = c.hash /\ mem'[p].t = t
    BY DEF Execute, Records, Typed
  <2>2. c.ext \in Text /\ ~Blank(c.ext) /\ now \in Nat
    BY CommandFacts, RecordAssumption DEF Instant
  <2>3. CASE row = Null
    <3>1. t = NewExternalTransaction(c, now)
      BY <2>3
    <3>2. SameOperation(t, c)
      BY <2>1, <2>2, <3>1, NewIsSound
    <3>. QED BY <2>1, <3>2
  <2>4. CASE row # Null
    <3>1. t = Restore(row)
      BY <2>4
    <3>2. SoundRow(row) /\ \E o \in Command : RowOf(row, o)
      BY <2>2, <2>4, Texts DEF Records, Rows, Opening
    <3>3. t = [row EXCEPT !.ext = textOf(@), !.key = textOf(@), !.ref = textOf(@)]
      BY <3>1, <3>2, SoundRowRestores
    <3>4. PICK o \in Command : RowOf(row, o)
      BY <3>2
    <3>5. row \in Record
      BY <3>2 DEF SoundRow
    <3>. HIDE DEF t, row
    <3>6. /\ t.wallet = row.wallet /\ t.kind = row.kind /\ t.amount = row.amount
          /\ t.ref = textOf(row.ref) /\ t.hash = row.hash
      BY <3>3, <3>5 DEF Record
    <3>7. o.ref \in Text /\ textOf(nullableText(o.ref)) = o.ref
      BY CommandFacts, TextColumns
    <3>8. /\ t.wallet = o.wallet /\ t.kind = o.kind /\ t.amount = o.money
          /\ t.ref = o.ref /\ t.hash = o.hash
      BY <3>4, <3>6, <3>7 DEF RowOf
    <3>9. SameOperation(t, c)
      BY <2>1, <3>8, HashIdentifies DEF SameOperation
    <3>. QED BY <2>1, <3>9
  <2>. QED BY <2>3, <2>4
<1>. QED BY <1>1, RecordsAreSound, PTL DEF Spec, CallsWorkOnWhatWasAsked

=============================================================================
