----------------------------- MODULE WalletMoney -----------------------------
(***************************************************************************)
(* Money: cents in an int64 that wraps around, with a currency; the        *)
(* movements of a wallet and the lines of its ledger that are built on it; *)
(* and the spelling of an amount in the contracts.                         *)
(*                                                                         *)
(* A text is a sequence of digits and of the characters Dot and Minus,     *)
(* which stands for every other one too (spaces, letters).  The modules of *)
(* the protocols take sums to be exact or refused: ArithmeticIsExact here. *)
(***************************************************************************)
EXTENDS Integers, SequencesExt

CONSTANTS
    Top,        \* the largest int64, 2^63 - 1 in the program
    Currency,   \* currency codes
    NoCurrency, \* the empty code, of a Money no constructor built
    Base,       \* of the digits: 10 in the program
    Dot, Minus, \* characters
    MaxLength,  \* bound: of the texts that are tried
    Refused     \* the error of a validation

ASSUME WidthAssumption == Top \in Nat
ASSUME MoneyNames ==
    /\ NoCurrency \notin Currency
    /\ Refused \notin [cents: Int, currency: Currency \cup {NoCurrency}]
ASSUME TextAssumption ==
    Base \in Nat \ {0, 1} /\ MaxLength \in Nat /\ Dot # Minus /\ {Dot, Minus} \cap Int = {}

Cents == (-Top - 1)..Top
Money == [cents: Cents, currency: Currency \cup {NoCurrency}]

-----------------------------------------------------------------------------
(* The arithmetic. *)

\* What an int64 holds of the sum or the difference of two of them.
Wrapped(x) ==
    IF x > Top THEN x - 2 * (Top + 1)
    ELSE IF x < -Top - 1 THEN x + 2 * (Top + 1)
    ELSE x

SameCurrency(m, n) == m.currency # NoCurrency /\ m.currency = n.currency

Add(m, n) ==
    LET sum == Wrapped(m.cents + n.cents) IN
    IF \/ ~SameCurrency(m, n)
       \/ n.cents > 0 /\ sum < m.cents
       \/ n.cents < 0 /\ sum > m.cents
    THEN Refused ELSE [m EXCEPT !.cents = sum]

Subtract(m, n) ==
    LET diff == Wrapped(m.cents - n.cents) IN
    IF \/ ~SameCurrency(m, n)
       \/ n.cents < 0 /\ diff < m.cents
       \/ n.cents > 0 /\ diff > m.cents
    THEN Refused ELSE [m EXCEPT !.cents = diff]

Negate(m) ==
    IF m.currency = NoCurrency \/ m.cents = -Top - 1
    THEN Refused ELSE [m EXCEPT !.cents = -m.cents]

-----------------------------------------------------------------------------
(* The movements of a wallet and the lines of its ledger. *)

Direction == {"DEBIT", "CREDIT"}

\* Wallet.Debit and Credit: the balance they leave.
Debit(balance, amount) ==
    IF amount.cents <= 0 \/ ~SameCurrency(balance, amount) \/ balance.cents < amount.cents
    THEN Refused ELSE Subtract(balance, amount)

Credit(balance, amount) == IF amount.cents <= 0 THEN Refused ELSE Add(balance, amount)

\* buildLedgerEntry and validateLedgerArithmetic.
ValidEntry(direction, amount, before, after) ==
    LET expected == IF direction = "CREDIT" THEN Add(before, amount) ELSE Subtract(before, amount)
    IN  /\ NoCurrency \notin {amount.currency, before.currency, after.currency}
        /\ amount.cents > 0 /\ before.cents >= 0 /\ after.cents >= 0
        /\ expected = after

SignedAmount(direction, amount) == IF direction = "CREDIT" THEN amount ELSE Negate(amount)

-----------------------------------------------------------------------------
(* The spelling of amounts. *)

scale == 2
Digit == 0..(Base - 1)
Char == Digit \cup {Dot, Minus}

isDigits(text) == text # <<>> /\ Range(text) \subseteq Digit

isCanonicalUnits(units) == isDigits(units) /\ (Len(units) = 1 \/ Head(units) # 0)

\* What ParseInt reads.
ValueOf(digits) ==
    LET value[i \in 0..Len(digits)] ==
            IF i = 0 THEN 0 ELSE Base * value[i - 1] + digits[i]
    IN  value[Len(digits)]

\* The cents of a text, Refused unless it is units, a dot and two decimals.
ParseMoney(text) ==
    LET dots == {i \in DOMAIN text : text[i] = Dot}
        separator == Len(text) - scale
        units == SubSeq(text, 1, separator - 1)
        fraction == SubSeq(text, separator + 1, Len(text))
    IN  IF /\ dots = {separator} /\ separator > 1
           /\ isCanonicalUnits(units) /\ isDigits(fraction)
           /\ ValueOf(units \o fraction) <= Top
        THEN ValueOf(units \o fraction) ELSE Refused

\* FormatInt, for what is not negative.
FormatInt[n \in Nat] ==
    IF n < Base THEN <<n>> ELSE Append(FormatInt[n \div Base], n % Base)

\* The text of an amount, padded so that one digit is left before the dot.
AmountString(cents) ==
    LET bare == FormatInt[IF cents < 0 THEN -cents ELSE cents]
        digits == [i \in 1..(scale + 1 - Len(bare)) |-> 0] \o bare
        units == Len(digits) - scale
    IN  (IF cents < 0 THEN <<Minus>> ELSE <<>>)
          \o SubSeq(digits, 1, units) \o <<Dot>> \o SubSeq(digits, units + 1, Len(digits))

-----------------------------------------------------------------------------
(***************************************************************************)
(* Properties.                                                             *)
(***************************************************************************)

\* The result of an operation is the exact one, or an error when an int64
\* cannot hold it: the tests on the signs after the wrap-around miss nothing
\* and refuse nothing that fits.
Exactly(result, exact, m) ==
    result = IF exact \in Cents THEN [m EXCEPT !.cents = exact] ELSE Refused

ArithmeticIsExact ==
    \A m, n \in Money : SameCurrency(m, n) =>
        /\ Exactly(Add(m, n), m.cents + n.cents, m)
        /\ Exactly(Subtract(m, n), m.cents - n.cents, m)
        /\ Exactly(Negate(m), -m.cents, m)

\* A movement a wallet makes leaves a balance that is not negative, in its own
\* currency, is a line its ledger takes, and replaying that line from the
\* balance before gives the balance after.
MovementsMakeEntries ==
    \A balance, amount \in Money, direction \in Direction :
        LET after == IF direction = "CREDIT" THEN Credit(balance, amount)
                                             ELSE Debit(balance, amount)
        IN  balance.cents >= 0 /\ after # Refused =>
              /\ after.cents >= 0
              /\ ValidEntry(direction, amount, balance, after)
              /\ Add(balance, SignedAmount(direction, amount)) = after

\* "Every amount has a single accepted spelling" (money.go:131-132): a text is
\* accepted exactly when it is how an amount that is not negative is answered,
\* stored in an event and hashed, so that equal amounts have equal hashes and
\* what one side of the contract writes the other one reads.
AmountsHaveOneSpelling ==
    /\ \A text \in BoundedSeq(Char, MaxLength) :
         ParseMoney(text) # Refused =>
           ParseMoney(text) \in 0..Top /\ text = AmountString(ParseMoney(text))
    /\ \A cents \in Cents :
         ParseMoney(AmountString(cents)) = IF cents >= 0 THEN cents ELSE Refused
=============================================================================
