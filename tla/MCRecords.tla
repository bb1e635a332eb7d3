------------------------------ MODULE MCRecords ------------------------------
(***************************************************************************)
(* An instance of TransactionRecord for TLC.                               *)
(***************************************************************************)
EXTENDS TransactionRecord, SequencesExt

CONSTANTS p1, p2, w1, w2, e1, r1, long, k1, k2, t1, brl, usd, documented, other

\* "0.01", "00.01" and "0.00", with digits of base 2.
cent == <<0, Dot, 0, 1>>
looseCent == <<0>> \o cent
nothing == <<0, Dot, 0, 0>>

T(name, padded) == [name |-> name, padded |-> padded]
Plainly(name) == T(name, FALSE)
Padded(name) == T(name, TRUE)

\* A member under the documented name, or under another spelling of it.
Member(field, value) == [key |-> [field |-> field, spelling |-> documented], value |-> value]
Misspelled(field, value) == [key |-> [field |-> field, spelling |-> other], value |-> value]
Uuid(id) == [id |-> id, spelling |-> documented]

Body(ext, ref, kind, money, key, correlation) ==
    SelectSeq(<<Member("ext", ext), Member("walletId", Uuid(w1)), Member("ref", ref),
                Member("kind", kind), Member("money", money), Member("idempotencyKey", key),
                Member("correlationId", correlation)>>,
              LAMBDA m : m.value # Absent)

Http(key, trace, body) == [transport |-> "HTTP", key |-> key, trace |-> trace, body |-> body]
Sqs(body) == [transport |-> "SQS", key |-> Empty, trace |-> Absent, body |-> body]

Bet(ref, money, key) == Body(Plainly(e1), ref, "BET", money, key, Absent)
Refund(ext, ref, correlation) == Body(ext, ref, "REFUND", cent, Plainly(k1), correlation)

\* The refund of r1 by e1, and it for another wallet, or for none.
RefundFor(wallet) ==
    [Refund(Plainly(e1), Plainly(r1), NilId) EXCEPT ![2] = Member("walletId", Uuid(wallet))]

\* Operations one and the same, spelled in several ways and sent over both
\* transports; the last ones are refused.
Sent ==
    {Http(Padded(k2), NilId, Bet(Padded(NoName), cent, Plainly(k1))),
     Sqs(Bet(Null, cent, Plainly(k2))),
     Sqs(Bet(Null, looseCent, Plainly(k2))),
     Sqs(Bet(Padded(NoName), cent, Plainly(k1))),
     Http(Plainly(k1), t1, Refund(Plainly(e1), Padded(r1), Null)),
     Sqs(Refund(Plainly(e1), Padded(NoName), t1)),
     Sqs(Body(Plainly(long), Absent, "LOSS", nothing, Plainly(k1), t1)),
     Sqs(RefundFor(w2)),
     Sqs(Append(RefundFor(w1), Misspelled("kind", "ROLLBACK"))),
     Sqs(InsertAt(RefundFor(w1), 4, Misspelled("kind", "ROLLBACK"))),
     Sqs(Body(Plainly(e1), Padded(NoName), "WIN", cent, Padded(k1), Absent)),
     Sqs(Body(Padded(e1), Empty, "LOSS", nothing, Plainly(k2), Null)),
     Sqs(RefundFor(NilId)),
     Sqs(Append(RefundFor(w1), Misspelled("money", Null))),
     Http(Empty, t1, Bet(Absent, cent, Plainly(k1))),
     Sqs(Body(Null, Null, "WIN", Null, Null, Null))}

\* One bet, as documented, with a name or a UUID in another letter case, and
\* with a field nobody reads.
Reworded ==
    LET bet == Bet(Absent, cent, Absent)
        otherUuid == [id |-> w1, spelling |-> other]
    IN  {Http(Plainly(k1), t1, body) : body \in
            {bet, [bet EXCEPT ![1] = Misspelled("ext", Plainly(e1))],
             [bet EXCEPT ![2] = Member("walletId", otherUuid)],
             Append(bet, Member("unknown", Plainly(r1)))}}

\* The properties of the pure operators are checked once, before the states.
ASSUME MoneyChecked == ArithmeticIsExact /\ MovementsMakeEntries
ASSUME SpellingChecked == AmountsHaveOneSpelling

CallSymmetry == Permutations(Call)
=============================================================================
