-------------------------- MODULE ProviderContract --------------------------
(***************************************************************************)
(* The contract with the providers: how a body that arrives over HTTP, or  *)
(* in a message of the queue, becomes the command of an operation, and     *)
(* what its hash is computed over.                                         *)
(*                                                                         *)
(* A body is the sequence of its members, in the order they were written.  *)
(* encoding/json fills a field from any spelling of its name and keeps the *)
(* last value; the hash keeps the names, and the values, as received.      *)
(* "unknown" is a name no field has.                                       *)
(*                                                                         *)
(* A text is what is left of it without its outer spaces, and whether it   *)
(* has any.  ext stands for the fields that are required and trimmed alike *)
(* (providerId, externalTransactionId, roundId, gameId), walletId for      *)
(* playerId too; of the money of a body there is the amount.  SHA-256 is   *)
(* taken to be injective.                                                  *)
(***************************************************************************)
EXTENDS WalletMoney, FiniteSetsExt

CONSTANTS
    Name,     \* texts that are not blank, without their outer spaces
    NoName,   \* what is left of a blank text
    Spelling, \* the letter cases a field name or a UUID is written in
    Wallet,   \* identifiers of wallets
    Null,     \* JSON null, SQL NULL, no value
    Absent,   \* a header a request does not have
    NilId,    \* uuid.Nil
    NewId     \* an identifier generated here

ASSUME ContractAssumption ==
    NoName \notin Name /\ {Null, Absent, Refused} \cap Name = {}
    /\ NilId # NewId /\ NilId \notin Wallet

Text == [name: Name \cup {NoName}, padded: BOOLEAN]
Empty == [name |-> NoName, padded |-> FALSE]

TrimSpace(t) == [t EXCEPT !.padded = FALSE]
Blank(t) == t.name = NoName

ExternalKind == {"BET", "WIN", "LOSS", "REFUND", "ROLLBACK"}
RequiresReference(kind) == kind \in {"REFUND", "ROLLBACK"}
AcceptsReference(kind) == kind \in {"REFUND", "ROLLBACK", "WIN"}

\* The values that are none.
ASSUME NothingAssumption == Null \notin Text \cup ExternalKind /\ Absent \notin Text

\* The bodies both transports decode.
BodyField == {"ext", "walletId", "ref", "kind", "money", "idempotencyKey", "correlationId"}
Key == [field: BodyField \cup {"unknown"}, spelling: Spelling]

IsMember(m) ==
    /\ m.key \in Key
    /\ m.value # Null =>
         /\ m.key.field \in {"ext", "ref", "idempotencyKey"} => m.value \in Text
         /\ m.key.field = "walletId" => m.value \in [id: Wallet \cup {NilId}, spelling: Spelling]
         /\ m.key.field = "money" => m.value \in Seq(Char)

IsBody(body) ==
    /\ Len(body) \in Nat /\ DOMAIN body = 1..Len(body)
    /\ \A i \in DOMAIN body : IsMember(body[i])

-----------------------------------------------------------------------------
(* The hash. *)

TransportField == {"idempotencyKey", "correlationId"}

\* Decoding into a map: the last member of each name, as it is written.
JSONObject(body) ==
    [k \in {body[i].key : i \in DOMAIN body} |->
        body[Max({i \in DOMAIN body : body[i].key = k})].value]

\* What the hash is computed over: the business fields of the body as they were
\* received, those that are null left out.
CanonicalHash(body) ==
    LET object == JSONObject(body)
    IN  [k \in {j \in DOMAIN object : j.field \notin TransportField /\ object[j] # Null} |->
            object[k]]

-----------------------------------------------------------------------------
(* The two transports. *)

\* Decoding into a struct: a null leaves the field as it is.
Value(body, f) ==
    LET given == {i \in DOMAIN body : body[i].key.field = f /\ body[i].value # Null}
    IN  IF given = {} THEN Null ELSE body[Max(given)].value

Decoded(body, f) == IF Value(body, f) = Null THEN Empty ELSE Value(body, f)

Ext(body) == Decoded(body, "ext")
Ref(body) == Decoded(body, "ref")
KindOf(body) == Value(body, "kind")

AmountOf(body) ==
    LET text == Value(body, "money") IN IF text = Null THEN Refused ELSE ParseMoney(text)

\* A wallet that is not given is refused further down, as uuid.Nil is.
WalletOf(body) ==
    LET wallet == Value(body, "walletId") IN IF wallet = Null THEN NilId ELSE wallet.id

\* The operation a body asks for under these texts.
Operation(body, ext, key, ref, trace) ==
    [ext |-> ext, key |-> key, ref |-> ref, wallet |-> WalletOf(body), kind |-> KindOf(body),
     money |-> AmountOf(body), hash |-> CanonicalHash(body), trace |-> trace]

ValidSubmission(d) ==
    ~Blank(d.key) /\ KindOf(d.body) \in ExternalKind /\ AmountOf(d.body) # Refused

\* withCorrelation: the correlation of the header, which may be uuid.Nil.
HeaderCorrelation(d) == IF d.trace = Absent THEN NewId ELSE d.trace

\* Mutant of toCommand: the texts are taken as they were sent.
toCommandAsSent(d) ==
    IF ~ValidSubmission(d) THEN Refused
    ELSE Operation(d.body, Ext(d.body), d.key, Ref(d.body), HeaderCorrelation(d))

\* Submit and toCommand: the key and the correlation come from the headers, and
\* every text is trimmed.
toCommand(d) ==
    IF ~ValidSubmission(d) THEN Refused
    ELSE Operation(d.body, TrimSpace(Ext(d.body)), TrimSpace(d.key), TrimSpace(Ref(d.body)),
                   HeaderCorrelation(d))

\* WagerTransactionRequested.validate: a message is refused for what the other
\* transport trims away, and for any amount that is not one, null included.
ValidRequest(body) ==
    /\ ~Blank(Ext(body))
    /\ ~Blank(Decoded(body, "idempotencyKey"))
    /\ KindOf(body) \in ExternalKind
    /\ AmountOf(body) # Refused
    /\ \A i \in DOMAIN body : body[i].key.field = "money" =>
           body[i].value # Null /\ ParseMoney(body[i].value) # Refused
    /\ RequiresReference(KindOf(body)) => ~Blank(Ref(body))
    /\ ~AcceptsReference(KindOf(body)) => Ref(body) = Empty

\* InboundMessage.Metadata: the correlation of the body, unless it has none; a
\* null takes back the one given before it.
CorrelationOf(body) ==
    LET given == {i \in DOMAIN body : body[i].key.field = "correlationId"}
        last == body[Max(given)].value
    IN  IF given = {} \/ last \in {Null, NilId} THEN NewId ELSE last

\* ParseInbound and Handle: nothing is trimmed.
ParseInbound(d) ==
    IF ~ValidRequest(d.body) THEN Refused
    ELSE Operation(d.body, Ext(d.body), Decoded(d.body, "idempotencyKey"), Ref(d.body),
                   CorrelationOf(d.body))

\* WagerCommand.validate.
ValidCommand(c) == c # Refused /\ c.ext # Empty /\ c.wallet # NilId

\* What Execute works with.  A correlation that is uuid.Nil is replaced there.
CommandOf(d) ==
    LET c == IF d.transport = "HTTP" THEN toCommand(d) ELSE ParseInbound(d)
    IN  IF ValidCommand(c)
        THEN [c EXCEPT !.trace = IF @ = NilId THEN NewId ELSE @]
        ELSE Refused
=============================================================================
