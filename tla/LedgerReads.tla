----------------------------- MODULE LedgerReads -----------------------------
(***************************************************************************)
(* The reads of a wallet's history while calls of WagerProcessing move its *)
(* money: a client that pages through the ledger with a cursor, and the    *)
(* reconciliation of the balance with the entries.                         *)
(*                                                                         *)
(* An entry draws its seq when it is inserted and becomes visible when its *)
(* transaction commits, and a transaction that rolls back leaves a gap; so *)
(* the order of the numbers and the order of the commits are two things,   *)
(* and a cursor is a number.  Reads take no lock.                          *)
(*                                                                         *)
(* Left out: the encoding of a cursor, and the other queries, which read   *)
(* one row.                                                                *)
(***************************************************************************)
EXTENDS WagerProcessing, FiniteSetsExt

CONSTANTS
    Limit,   \* rows of a page
    MaxSeq   \* bound: numbers drawn from wallet_ledger_seq_seq

ASSUME ReadAssumption == Limit \in Nat \ {0} /\ MaxSeq \in Nat

VARIABLES
    lastSeq, \* the sequence: the last number drawn
    drawn,   \* per call, the number of the entry it has inserted, 0 for none
    seqs,    \* per wallet, the numbers of its entries, as ledger lists them
    walk,    \* a client that pages: the wallet, the last number it was shown,
             \* all it was shown, and whether there is a next page
    audit    \* a reconciliation: its snapshot, and what it has read of it

readVars == <<lastSeq, drawn, seqs, walk, audit>>

NoWalk == [wallet |-> None, upto |-> 0, shown |-> {}, more |-> FALSE]
NoAudit == [wallet |-> None, balance |-> None, snapshot |-> <<>>, entries |-> None]

InitReads ==
    /\ Init
    /\ lastSeq = 0
    /\ drawn = [p \in Call |-> 0]
    /\ seqs = [w \in Wallet |-> <<>>]
    /\ walk = NoWalk
    /\ audit = NoAudit

-----------------------------------------------------------------------------
(* Writes. *)

\* The call inserts its ledger entry.
Inserts(p) == pc[p] = "move" /\ pc'[p] = "update"

\* A wallet is opened with an entry.
Opens == \E w \in Wallet : wallets[w] = None /\ ledger'[w] # <<>>

\* The number of the entry that has just become visible in wallet w.
NumberOf(w) ==
    IF Opens THEN lastSeq'
    ELSE drawn[CHOOSE p \in Call :
                  /\ pc[p] = "commit" /\ entry[p] # None /\ pc'[p] = "reply"
                  /\ cmd[p].wallet = w]

\* A step of a call, and the numbers its entries draw.
Write ==
    /\ Next
    /\ lastSeq' = IF Opens \/ (\E p \in Call : Inserts(p)) THEN lastSeq + 1 ELSE lastSeq
    /\ lastSeq' <= MaxSeq
    /\ drawn' = [p \in Call |->
          IF Inserts(p) THEN lastSeq' ELSE IF entry'[p] = None THEN 0 ELSE drawn[p]]
    /\ seqs' = [w \in Wallet |->
          IF ledger'[w] = ledger[w] THEN seqs[w] ELSE Append(seqs[w], NumberOf(w))]
    /\ UNCHANGED <<walk, audit>>

-----------------------------------------------------------------------------
(* Pages. *)

Numbers(w) == {seqs[w][i] : i \in DOMAIN seqs[w]}

\* GET of the first page of wallet w comes next.
StartWalk(w) ==
    /\ walk = NoWalk
    /\ wallets[w] # None
    /\ walk' = [wallet |-> w, upto |-> 0, shown |-> {}, more |-> TRUE]
    /\ UNCHANGED <<vars, lastSeq, drawn, seqs, audit>>

\* PageLedger: the rows after a number, in the order of the numbers.
PageLedger(w, after, limit) ==
    LET later == {n \in Numbers(w) : n > after}
    IN  {n \in later : Cardinality({m \in later : m < n}) < limit}

\* Mutant of Page: the cursor of the next page is the extra row.
PageFromExtraRow ==
    LET w == walk.wallet
        rowsRead == PageLedger(w, walk.upto, Limit + 1)
        page == PageLedger(w, walk.upto, Limit)
    IN  /\ walk.more
        /\ walk' = [wallet |-> w, upto |-> Max(rowsRead \cup {walk.upto}),
                    shown |-> walk.shown \cup page, more |-> rowsRead # page]
        /\ UNCHANGED <<vars, lastSeq, drawn, seqs, audit>>

\* The handler asks for one row more than it shows, which tells it whether
\* there is a next page; the cursor of that is the last row shown.
Page ==
    LET w == walk.wallet
        rowsRead == PageLedger(w, walk.upto, Limit + 1)
        page == PageLedger(w, walk.upto, Limit)
    IN  /\ walk.more
        /\ walk' = [wallet |-> w, upto |-> Max(page \cup {walk.upto}),
                    shown |-> walk.shown \cup page, more |-> rowsRead # page]
        /\ UNCHANGED <<vars, lastSeq, drawn, seqs, audit>>

\* The client has what it wanted, or goes away.
EndWalk ==
    /\ walk # NoWalk
    /\ walk' = NoWalk
    /\ UNCHANGED <<vars, lastSeq, drawn, seqs, audit>>

-----------------------------------------------------------------------------
(* Reconciliation. *)

\* LedgerSnapshot reads the wallet, and by that fixes what the next statement
\* of its REPEATABLE READ transaction sees.
ReadWallet(w) ==
    /\ audit = NoAudit
    /\ wallets[w] # None
    /\ audit' = [wallet |-> w, balance |-> wallets[w].balance, snapshot |-> ledger[w],
                 entries |-> None]
    /\ UNCHANGED <<vars, lastSeq, drawn, seqs, walk>>

\* Mutant of ReadEntries: READ COMMITTED.
ReadLatestEntries ==
    /\ audit # NoAudit /\ audit.entries = None
    /\ audit' = [audit EXCEPT !.entries = ledger[audit.wallet]]
    /\ UNCHANGED <<vars, lastSeq, drawn, seqs, walk>>

\* Then it reads the entries.
ReadEntries ==
    /\ audit # NoAudit /\ audit.entries = None
    /\ audit' = [audit EXCEPT !.entries = audit.snapshot]
    /\ UNCHANGED <<vars, lastSeq, drawn, seqs, walk>>

\* The report is answered.
EndAudit ==
    /\ audit # NoAudit
    /\ audit' = NoAudit
    /\ UNCHANGED <<vars, lastSeq, drawn, seqs, walk>>

\* Money.Add of a signed amount: an error when it does not fit.
AddSigned(balance, e) ==
    LET sum == IF balance = None THEN None ELSE BalanceAfter(balance, e.direction, e.amount)
    IN  IF sum = None \/ sum \in (-MaxMoney - 1)..MaxMoney THEN sum ELSE None

\* The balance the entries add up to, None when an addition overflows.
ReplayLedgerBalance(entries) ==
    LET balance[i \in 0..Len(entries)] ==
            IF i = 0 THEN 0 ELSE AddSigned(balance[i - 1], entries[i])
    IN  balance[Len(entries)]

-----------------------------------------------------------------------------
Read ==
    \/ \E w \in Wallet : StartWalk(w) \/ ReadWallet(w)
    \/ Page \/ EndWalk \/ ReadEntries \/ EndAudit

NextReads == Write \/ Read

SpecReads == InitReads /\ [][NextReads]_<<vars, readVars>>

-----------------------------------------------------------------------------
(***************************************************************************)
(* Properties.                                                             *)
(***************************************************************************)

\* The history of a wallet reads in the order in which its money moved: the
\* lock on the wallet is held from before the number is drawn until the
\* commit, so an entry with a smaller number never appears later
\* (query-repository.go:90-92, "a cursor taken now still points at the same
\* place after new entries are appended").
HistoryInOrder ==
    \A w \in Wallet :
        /\ Len(seqs[w]) = Len(ledger[w])
        /\ \A i, j \in DOMAIN seqs[w] : i < j => seqs[w][i] < seqs[w][j]

\* A client that pages misses nothing: while calls keep writing, every entry up
\* to where it has come was shown to it.
PagesMissNothing ==
    walk # NoWalk =>
        {n \in Numbers(walk.wallet) : n <= walk.upto} \subseteq walk.shown

\* A reconciliation never reports a difference that was not there, nor fails
\* on an overflow, however many calls commit between its two reads.
ReconciliationIsConsistent ==
    audit.entries # None => ReplayLedgerBalance(audit.entries) = audit.balance
=============================================================================
