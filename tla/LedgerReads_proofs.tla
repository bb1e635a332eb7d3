-------------------------- MODULE LedgerReads_proofs --------------------------
(***************************************************************************)
(* What a reader of a wallet's history sees, for every value of the        *)
(* constants.  The reads take no lock and disturb nothing, so every        *)
(* theorem about WagerProcessing holds while they run.  What orders the    *)
(* numbers of a wallet is its lock: a call draws its number while it is    *)
(* the only one that holds the wallet, so the number is above all those of *)
(* the wallet until the entry is one of them.                              *)
(***************************************************************************)
EXTENDS LedgerReads, WagerHistory_proofs, WellFoundedInduction

\* Whatever clients read and however they interleave with the calls, the calls
\* and the tables behave as if nobody read: pages and reconciliations take no
\* lock and write nothing.
LEMMA ReadsDisturbNothing == SpecReads => Spec
<1>1. InitReads => Init
  BY DEF InitReads
<1>2. [NextReads]_<<vars, readVars>> => [Next]_vars
  BY DEF NextReads, Write, Read, StartWalk, Page, EndWalk, ReadWallet, ReadEntries, EndAudit
<1>. QED BY <1>1, <1>2, PTL DEF SpecReads, Spec

LEMMA MemoriesWhileReading == SpecReads => [](Memories /\ LedgerExplainsBalance)
BY ReadsDisturbNothing, KnownInvariant, LedgerReconciles, PTL

\* A read changes none of what the numbers are about.
LEMMA ReadsKeep ==
    ASSUME Read \/ UNCHANGED <<vars, readVars>>
    PROVE  UNCHANGED <<vars, lastSeq, drawn, seqs>>
BY DEF Read, StartWalk, Page, EndWalk, ReadWallet, ReadEntries, EndAudit, readVars

-----------------------------------------------------------------------------
(***************************************************************************)
(* The numbers.                                                            *)
(***************************************************************************)

Ascending(s) == \A i, j \in DOMAIN s : i < j => s[i] < s[j]

\* The numbers of a wallet have been drawn, one for each entry, and ascend.
NumberedAt(w) ==
    /\ Len(seqs[w]) = Len(ledger[w])
    /\ \A i \in DOMAIN seqs[w] : 0 < seqs[w][i] /\ seqs[w][i] <= lastSeq
    /\ Ascending(seqs[w])

\* The number of an entry that is not visible yet is above those that are.
DrawnAt(p) ==
    entry[p] # None /\ pc[p] \in {"update", "commit"} =>
        /\ 0 < drawn[p] /\ drawn[p] <= lastSeq
        /\ \A i \in DOMAIN seqs[cmd[p].wallet] : seqs[cmd[p].wallet][i] < drawn[p]

Numbered ==
    /\ lastSeq \in Nat
    /\ drawn \in [Call -> Nat]
    /\ seqs \in [Wallet -> Seq(Nat)]
    /\ \A w \in Wallet : NumberedAt(w)
    /\ \A p \in Call : DrawnAt(p)

\* A number above all those of a sequence extends it.
LEMMA AppendAscends ==
    ASSUME NEW s \in Seq(Nat), NEW n \in Nat, Ascending(s), \A i \in DOMAIN s : s[i] < n
    PROVE  /\ Append(s, n) \in Seq(Nat) /\ Len(Append(s, n)) = Len(s) + 1
           /\ \A i \in DOMAIN Append(s, n) :
                 (i \in DOMAIN s /\ Append(s, n)[i] = s[i]) \/ Append(s, n)[i] = n
           /\ Ascending(Append(s, n))
<1>1. /\ Append(s, n) \in Seq(Nat) /\ Len(Append(s, n)) = Len(s) + 1 /\ Len(s) \in Nat
      /\ DOMAIN s = 1..Len(s) /\ DOMAIN Append(s, n) = 1..(Len(s) + 1)
      /\ \A i \in 1..Len(s) : Append(s, n)[i] = s[i] /\ s[i] \in Nat
      /\ Append(s, n)[Len(s) + 1] = n
  OBVIOUS
<1>2. Ascending(Append(s, n))
  BY <1>1 DEF Ascending
<1>. QED BY <1>1, <1>2

\* The tables change only where OpenWallet or Commit says.
LEMMA NothingOpens ==
    ASSUME Memories, ledger' = ledger
    PROVE  ~Opens
BY DEF Opens, Memories, Clean

\* The numbers when no entry becomes visible.
LEMMA QuietWrite ==
    ASSUME Memories, Numbered, Write, ledger' = ledger
    PROVE  /\ seqs' = seqs
           /\ lastSeq' \in Nat /\ lastSeq <= lastSeq'
           /\ drawn' \in [Call -> Nat]
           /\ \A q \in Call : Inserts(q) => lastSeq' = lastSeq + 1 /\ drawn'[q] = lastSeq'
           /\ \A q \in Call : ~Inserts(q) /\ entry'[q] # None => drawn'[q] = drawn[q]
<1>1. lastSeq' = IF \E p \in Call : Inserts(p) THEN lastSeq + 1 ELSE lastSeq
  BY NothingOpens DEF Write
<1>2. lastSeq' \in Nat /\ lastSeq <= lastSeq'
  BY <1>1 DEF Numbered
<1>3. seqs' = [w \in Wallet |-> seqs[w]]
  BY DEF Write
<1>4. seqs' = seqs
  BY <1>3 DEF Numbered
<1>5. drawn' = [p \in Call |->
          IF Inserts(p) THEN lastSeq' ELSE IF entry'[p] = None THEN 0 ELSE drawn[p]]
  BY DEF Write
<1>. HIDE DEF Inserts
<1>6. drawn' \in [Call -> Nat]
  BY <1>2, <1>5 DEF Numbered
<1>. QED BY <1>1, <1>2, <1>4, <1>5, <1>6

\* A call that is not moving money draws no number, and keeps the one it has.
LEMMA DrawnKept ==
    ASSUME Memories, Numbered, Write, ledger' = ledger, NEW q \in Call,
           entry'[q] # None, entry'[q] = entry[q], cmd'[q] = cmd[q],
           pc[q] \in {"update", "commit"}
    PROVE  DrawnAt(q)'
<1>1. ~Inserts(q)
  BY DEF Inserts
<1>2. drawn'[q] = drawn[q] /\ seqs' = seqs /\ lastSeq <= lastSeq' /\ lastSeq' \in Nat
  BY <1>1, QuietWrite
<1>3. DrawnAt(q) /\ drawn[q] \in Nat /\ lastSeq \in Nat
  BY DEF Numbered
<1>. QED BY <1>2, <1>3 DEF DrawnAt

\* From its move a call goes to its update, or ends its transaction.
LEMMA MoveLeadsToUpdate ==
    ASSUME TypeInv, NEW p \in Call, pc[p] = "move",
           \/ Start(p) \/ DeadlockVictim(p) \/ Interrupt(p)
           \/ Progress(p) /\ ~Commit(p)
    PROVE  pc'[p] # "commit"
<1>1. pc \in [Call -> Step]
  BY DEF TypeInv, TypeOK
<1>2. ASSUME NEW r, Answer(p, r)  PROVE pc'[p] # "commit"
  BY <1>1, <1>2 DEF Answer
<1>3. ASSUME NEW error, Fail(p, error)  PROVE pc'[p] # "commit"
  BY <1>2, <1>3 DEF Fail
<1>4. CASE MoveBalance(p)
  BY <1>1, <1>3, <1>4 DEF MoveBalance, Goto, Conflict
<1>5. CASE DeadlockVictim(p) \/ Interrupt(p)
  BY <1>3, <1>5 DEF DeadlockVictim, Interrupt
<1>. QED
  BY <1>4, <1>5 DEF Start, Execute, ExecuteFromMessage, Expire, Begin, Progress, Register, Find,
     Insert, ForeignKey, LockByID, StayParked, ParkNew, RejectOp, ConcludeLoss, Overflow,
     Settle, Update, ExpireRow, Return, Decided, At

\* A step of a call that commits nothing.
LEMMA StepNumbered ==
    ASSUME Memories, Numbered, Write, NEW p \in Call,
           \/ Start(p) \/ DeadlockVictim(p) \/ Interrupt(p)
           \/ Progress(p) /\ ~Commit(p)
    PROVE  Numbered'
<1>1. /\ UNCHANGED <<wallets, rows, ledger, events>>
      /\ \A q \in Call \ {p} : Untouched(q)
  BY TablesKept, StepsKnow DEF Memories
<1>2. /\ lastSeq' \in Nat /\ lastSeq <= lastSeq' /\ lastSeq \in Nat
      /\ drawn' \in [Call -> Nat] /\ seqs' = seqs /\ seqs \in [Wallet -> Seq(Nat)]
  BY <1>1, QuietWrite DEF Numbered
<1>3. ASSUME NEW w \in Wallet  PROVE NumberedAt(w)'
  <2>1. NumberedAt(w) /\ seqs[w] \in Seq(Nat)
    BY <1>2 DEF Numbered
  <2>. QED BY <1>1, <1>2, <2>1 DEF NumberedAt, Ascending
<1>4. ASSUME NEW q \in Call, q # p  PROVE DrawnAt(q)'
  <2>1. entry'[q] = entry[q] /\ cmd'[q] = cmd[q] /\ pc'[q] = pc[q]
    BY <1>1, <1>4 DEF Untouched, SameCall
  <2>2. CASE entry'[q] # None /\ pc[q] \in {"update", "commit"}
    BY <1>1, <2>1, <2>2, DrawnKept
  <2>. QED BY <2>1, <2>2 DEF DrawnAt
<1>5. DrawnAt(p)'
  <2>. SUFFICES ASSUME entry'[p] # None, pc'[p] \in {"update", "commit"}  PROVE DrawnAt(p)'
    BY DEF DrawnAt
  <2>1. ~LockByID(p) /\ ~Settle(p)
    BY DEF LockByID, Settle, Goto, Memories, TypeInv, TypeOK
  <2>2. entry'[p] = entry[p] /\ cmd'[p] = cmd[p]
    BY <2>1, OtherStepsQuiet DEF Quiet, Memories
  <2>3. pc[p] \in {"move", "update", "commit"} /\ cmd[p] \in WagerCommand
    BY <2>2, Memory DEF Memories, CallOKAt
  <2>4. CASE pc[p] \in {"update", "commit"}
    BY <1>1, <2>2, <2>4, DrawnKept
  <2>5. CASE pc[p] = "move"
    <3>1. Inserts(p)
      BY <2>5, MoveLeadsToUpdate DEF Inserts, Memories
    <3>2. lastSeq' = lastSeq + 1 /\ drawn'[p] = lastSeq'
      BY <1>1, <3>1, QuietWrite
    <3>3. cmd[p].wallet \in Wallet
      BY <2>3 DEF WagerCommand
    <3>4. NumberedAt(cmd[p].wallet) /\ seqs[cmd[p].wallet] \in Seq(Nat)
      BY <3>3 DEF Numbered
    <3>5. \A i \in DOMAIN seqs[cmd[p].wallet] : seqs[cmd[p].wallet][i] < lastSeq + 1
      BY <1>2, <3>4 DEF NumberedAt
    <3>. QED BY <1>2, <2>2, <3>2, <3>5 DEF DrawnAt
  <2>. QED BY <2>3, <2>4, <2>5
<1>. QED BY <1>2, <1>3, <1>4, <1>5 DEF Numbered

\* The number of the entry a commit makes visible is the one it has drawn.
LEMMA CommitNumber ==
    ASSUME Memories, Numbered, Write, NEW p \in Call, Commit(p), entry[p] # None
    PROVE  NumberOf(cmd[p].wallet) = drawn[p] /\ ~Opens /\ lastSeq' = lastSeq
<1>1. /\ pc[p] = "commit" /\ pc'[p] = "reply" /\ pc \in [Call -> Step]
      /\ \A q \in Call \ {p} : pc'[q] = pc[q]
  BY CommitFacts DEF Commit, At, Untouched, SameCall, Memories, TypeInv, TypeOK
<1>2. ~Opens
  <2>1. wal[p] # None /\ cmd[p].wallet \in Wallet
    BY Memory DEF Memories, CallOKAt
  <2>2. wallets[cmd[p].wallet] # None
    BY <2>1 DEF Memories, Held, HeldAt
  <2>3. ledger' = [ledger EXCEPT ![cmd[p].wallet] = Append(@, entry[p])]
    BY CommitFacts DEF Memories
  <2>4. ASSUME NEW w \in Wallet, wallets[w] = None  PROVE ledger'[w] = <<>>
    <3>1. w # cmd[p].wallet /\ ledger[w] = <<>>
      BY <2>2, <2>4 DEF Memories, Clean
    <3>2. ledger'[w] = ledger[w]
      BY <2>3, <3>1 DEF Memories, TypeInv, TypeOK
    <3>. QED BY <3>1, <3>2
  <2>. QED BY <2>4 DEF Opens
<1>3. \A q \in Call : ~Inserts(q)
  BY <1>1 DEF Inserts
<1>4. \A q \in Call : pc[q] = "commit" /\ entry[q] # None /\ pc'[q] = "reply"
                      /\ cmd[q].wallet = cmd[p].wallet <=> q = p
  BY <1>1
<1>5. (CHOOSE q \in Call : /\ pc[q] = "commit" /\ entry[q] # None /\ pc'[q] = "reply"
                          /\ cmd[q].wallet = cmd[p].wallet) = p
  BY <1>4
<1>. QED BY <1>2, <1>3, <1>5 DEF NumberOf, Write

\* A commit makes the drawn number the last one of the wallet.
LEMMA CommitNumbered ==
    ASSUME Memories, Numbered, Write, NEW p \in Call, Commit(p)
    PROVE  Numbered'
<1>1. /\ \A q \in Call \ {p} : Untouched(q)
      /\ entry'[p] = None /\ cmd' = cmd
  BY CommitFacts DEF Memories
<1>2. CASE entry[p] = None
  <2>1. ledger' = ledger
    BY <1>2, CommitFacts DEF Memories
  <2>2. /\ lastSeq' \in Nat /\ lastSeq <= lastSeq' /\ lastSeq \in Nat
        /\ drawn' \in [Call -> Nat] /\ seqs' = seqs /\ seqs \in [Wallet -> Seq(Nat)]
    BY <2>1, QuietWrite DEF Numbered
  <2>3. ASSUME NEW w \in Wallet  PROVE NumberedAt(w)'
    <3>1. NumberedAt(w) /\ seqs[w] \in Seq(Nat)
      BY <2>2 DEF Numbered
    <3>. QED BY <2>1, <2>2, <3>1 DEF NumberedAt, Ascending
  <2>4. ASSUME NEW q \in Call  PROVE DrawnAt(q)'
    <3>1. CASE entry'[q] # None /\ pc'[q] \in {"update", "commit"}
      <4>1. q # p
        BY <1>1, <3>1
      <4>2. entry'[q] = entry[q] /\ cmd'[q] = cmd[q] /\ pc'[q] = pc[q]
        BY <1>1, <4>1 DEF Untouched, SameCall
      <4>. QED BY <2>1, <3>1, <4>2, DrawnKept
    <3>. QED BY <3>1 DEF DrawnAt
  <2>. QED BY <2>2, <2>3, <2>4 DEF Numbered
<1>3. CASE entry[p] # None
  <2>0. PICK W \in Wallet : W = cmd[p].wallet
    BY CommitFacts DEF Memories
  <2>1. W \in Wallet /\ ledger[W] \in Seq(LedgerEntry) /\ wal[p] # None /\ entry[p] \in LedgerEntry
    BY <1>3, CommitFacts, Memory DEF Memories, TypeInv, TypeOK, CallOKAt
  <2>2. /\ ledger' = [ledger EXCEPT ![W] = Append(@, entry[p])]
        /\ DOMAIN ledger = Wallet
    BY <1>3, <2>0, CommitFacts DEF Memories, TypeInv, TypeOK
  <2>3. /\ ledger'[W] = Append(ledger[W], entry[p]) /\ ledger'[W] # ledger[W]
        /\ Len(ledger'[W]) = Len(ledger[W]) + 1
        /\ \A w \in Wallet \ {W} : ledger'[w] = ledger[w]
    <3>1. /\ ledger'[W] = Append(ledger[W], entry[p])
          /\ \A w \in Wallet \ {W} : ledger'[w] = ledger[w]
      BY <2>2
    <3>2. Len(ledger'[W]) = Len(ledger[W]) + 1 /\ Len(ledger[W]) \in Nat
      BY <2>1, <3>1
    <3>. QED BY <3>1, <3>2
  <2>4. NumberOf(W) = drawn[p] /\ lastSeq' = lastSeq
    BY <1>3, <2>0, CommitNumber
  <2>5. pc[p] = "commit" /\ DrawnAt(p) /\ drawn[p] \in Nat /\ lastSeq \in Nat
    BY DEF Commit, At, Numbered
  <2>6. /\ 0 < drawn[p] /\ drawn[p] <= lastSeq
        /\ \A i \in DOMAIN seqs[W] : seqs[W][i] < drawn[p]
    BY <1>3, <2>0, <2>5 DEF DrawnAt
  <2>7. /\ seqs' = [w \in Wallet |->
              IF ledger'[w] = ledger[w] THEN seqs[w] ELSE Append(seqs[w], NumberOf(w))]
        /\ seqs \in [Wallet -> Seq(Nat)] /\ NumberedAt(W) /\ seqs[W] \in Seq(Nat)
    BY <2>1 DEF Write, Numbered
  <2>8. seqs'[W] = Append(seqs[W], drawn[p]) /\ \A w \in Wallet \ {W} : seqs'[w] = seqs[w]
    BY <2>1, <2>3, <2>4, <2>7
  <2>9. /\ seqs'[W] \in Seq(Nat) /\ Len(seqs'[W]) = Len(seqs[W]) + 1
        /\ \A i \in DOMAIN seqs'[W] :
              (i \in DOMAIN seqs[W] /\ seqs'[W][i] = seqs[W][i]) \/ seqs'[W][i] = drawn[p]
        /\ Ascending(seqs'[W])
    <3>1. Ascending(seqs[W])
      BY <2>7 DEF NumberedAt
    <3>. QED BY <2>5, <2>6, <2>7, <2>8, <3>1, AppendAscends
  <2>10. NumberedAt(W)'
    <3>1. /\ Len(seqs'[W]) = Len(ledger'[W])
          /\ \A i \in DOMAIN seqs'[W] : 0 < seqs'[W][i] /\ seqs'[W][i] <= lastSeq'
      BY <2>3, <2>4, <2>6, <2>7, <2>9 DEF NumberedAt
    <3>. QED BY <2>9, <3>1 DEF NumberedAt, Ascending
  <2>11. ASSUME NEW w \in Wallet  PROVE NumberedAt(w)'
    <3>1. CASE w = W
      BY <2>10, <3>1
    <3>2. CASE w # W
      <4>1. NumberedAt(w) /\ seqs'[w] = seqs[w] /\ ledger'[w] = ledger[w]
        BY <2>3, <2>8, <3>2 DEF Numbered
      <4>. QED BY <2>4, <4>1 DEF NumberedAt, Ascending
    <3>. QED BY <3>1, <3>2
  <2>12. seqs' \in [Wallet -> Seq(Nat)]
    <3>1. \A w \in Wallet : seqs'[w] \in Seq(Nat)
      BY <2>7, <2>8, <2>9
    <3>. QED BY <2>7, <3>1
  <2>13. \A q \in Call : ~Inserts(q)
    BY CommitFacts DEF Inserts, Untouched, SameCall, Memories
  <2>14. /\ drawn' = [q \in Call |-> IF entry'[q] = None THEN 0 ELSE drawn[q]]
         /\ drawn \in [Call -> Nat]
    BY <2>13 DEF Write, Numbered
  <2>15. ASSUME NEW q \in Call, entry'[q] # None, pc'[q] \in {"update", "commit"}
         PROVE  DrawnAt(q)'
    <3>1. q # p /\ entry'[q] = entry[q] /\ pc'[q] = pc[q] /\ cmd'[q] = cmd[q]
      BY <1>1, <2>15 DEF Untouched, SameCall
    <3>2. wal[q] # None /\ cmd[q].wallet \in Wallet
      BY <2>15, <3>1, Memory DEF Memories, CallOKAt
    <3>3. cmd[q].wallet # W
      BY <2>0, <2>1, <3>1, <3>2 DEF Memories, Held, HeldAt
    <3>4. seqs'[cmd[q].wallet] = seqs[cmd[q].wallet]
      BY <2>8, <3>2, <3>3
    <3>5. DrawnAt(q) /\ drawn'[q] = drawn[q]
      BY <2>14, <2>15 DEF Numbered
    <3>. QED BY <1>1, <2>4, <2>15, <3>1, <3>4, <3>5 DEF DrawnAt
  <2>16. \A q \in Call : DrawnAt(q)'
    BY <2>15 DEF DrawnAt
  <2>17. lastSeq' \in Nat /\ drawn' \in [Call -> Nat]
    BY <2>4, <2>5, <2>14
  <2>. QED BY <2>11, <2>12, <2>16, <2>17 DEF Numbered
<1>. QED BY <1>2, <1>3

\* A wallet is opened with no entry or with the latest number.
LEMMA OpenNumbered ==
    ASSUME Memories, Numbered, Write, NEW w \in Wallet, NEW pl \in Player, NEW u \in Currency,
           NEW b \in InitialBalance, OpenWallet(w, pl, u, b)
    PROVE  Numbered'
<1>1. /\ wallets[w] = None /\ ledger[w] = <<>>
      /\ \A v \in Wallet \ {w} : ledger'[v] = ledger[v]
      /\ UNCHANGED <<pc, cmd, wal, entry>>
  <2>1. wallets[w] = None
    BY DEF OpenWallet
  <2>. QED BY <2>1, OpenWalletFacts DEF Memories
<1>2. CASE ledger'[w] = <<>>
  <2>1. ledger' = ledger
    <3>1. \A v \in Wallet : ledger'[v] = ledger[v]
      BY <1>1, <1>2
    <3>2. ledger \in [Wallet -> Seq(LedgerEntry)]
          /\ ledger' = [ledger EXCEPT ![w] = ledger'[w]]
      BY DEF OpenWallet, Memories, TypeInv, TypeOK
    <3>. QED BY <3>1, <3>2
  <2>2. /\ lastSeq' \in Nat /\ lastSeq <= lastSeq' /\ lastSeq \in Nat
        /\ drawn' \in [Call -> Nat] /\ seqs' = seqs /\ seqs \in [Wallet -> Seq(Nat)]
    BY <2>1, QuietWrite DEF Numbered
  <2>3. ASSUME NEW v \in Wallet  PROVE NumberedAt(v)'
    <3>1. NumberedAt(v) /\ seqs[v] \in Seq(Nat)
      BY <2>2 DEF Numbered
    <3>. QED BY <2>1, <2>2, <3>1 DEF NumberedAt, Ascending
  <2>4. ASSUME NEW q \in Call  PROVE DrawnAt(q)'
    BY <1>1, <2>1, DrawnKept DEF DrawnAt
  <2>. QED BY <2>2, <2>3, <2>4 DEF Numbered
<1>3. CASE ledger'[w] # <<>>
  <2>1. Opens /\ lastSeq' = lastSeq + 1 /\ lastSeq \in Nat /\ lastSeq' \in Nat
    BY <1>1, <1>3 DEF Opens, Write, Numbered
  <2>2. NumberOf(w) = lastSeq'
    BY <2>1 DEF NumberOf
  <2>3. /\ seqs' = [v \in Wallet |->
              IF ledger'[v] = ledger[v] THEN seqs[v] ELSE Append(seqs[v], NumberOf(v))]
        /\ seqs \in [Wallet -> Seq(Nat)] /\ NumberedAt(w) /\ seqs[w] \in Seq(Nat)
    BY DEF Write, Numbered
  <2>4. seqs'[w] = Append(seqs[w], lastSeq') /\ \A v \in Wallet \ {w} : seqs'[v] = seqs[v]
    BY <1>1, <1>3, <2>2, <2>3
  <2>5. seqs[w] = <<>>
    BY <1>1, <2>3 DEF NumberedAt
  <2>6. seqs'[w] = <<lastSeq'>>
    BY <2>4, <2>5
  <2>7. Len(ledger'[w]) = 1
    <3>1. /\ ledger' = [ledger EXCEPT ![w] =
                IF b > 0 THEN <<NewLedgerEntry(Opening, "CREDIT", b, 0)>> ELSE <<>>]
          /\ w \in DOMAIN ledger
      BY DEF OpenWallet, Memories, TypeInv, TypeOK
    <3>. QED BY <1>3, <3>1
  <2>8. NumberedAt(w)'
    BY <2>1, <2>6, <2>7 DEF NumberedAt, Ascending
  <2>9. ASSUME NEW v \in Wallet, v # w  PROVE NumberedAt(v)'
    <3>1. NumberedAt(v) /\ seqs'[v] = seqs[v] /\ ledger'[v] = ledger[v] /\ seqs[v] \in Seq(Nat)
      BY <1>1, <2>3, <2>4, <2>9 DEF Numbered
    <3>2. \A i \in DOMAIN seqs[v] : seqs[v][i] <= lastSeq + 1
      BY <2>1, <3>1 DEF NumberedAt
    <3>. QED BY <2>1, <3>1, <3>2 DEF NumberedAt, Ascending
  <2>10. /\ drawn' = [q \in Call |-> IF entry'[q] = None THEN 0 ELSE drawn[q]]
         /\ drawn \in [Call -> Nat]
    BY <1>1 DEF Write, Numbered, Inserts
  <2>11. ASSUME NEW q \in Call, entry'[q] # None, pc'[q] \in {"update", "commit"}
         PROVE  DrawnAt(q)'
    <3>1. wal[q] # None /\ cmd[q].wallet \in Wallet /\ entry[q] # None
      BY <1>1, <2>11, Memory DEF Memories, CallOKAt
    <3>2. cmd[q].wallet # w
      BY <1>1, <3>1 DEF Memories, Held, HeldAt
    <3>3. seqs'[cmd[q].wallet] = seqs[cmd[q].wallet]
      BY <2>4, <3>1, <3>2
    <3>4. DrawnAt(q) /\ drawn'[q] = drawn[q] /\ drawn[q] \in Nat
      BY <2>10, <2>11 DEF Numbered
    <3>. QED BY <1>1, <2>1, <2>11, <3>3, <3>4 DEF DrawnAt
  <2>12. \A q \in Call : DrawnAt(q)'
    BY <2>11 DEF DrawnAt
  <2>13. seqs' \in [Wallet -> Seq(Nat)]
    BY <2>1, <2>3, <2>4, <2>6
  <2>14. drawn' \in [Call -> Nat]
    BY <2>10
  <2>. QED BY <2>1, <2>8, <2>9, <2>12, <2>13, <2>14 DEF Numbered
<1>. QED BY <1>2, <1>3

LEMMA NextNumbered ==
    ASSUME Memories, Numbered, [NextReads]_<<vars, readVars>>
    PROVE  Numbered'
<1>1. CASE Read \/ UNCHANGED <<vars, readVars>>
  <2>1. UNCHANGED <<vars, lastSeq, drawn, seqs>>
    BY <1>1, ReadsKeep
  <2>. QED BY <2>1 DEF Numbered, NumberedAt, DrawnAt, Ascending, vars
<1>2. CASE Write
  <2>1. CASE UNCHANGED vars
    <3>1. UNCHANGED <<ledger, entry, pc, cmd>>
      BY <2>1 DEF vars
    <3>2. /\ lastSeq' \in Nat /\ lastSeq <= lastSeq' /\ lastSeq \in Nat
          /\ drawn' \in [Call -> Nat] /\ seqs' = seqs /\ seqs \in [Wallet -> Seq(Nat)]
      BY <1>2, <3>1, QuietWrite DEF Numbered
    <3>3. ASSUME NEW v \in Wallet  PROVE NumberedAt(v)'
      <4>1. NumberedAt(v) /\ seqs[v] \in Seq(Nat)
        BY <3>2 DEF Numbered
      <4>. QED BY <3>1, <3>2, <4>1 DEF NumberedAt, Ascending
    <3>4. ASSUME NEW q \in Call  PROVE DrawnAt(q)'
      BY <1>2, <3>1, DrawnKept DEF DrawnAt
    <3>. QED BY <3>2, <3>3, <3>4 DEF Numbered
  <2>2. Next
    BY <1>2 DEF Write
  <2>. QED BY <1>2, <2>1, <2>2, StepsOfCalls, OpenNumbered, CommitNumbered, StepNumbered
<1>. QED BY <1>1, <1>2 DEF NextReads

LEMMA NumberedInvariant == SpecReads => [](Memories /\ LedgerExplainsBalance /\ Numbered)
<1>1. InitReads => Numbered
  BY DEF InitReads, Init, Numbered, NumberedAt, DrawnAt, Ascending
<1>. QED BY <1>1, MemoriesWhileReading, NextNumbered, PTL DEF SpecReads

\* The history of a wallet reads in the order in which its money moved, with
\* one number for each entry, for any number of calls and wallets: the lock on
\* the wallet is held from before the number is drawn until the commit.
THEOREM HistoryReadsInOrder == SpecReads => []HistoryInOrder
<1>1. Numbered => HistoryInOrder
  BY DEF Numbered, NumberedAt, Ascending, HistoryInOrder
<1>. QED BY <1>1, NumberedInvariant, PTL

-----------------------------------------------------------------------------
(***************************************************************************)
(* Pages.                                                                  *)
(***************************************************************************)

\* The induction of this module: a set of naturals has a least element.
LEMMA LeastNatural ==
    ASSUME NEW S \in SUBSET Nat, S # {}
    PROVE  \E m \in S : \A k \in S : m <= k
<1>1. PICK m \in S : \A k \in S : ~(<<k, m>> \in OpToRel(<, Nat))
  BY NatLessThanWellFounded, WFMin
<1>2. \A k \in S : k \in Nat /\ m \in Nat /\ ~(k < m)
  BY <1>1 DEF OpToRel
<1>. QED BY <1>2

\* So a bounded one has a greatest.
LEMMA MaxOfBounded ==
    ASSUME NEW S \in SUBSET Nat, S # {}, NEW b \in Nat, \A n \in S : n <= b
    PROVE  Max(S) \in S /\ \A n \in S : n <= Max(S)
<1>. DEFINE D == {b - n : n \in S}
<1>1. D \in SUBSET Nat /\ D # {}
  OBVIOUS
<1>. HIDE DEF D
<1>2. PICK d \in D : \A k \in D : d <= k
  BY <1>1, LeastNatural
<1>3. PICK m \in S : d = b - m
  BY <1>2 DEF D
<1>4. \A n \in S : m >= n
  <2>. SUFFICES ASSUME NEW n \in S  PROVE m >= n
    OBVIOUS
  <2>1. b - m <= b - n
    BY <1>2, <1>3 DEF D
  <2>. QED BY <2>1
<1>5. \E x \in S : \A n \in S : x >= n
  BY <1>4
<1>6. Max(S) \in S /\ \A n \in S : Max(S) >= n
  BY <1>5 DEF Max
<1>. QED BY <1>6

\* The numbers of a wallet that the sequence has reached.
LEMMA NumbersBounded ==
    ASSUME Numbered, NEW w \in Wallet
    PROVE  Numbers(w) \in SUBSET Nat /\ \A n \in Numbers(w) : 0 < n /\ n <= lastSeq
<1>1. seqs[w] \in Seq(Nat) /\ NumberedAt(w)
  BY DEF Numbered
<1>2. \A i \in DOMAIN seqs[w] : seqs[w][i] \in Nat
  BY <1>1
<1>. QED BY <1>1, <1>2 DEF Numbers, NumberedAt

\* A page goes up to one of its rows, or nowhere, and skips no number on the
\* way.
LEMMA PageSkipsNothing ==
    ASSUME Numbered, NEW w \in Wallet, NEW after \in Nat
    PROVE  LET page == PageLedger(w, after, Limit)
               top == Max(page \cup {after})
           IN  /\ page \subseteq Numbers(w)
               /\ top \in Nat /\ top \in Numbers(w) \cup {after}
               /\ \A n \in Numbers(w) : n <= top => n <= after \/ n \in page
<1>. DEFINE later == {n \in Numbers(w) : n > after}
            page == PageLedger(w, after, Limit)
            top == Max(page \cup {after})
            below(n) == {m \in later : m < n}
<1>1. Numbers(w) \in SUBSET Nat /\ \A n \in Numbers(w) : 0 < n /\ n <= lastSeq
  BY NumbersBounded
<1>2. page = {n \in later : Cardinality(below(n)) < Limit}
  BY DEF PageLedger
<1>. HIDE DEF page
<1>3. page \subseteq Numbers(w) /\ page \cup {after} \in SUBSET Nat
  BY <1>1, <1>2
<1>4. top \in page \cup {after} /\ \A n \in page \cup {after} : n <= top
  <2>1. lastSeq + after \in Nat /\ \A n \in page \cup {after} : n <= lastSeq + after
    BY <1>1, <1>3 DEF Numbered
  <2>2. page \cup {after} # {}
    OBVIOUS
  <2>. QED BY <1>3, <2>1, <2>2, MaxOfBounded
<1>. HIDE DEF top
<1>5. ASSUME NEW n \in Numbers(w), n <= top, ~(n <= after)  PROVE n \in page
  <2>1. top \in Nat /\ n \in Nat
    BY <1>1, <1>3, <1>4
  <2>2. top \in page /\ n \in later
    BY <1>4, <1>5, <2>1
  <2>3. below(n) \in SUBSET below(top) /\ below(top) \in SUBSET Nat
    BY <1>1, <1>5, <2>1
  <2>4. lastSeq \in Nat /\ \A m \in below(top) : m <= lastSeq
    BY <1>1 DEF Numbered
  <2>. HIDE DEF below
  <2>5. IsFiniteSet(below(top))
    BY <2>3, <2>4, FS_BoundedSetOfNaturals
  <2>6. /\ Cardinality(below(n)) <= Cardinality(below(top))
        /\ Cardinality(below(n)) \in Nat /\ Cardinality(below(top)) \in Nat
    BY <2>3, <2>5, FS_Subset, FS_CardinalityType
  <2>7. Cardinality(below(top)) < Limit /\ Limit \in Nat
    BY <1>2, <2>2, ReadAssumption
  <2>. QED BY <1>2, <2>2, <2>6, <2>7
<1>. QED BY <1>3, <1>4, <1>5 DEF page, top

\* Where a client has come: nowhere, or to a number of the wallet it reads.
Walked ==
    walk # NoWalk =>
        /\ walk.wallet \in Wallet
        /\ walk.upto \in Nat
        /\ walk.upto \in Numbers(walk.wallet) \cup {0}
        /\ {n \in Numbers(walk.wallet) : n <= walk.upto} \subseteq walk.shown

\* The numbers a write adds to a wallet are above those that were there.
LEMMA NumbersGrow ==
    ASSUME Numbered, Numbered', Write, NEW w \in Wallet
    PROVE  /\ Numbers(w) \subseteq Numbers(w)'
           /\ \A n \in Numbers(w)' :
                 n \in Nat /\ (n \in Numbers(w) \/ (0 < n /\ \A m \in Numbers(w) : m < n))
<1>1. /\ seqs[w] \in Seq(Nat) /\ seqs'[w] \in Seq(Nat) /\ NumberedAt(w)'
      /\ seqs'[w] = seqs[w] \/ \E n : seqs'[w] = Append(seqs[w], n)
  BY DEF Write, Numbered
<1>2. CASE seqs'[w] = seqs[w]
  BY <1>1, <1>2 DEF Numbers
<1>3. ASSUME NEW n, seqs'[w] = Append(seqs[w], n)
      PROVE  /\ Numbers(w) \subseteq Numbers(w)'
             /\ \A k \in Numbers(w)' :
                   k \in Nat /\ (k \in Numbers(w) \/ (0 < k /\ \A m \in Numbers(w) : m < k))
  <2>1. /\ DOMAIN seqs[w] = 1..Len(seqs[w]) /\ Len(seqs[w]) \in Nat
        /\ DOMAIN seqs'[w] = 1..(Len(seqs[w]) + 1)
        /\ \A i \in 1..Len(seqs[w]) : seqs'[w][i] = seqs[w][i]
        /\ seqs'[w][Len(seqs[w]) + 1] = n
        /\ \A i \in 1..(Len(seqs[w]) + 1) : seqs'[w][i] \in Nat
    BY <1>1, <1>3
  <2>2. ASSUME NEW i \in 1..Len(seqs[w])  PROVE seqs[w][i] < n
    <3>1. i \in DOMAIN seqs'[w] /\ Len(seqs[w]) + 1 \in DOMAIN seqs'[w] /\ i < Len(seqs[w]) + 1
      BY <2>1
    <3>2. seqs'[w][i] < seqs'[w][Len(seqs[w]) + 1]
      BY <1>1, <3>1 DEF NumberedAt, Ascending
    <3>. QED BY <2>1, <3>2
  <2>3. 0 < n
    BY <1>1, <2>1 DEF NumberedAt
  <2>4. Numbers(w) = {seqs[w][i] : i \in 1..Len(seqs[w])}
    BY <2>1 DEF Numbers
  <2>5. Numbers(w)' = {seqs'[w][i] : i \in 1..(Len(seqs[w]) + 1)}
    BY <2>1 DEF Numbers
  <2>6. Numbers(w)' = Numbers(w) \cup {n}
    <3>1. \A i \in 1..Len(seqs[w]) : i \in 1..(Len(seqs[w]) + 1)
      BY <2>1
    <3>2. Numbers(w) \cup {n} \subseteq Numbers(w)'
      BY <2>1, <2>4, <2>5, <3>1
    <3>3. \A i \in 1..(Len(seqs[w]) + 1) : i \in 1..Len(seqs[w]) \/ i = Len(seqs[w]) + 1
      BY <2>1
    <3>4. ASSUME NEW k \in Numbers(w)'  PROVE k \in Numbers(w) \cup {n}
      <4>1. PICK i \in 1..(Len(seqs[w]) + 1) : k = seqs'[w][i]
        BY <2>5, <3>4
      <4>2. CASE i \in 1..Len(seqs[w])
        BY <2>1, <2>4, <4>1, <4>2
      <4>3. CASE i = Len(seqs[w]) + 1
        BY <2>1, <4>1, <4>3
      <4>. QED BY <3>3, <4>2, <4>3
    <3>. QED BY <3>2, <3>4
  <2>7. \A m \in Numbers(w) : m < n
    BY <2>2, <2>4
  <2>8. \A k \in Numbers(w)' : k \in Nat
    BY <2>1, <2>5
  <2>. QED BY <2>3, <2>6, <2>7, <2>8
<1>. QED BY <1>1, <1>2, <1>3

LEMMA WriteWalked ==
    ASSUME Numbered, Numbered', Walked, Write
    PROVE  Walked'
<1>. SUFFICES ASSUME walk # NoWalk  PROVE Walked'
  BY DEF Walked, Write
<1>1. PICK w \in Wallet : w = walk.wallet
  BY DEF Walked
<1>2. walk' = walk
  BY DEF Write
<1>3. /\ walk.upto \in Nat /\ walk.upto \in Numbers(w) \cup {0}
      /\ {n \in Numbers(w) : n <= walk.upto} \subseteq walk.shown
  BY <1>1 DEF Walked
<1>4. /\ Numbers(w) \subseteq Numbers(w)'
      /\ \A n \in Numbers(w)' :
            n \in Nat /\ (n \in Numbers(w) \/ (0 < n /\ \A m \in Numbers(w) : m < n))
  BY NumbersGrow
<1>5. \A n \in Numbers(w)' : n <= walk.upto => n \in Numbers(w)
  BY <1>3, <1>4
<1>6. Numbers(walk.wallet)' = Numbers(w)'
  BY <1>1, <1>2 DEF Numbers
<1>. QED BY <1>1, <1>2, <1>3, <1>4, <1>5, <1>6 DEF Walked

LEMMA ReadWalked ==
    ASSUME Numbered, Walked, Read \/ UNCHANGED <<vars, readVars>>
    PROVE  Walked'
<1>1. UNCHANGED seqs
  BY ReadsKeep
<1>2. CASE walk' = walk
  BY <1>1, <1>2 DEF Walked, Numbers
<1>3. CASE EndWalk
  BY <1>3 DEF EndWalk, Walked
<1>4. ASSUME NEW w \in Wallet, StartWalk(w)  PROVE Walked'
  <2>1. walk' = [wallet |-> w, upto |-> 0, shown |-> {}, more |-> TRUE]
    BY <1>4 DEF StartWalk
  <2>2. \A n \in Numbers(w) : n \in Nat /\ 0 < n
    BY NumbersBounded
  <2>. QED BY <1>1, <2>1, <2>2 DEF Walked, Numbers
<1>5. CASE Page
  <2>1. walk # NoWalk
    BY <1>5 DEF Page, NoWalk
  <2>2. PICK w \in Wallet : w = walk.wallet
    BY <2>1 DEF Walked
  <2>3. PICK after \in Nat : after = walk.upto
    BY <2>1 DEF Walked
  <2>. DEFINE page == PageLedger(w, after, Limit)
              top == Max(page \cup {after})
  <2>4. /\ after \in Numbers(w) \cup {0}
        /\ {n \in Numbers(w) : n <= after} \subseteq walk.shown
    BY <2>1, <2>2, <2>3 DEF Walked
  <2>5. /\ page \subseteq Numbers(w)
        /\ top \in Nat /\ top \in Numbers(w) \cup {after}
        /\ \A n \in Numbers(w) : n <= top => n <= after \/ n \in page
    BY PageSkipsNothing
  <2>6. walk'.wallet = w /\ walk'.upto = top /\ walk'.shown = walk.shown \cup page
    BY <1>5, <2>2, <2>3 DEF Page
  <2>. HIDE DEF page, top
  <2>. QED BY <1>1, <2>4, <2>5, <2>6 DEF Walked, Numbers
<1>. QED
  BY <1>2, <1>3, <1>4, <1>5 DEF Read, ReadWallet, ReadEntries, EndAudit, readVars

\* A client that pages through a wallet with a cursor is shown every entry up
\* to where it has come, for any limit and any number of pages, while any
\* number of calls keep writing.
THEOREM PagesAreComplete == SpecReads => []PagesMissNothing
<1>1. InitReads => Walked
  BY DEF InitReads, Walked
<1>2. Numbered /\ Numbered' /\ Walked /\ [NextReads]_<<vars, readVars>> => Walked'
  BY WriteWalked, ReadWalked DEF NextReads
<1>3. Walked => PagesMissNothing
  BY DEF Walked, PagesMissNothing
<1>. QED BY <1>1, <1>2, <1>3, NumberedInvariant, PTL DEF SpecReads

-----------------------------------------------------------------------------
(***************************************************************************)
(* Reconciliation.                                                         *)
(***************************************************************************)

\* Entries that explain a balance add up to it, and no partial sum overflows.
\* The sums are the balances the entries themselves record; that the loop
\* computes nothing else is shown at the first place where it would.
LEMMA ReplayExplained ==
    ASSUME NEW l \in Seq(LedgerEntry), NEW b, Explains(l, b)
    PROVE  ReplayLedgerBalance(l) = b
<1>. DEFINE n == Len(l)
            step(f, i) == IF i = 0 THEN 0 ELSE AddSigned(f[i - 1], l[i])
            g == [i \in 0..n |-> IF i = 0 THEN 0 ELSE l[i].after]
            h == CHOOSE f : f = [i \in 0..n |-> step(f, i)]
<1>1. n \in Nat /\ \A i \in 1..n : l[i] \in LedgerEntry
  OBVIOUS
<1>2. ASSUME NEW i \in 1..n  PROVE g[i] = AddSigned(g[i - 1], l[i])
  <2>1. /\ l[i].before = IF i = 1 THEN 0 ELSE l[i - 1].after
        /\ l[i].after = BalanceAfter(l[i].before, l[i].direction, l[i].amount)
    BY DEF Explains
  <2>2. i \in 0..n /\ i - 1 \in 0..n /\ i # 0 /\ (i - 1 = 0 <=> i = 1)
    BY <1>1
  <2>3. g[i] = l[i].after /\ g[i - 1] = l[i].before
    BY <2>1, <2>2
  <2>4. l[i].before \in Money /\ l[i].after \in Money
    BY <1>1 DEF LedgerEntry
  <2>. HIDE DEF g
  <2>5. MaxMoney \in Nat /\ None \notin Money
    BY MoneyAssumption, NoneAssumption DEF Money
  <2>6. l[i].before # None /\ l[i].after # None /\ l[i].after \in (-MaxMoney - 1)..MaxMoney
    BY <2>4, <2>5 DEF Money
  <2>7. AddSigned(l[i].before, l[i]) = l[i].after
    BY <2>1, <2>6 DEF AddSigned
  <2>. QED BY <2>3, <2>7
<1>3. g = [i \in 0..n |-> step(g, i)]
  <2>1. 0 \in 0..n /\ g[0] = 0
    BY <1>1
  <2>2. \A i \in 0..n : i = 0 \/ i \in 1..n
    BY <1>1
  <2>3. g = [i \in 0..n |-> g[i]]
    OBVIOUS
  <2>. HIDE DEF g
  <2>4. \A i \in 0..n : g[i] = step(g, i)
    BY <1>2, <2>1, <2>2
  <2>. QED BY <2>3, <2>4
<1>. HIDE DEF g, n
<1>4. h = [i \in 0..n |-> step(h, i)]
  BY <1>3
<1>5. ReplayLedgerBalance(l) = h[n]
  BY DEF ReplayLedgerBalance, n
<1>. HIDE DEF h
<1>6. \A i \in 0..n : h[i] = step(h, i) /\ g[i] = step(g, i)
  BY <1>3, <1>4
<1>. DEFINE D == {i \in 0..n : h[i] # g[i]}
<1>7. D = {}
  <2>. SUFFICES ASSUME D # {}  PROVE FALSE
    OBVIOUS
  <2>1. D \in SUBSET Nat
    BY <1>1
  <2>2. PICK m \in D : \A k \in D : m <= k
    BY <2>1, LeastNatural
  <2>3. CASE m = 0
    BY <1>6, <2>2, <2>3
  <2>4. CASE m # 0
    <3>1. m \in 0..n /\ m - 1 \in 0..n /\ m - 1 \notin D
      BY <1>1, <2>2, <2>4
    <3>2. h[m - 1] = g[m - 1]
      BY <3>1
    <3>3. h[m] = AddSigned(h[m - 1], l[m]) /\ g[m] = AddSigned(g[m - 1], l[m])
      BY <1>6, <2>4, <3>1
    <3>. QED BY <2>2, <3>2, <3>3
  <2>. QED BY <2>3, <2>4
<1>8. h[n] = g[n]
  BY <1>1, <1>7
<1>9. g[n] = b
  BY <1>1 DEF Explains, g, n
<1>. QED BY <1>5, <1>8, <1>9

\* A reconciliation holds a balance and the entries that explained it.
Audited ==
    audit # NoAudit =>
        /\ audit.snapshot \in Seq(LedgerEntry)
        /\ Explains(audit.snapshot, audit.balance)
        /\ audit.entries \in {None, audit.snapshot}

\* A reconciliation never reports a difference that was not there, nor fails on
\* an overflow, however many calls commit between its two reads and however
\* long the ledger.
THEOREM ReconciliationAgrees == SpecReads => []ReconciliationIsConsistent
<1>1. InitReads => Audited
  BY DEF InitReads, Audited
<1>2. Memories /\ LedgerExplainsBalance /\ Audited /\ [NextReads]_<<vars, readVars>> => Audited'
  <2>. SUFFICES ASSUME Memories, LedgerExplainsBalance, Audited,
                       [NextReads]_<<vars, readVars>>
                PROVE  Audited'
    OBVIOUS
  <2>1. CASE audit' = audit
    BY <2>1 DEF Audited
  <2>2. CASE EndAudit
    BY <2>2 DEF EndAudit, Audited
  <2>3. CASE ReadEntries
    BY <2>3 DEF ReadEntries, Audited
  <2>4. ASSUME NEW w \in Wallet, ReadWallet(w)  PROVE Audited'
    <3>1. audit' = [wallet |-> w, balance |-> wallets[w].balance, snapshot |-> ledger[w],
                    entries |-> None]
      BY <2>4 DEF ReadWallet
    <3>2. ledger[w] \in Seq(LedgerEntry) /\ Explains(ledger[w], wallets[w].balance)
      BY <2>4 DEF ReadWallet, LedgerExplainsBalance, Explains, Memories, TypeInv, TypeOK
    <3>. QED BY <3>1, <3>2 DEF Audited
  <2>. QED
    BY <2>1, <2>2, <2>3, <2>4 DEF NextReads, Write, Read, StartWalk, Page, EndWalk, readVars
<1>3. Audited => ReconciliationIsConsistent
  BY ReplayExplained DEF Audited, NoAudit, ReconciliationIsConsistent
<1>. QED BY <1>1, <1>2, <1>3, MemoriesWhileReading, PTL DEF SpecReads
=============================================================================
