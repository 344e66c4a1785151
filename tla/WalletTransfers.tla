--------------------------- MODULE WalletTransfers ---------------------------
(***************************************************************************)
(* Transfers between wallets: TransferFundsService and the domain service, *)
(* over the wallets table that SqlRepositoryBase reads and writes.         *)
(*                                                                         *)
(* A transfer reads the two wallets in two queries outside any transaction *)
(* and saves what it computed from them with insert, the only write that   *)
(* SqlRepositoryBase offers: a plain INSERT, which a stored id refuses.    *)
(***************************************************************************)
EXTENDS Functions, Integers

CONSTANTS
  Wallets, Transfers,
  Amounts,         \* the amounts a request may ask for
  MaxBalance,      \* the largest balance walletSchema accepts
  Faults           \* what may fail: a statement

\* What the constants are: the theorems assume it.
Ranges == Amounts \subseteq Int /\ MaxBalance \in Nat /\ Faults \subseteq {"query"}

VARIABLES
  balance,     \* the stored wallets with their balances
  transfer,    \* each transfer: its request, what it has read, its answer
  announced    \* transfers whose FundsTransferred event was emitted

vars == <<balance, transfer, announced>>

Refusals == {"not_found", "out_of_range", "same_wallet", "insufficient"}
Answers == {"ok", "threw"} \cup Refusals

Records == [at : {"start", "source", "save"} \cup Answers,
            from : Wallets, to : Wallets, amount : Amounts,
            source : 0 .. MaxBalance, target : 0 .. MaxBalance]

TypeOK ==
  /\ DOMAIN balance \subseteq Wallets
  /\ \A w \in DOMAIN balance : balance[w] \in 0 .. MaxBalance
  /\ transfer \in [Transfers -> Records]
  /\ announced \subseteq Transfers

\* The code stores wallets with balance 0 only; larger balances are credited
\* from outside, as transfer-funds.feature presupposes.
Init ==
  /\ balance \in UNION {[S -> 0 .. MaxBalance] : S \in SUBSET Wallets}
  /\ transfer \in [Transfers -> [at : {"start"}, from : Wallets, to : Wallets,
                                 amount : Amounts, source : {0}, target : {0}]]
  /\ announced = {}

-----------------------------------------------------------------------------
\* The rows with w's balance set to n.
Put(rows, w, n) == [v \in DOMAIN rows \cup {w} |-> IF v = w THEN n ELSE rows[v]]

Go(t, at) == transfer' = [transfer EXCEPT ![t].at = at]

\* CreateWalletWhenUserIsCreated inserts the wallet of a new user.
CreateWallet(w) ==
  /\ w \notin DOMAIN balance
  /\ balance' = Put(balance, w, 0)
  /\ UNCHANGED <<transfer, announced>>

ReadSource(t) ==
  LET w == transfer[t].from IN
  /\ transfer[t].at = "start"
  /\ \/ w \notin DOMAIN balance /\ Go(t, "not_found")
     \/ /\ w \in DOMAIN balance
        /\ transfer' = [transfer EXCEPT ![t].at = "source", ![t].source = balance[w]]
  /\ UNCHANGED <<balance, announced>>

Overdraws(from, amount) == from - amount < 0

\* TransferFundsDomainService.transfer: the first objection, or "save".
Verdict(t, source) ==
  IF transfer[t].amount <= 0 THEN "out_of_range"
  ELSE IF transfer[t].from = transfer[t].to THEN "same_wallet"
  ELSE IF Overdraws(source, transfer[t].amount) THEN "insufficient"
  ELSE "save"

ReadTarget(t) ==
  LET w == transfer[t].to IN
  /\ transfer[t].at = "source"
  /\ \/ w \notin DOMAIN balance /\ Go(t, "not_found")
     \/ /\ w \in DOMAIN balance
        /\ transfer' = [transfer EXCEPT ![t].at = Verdict(t, transfer[t].source),
                                        ![t].target = balance[w]]
  /\ UNCHANGED <<balance, announced>>

\* The primary key of wallets: an id that is stored cannot be inserted.
InsertConflicts(w) == w \in DOMAIN balance

\* toPersistence: the schema of the row refuses any other balance.
Accepts(n) == n \in 0 .. MaxBalance

\* What the two wallets hold after withdraw and deposit.
Withdrawn(r) == r.source - r.amount
Deposited(r) == r.target + r.amount

\* The source carries the event of recordTransfer, which its insert publishes.
Recorded(t) == announced \cup {t}

\* One transaction: insert the source and publish its event, insert the
\* target.  An error of the second insert rolls the first one back.
Save(t) ==
  LET r == transfer[t]
      stops == ~Accepts(Withdrawn(r)) \/ InsertConflicts(r.from)
      throws == stops \/ ~Accepts(Deposited(r)) \/ InsertConflicts(r.to)
  IN
  /\ r.at = "save"
  /\ Go(t, IF throws THEN "threw" ELSE "ok")
  /\ announced' = IF stops THEN announced ELSE Recorded(t)
  /\ balance' = IF throws THEN balance
                ELSE Put(Put(balance, r.from, Withdrawn(r)), r.to, Deposited(r))

\* A statement fails or no connection comes free: the command throws.
StatementFails(t) ==
  /\ "query" \in Faults
  /\ transfer[t].at \in {"start", "source", "save"}
  /\ Go(t, "threw")
  /\ UNCHANGED <<balance, announced>>

Next ==
  \/ \E w \in Wallets : CreateWallet(w)
  \/ \E t \in Transfers : ReadSource(t) \/ ReadTarget(t) \/ Save(t) \/ StatementFails(t)

Spec == Init /\ [][Next]_vars

-----------------------------------------------------------------------------
(* Properties.                                                             *)

\* What each wallet holds; one that is not stored holds nothing.
Worth == [w \in Wallets |-> IF w \in DOMAIN balance THEN balance[w] ELSE 0]
Sum(f) == FoldFunction(+, 0, f)
Total == Sum(Worth)

\* No interleaving of transfers, stale reads included, and no new wallet
\* creates or destroys money.
MoneyConserved == [][Total' = Total]_vars

\* A transfer refused for lack of funds, or as a transfer to the same wallet,
\* is refused for a reason that still stands whenever the answer arrives.
RefusalsAreDue ==
  \A t \in Transfers :
    LET r == transfer[t] IN
    /\ r.at = "insufficient" => r.from # r.to /\ balance[r.from] < r.amount
    /\ r.at = "same_wallet" => r.from = r.to

\* Two stored wallets, enough money in one, and room for it in the other.
Feasible(r) ==
  /\ {r.from, r.to} \subseteq DOMAIN balance /\ r.from # r.to /\ r.amount > 0
  /\ balance[r.from] >= r.amount /\ balance[r.to] + r.amount <= MaxBalance

\* transfer-funds.feature, "Successfully transferring funds": a source that
\* holds more than the amount, a second wallet, and then "the result is ok":
\* the command of such a transfer never throws.  (For one transfer at a time,
\* and while no statement fails: Transfers is a singleton and Faults empty.)
ValidTransferSucceeds ==
  \A t \in Transfers :
    transfer[t].at = "threw" => ~Feasible(transfer[t])

\* The code as it is, against that scenario: a stored wallet cannot be saved
\* again, so no transfer is ever completed or announced.
NoTransferCompletes ==
  /\ announced = {}
  /\ \A t \in Transfers : transfer[t].at # "ok"

\* A transfer on its way, of which the inserts are still to come, therefore
\* works on balances that are current.
ReadsAreCurrent ==
  \A t \in Transfers :
    LET r == transfer[t] IN
    /\ r.at \in {"source", "save", "insufficient"} =>
         r.from \in DOMAIN balance /\ r.source = balance[r.from]
    /\ r.at = "save" => r.to \in DOMAIN balance /\ r.target = balance[r.to]

IInv == TypeOK /\ NoTransferCompletes /\ ReadsAreCurrent /\ RefusalsAreDue
=============================================================================
