------------------------------- MODULE Accounts -------------------------------
(***************************************************************************)
(* The AccountStore (pkg/chain/account.go, account_dust.go): the charge    *)
(* every transaction family takes and the credits it gives.  Amounts are   *)
(* in dust.  Balance is a float64: up to Exact it holds every amount of    *)
(* dust, beyond it only multiples of Coarse, so a charge or credit there   *)
(* is rounded (dustfork.go, "quantised up to the ULP grid").  Transactions *)
(* are applied one at a time under the producer's mutex; each carries the  *)
(* sender's next nonce, so nonces are not kept here.                       *)
(***************************************************************************)
EXTENDS Integers, FiniteSets, Functions

CONSTANTS
    Wallets,
    Supply,          \* Supply[w]: the balance at the start; 0 means no account yet
    Fees,            \* the transaction fees that occur
    Exact, Coarse,   \* the precision of Balance
    Short,           \* the amounts whose float64, floored, is one dust short
    DustActive       \* integer-dust accounting; FALSE unless something activates it

(* The float64 nearest to x, the even one if two are. *)
Rounded(x) ==
    LET over == x % Coarse IN
    IF x <= Exact THEN x
    ELSE IF 2 * over < Coarse \/ (2 * over = Coarse /\ (x \div Coarse) % 2 = 0)
         THEN x - over ELSE x - over + Coarse

ASSUME AccountAssumption ==
    /\ Wallets \subseteq Nat \ {0} /\ IsFiniteSet(Wallets)     \* 0 is nobody's address
    /\ Supply \in [Wallets -> Nat] /\ Fees \subseteq Nat
    /\ Exact \in Nat /\ Coarse \in Nat \ {0} /\ Exact >= Coarse /\ Exact % Coarse = 0
    /\ \A w \in Wallets : Rounded(Supply[w]) = Supply[w]
    /\ Short \subseteq Nat \ {0} /\ DustActive \in BOOLEAN

VARIABLES
    ledger,       \* the accounts
    burned        \* fees and slashes destroyed so far (history)

accountVars == <<ledger, burned>>
bal == ledger.balance
known == ledger.known

(* Balance, BalanceDust, the accounts that exist, and as history by how    *)
(* much balances differ from what was added to them, and how often that    *)
(* happened.  Dust accounting starts as MigrateToDust leaves it.           *)
AccountInit ==
    /\ ledger = [balance |-> Supply,
                 dust |-> [w \in Wallets |-> IF DustActive THEN Supply[w] ELSE 0],
                 known |-> {w \in Wallets : Supply[w] > 0}, drift |-> 0, roundings |-> 0]
    /\ burned = 0

(* The ledger L with another balance of w, which should have become due. *)
Stored(L, w, due, value) ==
    [L EXCEPT !.balance[w] = value, !.known = @ \cup {w}, !.drift = @ + (value - due),
              !.roundings = @ + (IF value = due THEN 0 ELSE 1)]

AddFloat(L, w, amount) ==
    LET due == L.balance[w] + amount IN Stored(L, w, due, Rounded(due))

(* setBalanceDustLocked: Balance is derived from BalanceDust again. *)
AddDust(L, w, amount) ==
    LET dust == L.dust[w] + amount IN
    [Stored(L, w, L.balance[w] + amount, Rounded(dust)) EXCEPT !.dust[w] = dust]

Credit(L, w, amount) == IF DustActive THEN AddDust(L, w, amount) ELSE AddFloat(L, w, amount)

(* The effects credit only what is there to be paid. *)
Paid(L, w, amount) == IF amount > 0 THEN Credit(L, w, amount) ELSE L

(* ChargeAndBumpNonce needs an account that covers the charge.             *)
(* ...AllowCreate also takes a new account for a first, free transaction.  *)
(* Both look at Balance and change only it, whatever the accounting.       *)
ChargeAndBumpNonce(w, charge) == w \in known /\ bal[w] >= charge
ChargeAndBumpNonceAllowCreate(w, charge) ==
    IF w \in known THEN bal[w] >= charge ELSE charge = 0
Charged(w, charge) == AddFloat(ledger, w, -charge)

(* ApplyProtocolReward: the funder is charged in full, the recipient gets  *)
(* what is liquid; Balance again, whatever the accounting.                 *)
ProtocolReward(funder, amount, to, liquid) ==
    IF liquid > 0 THEN AddFloat(Charged(funder, amount), to, liquid) ELSE Charged(funder, amount)

(* The effect of an accepted transaction: the accounts are L, and what is  *)
(* lost belongs to nobody any more.                                        *)
Settle(L, lost) == ledger' = L /\ burned' = burned + lost

(* The floors of balanceToDust and floorToDust. *)
Floored(amount) == IF amount \in Short THEN amount - 1 ELSE amount

(* ApplyTx, the plain transfer: the recipient's account exists afterwards  *)
(* even if the amount is 0; the fee is credited to nobody.                 *)
ApplyTx(w, to, amount, fee) ==
    LET sent == IF DustActive THEN Floored(amount) ELSE amount
        cost == IF DustActive THEN Floored(fee) ELSE fee IN
    /\ w \in known /\ (IF DustActive THEN ledger.dust[w] ELSE bal[w]) >= sent + cost
    /\ Settle(Credit(Credit(ledger, w, -(sent + cost)), to, sent), cost)

===============================================================================
