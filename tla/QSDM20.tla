-------------------------------- MODULE QSDM20 --------------------------------
(***************************************************************************)
(* One QSDM-20 token (pkg/chain/qsdm20_state.go, planLocked): created by   *)
(* its issuer, transferred, minted up to the maximum supply, burned, and   *)
(* its minting renounced.  Every action also burns a CELL fee.             *)
(***************************************************************************)
EXTENDS Accounts

CONSTANTS MaxSupply, MintLimit, Units   \* of the token; the amounts that occur

ASSUME TokenAssumption == MaxSupply \in Nat /\ MintLimit \in Nat /\ Units \subseteq Nat \ {0}

VARIABLE token

NoToken == [mint |-> "none yet", issuer |-> 0, max |-> 0, minted |-> 0, burned |-> 0,
            units |-> [w \in Wallets |-> 0]]
TokenInit == token = NoToken
Exists == token.mint # "none yet"

(* The rules are checked first, then the fee is charged, then the change   *)
(* is committed.                                                           *)
Commit(w, fee, t) ==
    /\ ChargeAndBumpNonce(w, fee)
    /\ Settle(Charged(w, fee), fee)
    /\ token' = t

CreateToken(w, mint, initial, fee) ==
    /\ ~Exists /\ initial <= MaxSupply /\ (mint = "off" => initial = MaxSupply)
    /\ Commit(w, fee, [mint |-> mint, issuer |-> w, max |-> MaxSupply, minted |-> initial,
                       burned |-> 0,
                       units |-> [v \in Wallets |-> IF v = w THEN initial ELSE 0]])

TransferToken(w, to, amount, fee) ==
    LET u == token.units
        moved == [u EXCEPT ![w] = u[w] - amount, ![to] = u[to] + amount] IN
    /\ Exists /\ u[w] >= amount
    /\ Commit(w, fee, [token EXCEPT !.units = IF to = w THEN u ELSE moved])

MintToken(w, to, amount, fee) ==
    /\ \/ token.mint = "issuer" /\ w = token.issuer
       \/ token.mint = "open" /\ to = w /\ amount <= MintLimit
    /\ token.minted + amount <= token.max
    /\ Commit(w, fee, [token EXCEPT !.minted = @ + amount, !.units[to] = @ + amount])

BurnToken(w, amount, fee) ==
    /\ Exists /\ token.units[w] >= amount
    /\ Commit(w, fee, [token EXCEPT !.burned = @ + amount, !.units[w] = @ - amount])

RenounceMint(w, fee) ==
    /\ w = token.issuer /\ token.mint \in {"issuer", "open"}
    /\ Commit(w, fee, [token EXCEPT !.mint = "off", !.max = token.minted])

===============================================================================
