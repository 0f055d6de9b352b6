----------------------------- MODULE CellStreams ------------------------------
(***************************************************************************)
(* CELL streams (pkg/chain/stream_state.go): a payer escrows a budget, the *)
(* provider files usage receipts signed by the session key, settles what   *)
(* they earned, and the payer closes the stream.  Every action carries the *)
(* client's own timestamp, in whole seconds here.                          *)
(***************************************************************************)
EXTENDS Accounts

CONSTANTS
    Streams,
    Budget, Price, Period,   \* of a stream: dust, and dust per Period seconds
    MaxActive, Expiry        \* usage cap and end of the stream, in seconds

ASSUME StreamAssumption ==
    /\ IsFiniteSet(Streams)
    /\ Budget \in Nat \ {0} /\ Price \in Nat \ {0} /\ Period \in Nat \ {0}
    /\ MaxActive \in Nat \ {0} /\ Expiry \in Nat \ {0}

VARIABLE stream   \* streams; away: the seconds spent paused (history)

NoStream == [st |-> "none", payer |-> 0, provider |-> 0, opened |-> 0, last |-> 0,
             pausedAt |-> 0, paused |-> 0, active |-> 0, observed |-> 0,
             accrued |-> 0, settled |-> 0, away |-> {}]

StreamInit == stream = [s \in Streams |-> NoStream]

(* An action on a live stream may not carry an earlier timestamp than the  *)
(* one before it.                                                          *)
Live(s, at) == stream[s].st \in {"active", "paused"} /\ at >= stream[s].last
Moved(s, at, r) == stream' = [stream EXCEPT ![s] = [r EXCEPT !.last = at]]

OpenStream(s, w, provider, at) ==
    /\ stream[s].st = "none" /\ w # provider /\ at < Expiry
    /\ ChargeAndBumpNonce(w, Budget)
    /\ Settle(Charged(w, Budget), 0)
    /\ Moved(s, at, [NoStream EXCEPT !.st = "active", !.payer = w,
                         !.provider = provider, !.opened = at])

StreamCharge(active) == (active * Price) \div Period

\* Mutant: the time spent paused is billed.
MaxActiveWall(r, observed) == observed - r.opened

(* The most active seconds a receipt observed at a time may claim. *)
MaxActiveSeconds(r, observed) ==
    IF observed - r.opened > r.paused THEN observed - r.opened - r.paused ELSE 0

(* A receipt for the cumulative usage; its sequence number is the next one *)
(* and the observation times grow.                                         *)
ReceiptStream(s, w, active, observed, at) ==
    LET r == stream[s] IN
    /\ Live(s, at) /\ r.st = "active" /\ w = r.provider
    /\ active > r.active /\ active <= MaxActive
    /\ observed >= r.opened /\ observed <= Expiry /\ observed <= at
    /\ r.active > 0 => observed > r.observed
    /\ active <= MaxActiveSeconds(r, observed)
    /\ StreamCharge(active) <= Budget
    /\ ChargeAndBumpNonceAllowCreate(w, 0)
    /\ Settle(Charged(w, 0), 0)
    /\ Moved(s, at, [r EXCEPT !.active = active, !.observed = observed,
                                !.accrued = StreamCharge(active)])

PauseStream(s, w, at) ==
    /\ Live(s, at) /\ stream[s].st = "active" /\ w = stream[s].payer /\ at <= Expiry
    /\ ChargeAndBumpNonce(w, 0)
    /\ Settle(Charged(w, 0), 0)
    /\ Moved(s, at, [stream[s] EXCEPT !.st = "paused", !.pausedAt = at])

ResumeStream(s, w, at) ==
    LET r == stream[s] IN
    /\ Live(s, at) /\ r.st = "paused" /\ w = r.payer /\ at <= Expiry
    /\ ChargeAndBumpNonce(w, 0)
    /\ Settle(Charged(w, 0), 0)
    /\ Moved(s, at, [r EXCEPT !.st = "active", !.paused = @ + (at - r.pausedAt),
                                !.away = @ \cup (r.pausedAt + 1 .. at)])

SettleStream(s, w, at) ==
    LET r == stream[s] IN
    /\ Live(s, at) /\ w = r.provider /\ r.accrued > r.settled
    /\ ChargeAndBumpNonceAllowCreate(w, 0)
    /\ Settle(Paid(Charged(w, 0), w, r.accrued - r.settled), 0)
    /\ Moved(s, at, [r EXCEPT !.settled = r.accrued])

(* The provider gets what is accrued and unsettled, the payer the rest. *)
CloseStream(s, w, at) ==
    LET r == stream[s] IN
    /\ Live(s, at) /\ w = r.payer
    /\ ChargeAndBumpNonce(w, 0)
    /\ Settle(Paid(Paid(Charged(w, 0), r.provider, r.accrued - r.settled), w,
                   Budget - r.accrued), 0)
    /\ Moved(s, at, [r EXCEPT !.st = "closed", !.settled = r.accrued])

Escrowed == SumFunction([s \in Streams |->
    IF stream[s].st \in {"active", "paused"} THEN Budget - stream[s].settled ELSE 0])

(* A provider is never credited with more active seconds than the stream   *)
(* really was unpaused between its opening and the receipt's observation,  *)
(* whatever pauses and resumes came before or after the receipt            *)
(* (stream_state.go, applyAction).                                         *)
ChargedForActiveTime == \A s \in Streams : LET r == stream[s] IN
    r.active > 0 => r.active <= Cardinality((r.opened + 1 .. r.observed) \ r.away)

===============================================================================
