----------------------------- MODULE RequestLedger -----------------------------
(***************************************************************************)
(* What the request path promises, whatever its handlers, snapshots and    *)
(* crashes do: an idempotency key is opened for one item, an item has at   *)
(* most one open operation, an open operation is settled once, and a       *)
(* success is final.                                                       *)
(***************************************************************************)
CONSTANTS Items, Keys

VARIABLES life,    \* of each key: "none", "open", "created" or "failed"
          about    \* the item of each key that was ever opened, and not forgotten

ledgerVars == <<life, about>>

Nothing == "nothing"

Init == /\ life = [k \in Keys |-> "none"]
        /\ about = [k \in Keys |-> Nothing]

\* Failed keys may be forgotten whenever another operation is attempted.
Forget(old) == /\ old \subseteq {k \in Keys : life[k] = "failed"}
               /\ life' = [k \in Keys |-> IF k \in old THEN "none" ELSE life[k]]
               /\ about' = [k \in Keys |-> IF k \in old THEN Nothing ELSE about[k]]

Open(k, i, old) ==
    /\ life[k] \in {"none", "failed"}
    /\ \A t \in Keys : about[t] = i => life[t] # "open"
    /\ old \subseteq {t \in Keys : life[t] = "failed"}
    /\ life' = [t \in Keys |-> IF t = k THEN "open" ELSE IF t \in old THEN "none" ELSE life[t]]
    /\ about' = [t \in Keys |-> IF t = k THEN i ELSE IF t \in old THEN Nothing ELSE about[t]]

Settle(k, outcome) ==
    /\ life[k] = "open"
    /\ life' = [life EXCEPT ![k] = outcome]
    /\ UNCHANGED about

Next == \/ \E old \in SUBSET Keys : Forget(old)
        \/ \E k \in Keys, i \in Items, old \in SUBSET Keys : Open(k, i, old)
        \/ \E k \in Keys, outcome \in {"created", "failed"} : Settle(k, outcome)

Spec == Init /\ [][Next]_ledgerVars
===============================================================================
