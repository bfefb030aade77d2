--------------------------- MODULE DeltaDelivery ---------------------------
(***************************************************************************)
(* What the delta cursor of get_unread_summary promises its caller, with   *)
(* no word on how a pull is made: the cursor only moves forward, and when  *)
(* it moves every message it moves over has been returned by some pull, is *)
(* settled (the operator has read or answered it, or a full page of newer  *)
(* ones has pushed it out), or is one of the messages the pulls passed     *)
(* over. A message cannot be posted behind the cursor.                     *)
(***************************************************************************)
EXTENDS Integers

VARIABLES
    posted,     \* the messages there are, each with its ts
    settled,    \* those that need not be returned any more
    shown,      \* those some pull has returned
    passed,     \* those the cursor moved past although no pull saw them
    after       \* the cursor the caller holds

deliveryVars == <<posted, settled, shown, passed, after>>

Init ==
    /\ posted = {} /\ settled = {} /\ shown = {} /\ passed = {}
    /\ after = 0

\* The operator, or a newer message, settles some messages; never the reverse.
Settle ==
    /\ settled \subseteq settled' /\ settled' \subseteq posted'
    /\ UNCHANGED <<shown, passed, after>>

Arrive ==
    /\ \E m \in posted' \ posted : posted' = posted \cup {m} /\ m.ts > after
    /\ Settle

Deal ==
    /\ posted' = posted
    /\ Settle

Pull ==
    /\ after <= after'
    /\ shown \subseteq shown' /\ shown' \subseteq posted
    /\ passed \subseteq passed' /\ passed' \subseteq posted
    /\ \A m \in passed' \ passed : m.ts > after /\ m.ts <= after' /\ m \notin shown'
    /\ \A m \in posted : m.ts <= after' => m \in settled \cup shown' \cup passed'
    /\ UNCHANGED <<posted, settled>>

Next == Arrive \/ Deal \/ Pull

Spec == Init /\ [][Next]_deliveryVars
=============================================================================
