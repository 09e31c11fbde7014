---------------------------- MODULE ClickLedger ----------------------------
(***************************************************************************)
(* What the click analytics of LinkLoom+ promise, without broker, workers  *)
(* or connections: a click the broker accepted is written to click_events  *)
(* at least once, and it is settled (gone from the broker for good) only   *)
(* after that.  Nothing is promised about how often it is written.         *)
(***************************************************************************)
EXTENDS Naturals

CONSTANT Event

VARIABLES
    accepted,   \* the clicks the broker accepted
    counted,    \* counted[e]: rows of e in click_events
    settled     \* the clicks the broker will not deliver again

ledger == <<accepted, counted, settled>>

LedgerInit ==
    /\ accepted = {}
    /\ counted = [e \in Event |-> 0]
    /\ settled = {}

Accept(e) ==
    /\ e \notin accepted
    /\ accepted' = accepted \union {e}
    /\ UNCHANGED <<counted, settled>>

Count(e) ==
    /\ e \in accepted
    /\ counted' = [counted EXCEPT ![e] = @ + 1]
    /\ UNCHANGED <<accepted, settled>>

Settle(e) ==
    /\ e \in accepted \ settled
    /\ counted[e] > 0
    /\ settled' = settled \union {e}
    /\ UNCHANGED <<accepted, counted>>

LedgerNext == \E e \in Event : Accept(e) \/ Count(e) \/ Settle(e)

LedgerSpec == LedgerInit /\ [][LedgerNext]_ledger
=============================================================================
