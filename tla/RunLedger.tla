------------------------------ MODULE RunLedger ------------------------------
(***************************************************************************)
(* What recording runs promises, whatever the processes, files and         *)
(* transactions behind it: a run that was recorded is counted at most      *)
(* once, and once its count was deleted it is never counted again.         *)
(***************************************************************************)
CONSTANT RunIds
VARIABLES
  recorded,  (* runs that are durable                    *)
  counted,   (* runs the reports add up                  *)
  forgotten  (* runs whose count was deleted             *)

ledger == <<recorded, counted, forgotten>>

LedgerInit == recorded = {} /\ counted = {} /\ forgotten = {}

Record(e) ==
  /\ e \notin recorded
  /\ recorded' = recorded \union {e}
  /\ UNCHANGED <<counted, forgotten>>

(* At most one run is counted, and some are deleted, perhaps the same one. *)
Settle(new, old) ==
  /\ new \subseteq recorded \ (counted \union forgotten)
  /\ \A d, e \in new : d = e
  /\ old \subseteq counted \union new
  /\ counted' = (counted \union new) \ old
  /\ forgotten' = forgotten \union old
  /\ UNCHANGED recorded

LedgerNext ==
  \/ \E e \in RunIds : Record(e)
  \/ \E new, old \in SUBSET RunIds : Settle(new, old)

LedgerSpec == LedgerInit /\ [][LedgerNext]_ledger
=============================================================================
