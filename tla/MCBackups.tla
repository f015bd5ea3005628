------------------------------ MODULE MCBackups ------------------------------
(***************************************************************************)
(* An instance of Backups for TLC: its constants are in MCBackups.cfg.  An  *)
(* earlier backup was refused, or it has died and its lock is still there,  *)
(* six hours old by now; the others and the permanent deletions meet at it. *)
(***************************************************************************)
EXTENDS Backups

CONSTANT Earlier

\* The lock that the earlier backup has left, and how that one and its row ended
Left(there, end, status) ==
  /\ lock = [there |-> there, owner |-> IF there THEN Earlier ELSE Nothing, old |-> there]
  /\ backup = [b \in Backups |->
       IF b = Earlier THEN [NewBackup EXCEPT !.step = end, !.status = status] ELSE NewBackup]

AfterEarlier ==
  /\ rows = {} /\ stored = {} /\ uploads = {}
  /\ deletion = [q \in Deletions |-> [step |-> "idle", files |-> {}, unseen |-> {}]]
  /\ Left(TRUE, "dead", "running") \/ Left(FALSE, "over", "failure")
  /\ restored = [step |-> "empty", rows |-> {}, files |-> {}]
  /\ early = {} /\ robbed = FALSE

MCSpec == AfterEarlier /\ [][Next]_vars /\ Fairness
===============================================================================
