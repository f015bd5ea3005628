------------------------------ MODULE MCAccounts ------------------------------
(***************************************************************************)
(* An instance of Accounts for TLC.                                        *)
(***************************************************************************)
EXTENDS Accounts, TLC

AccountSymmetry ==
  Permutations(Requests) \cup Permutations(Sessions) \cup Permutations(Devices)
    \cup Permutations(Challenges) \cup Permutations(Tickets)

\* Where the password is enough for a login, a run ends with the first ticket or challenge
\* (bound): what becomes of those does not depend on how one logs in.
FewRows ==
  \/ strict
  \/ /\ \A t \in Tickets : ticket[t] = "absent"
     /\ \A c \in Challenges : challenge[c].state = "absent"
===============================================================================
