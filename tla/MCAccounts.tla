----------------------------- MODULE MCAccounts -----------------------------
(***************************************************************************)
(* Instances of Accounts for TLC.                                          *)
(***************************************************************************)
EXTENDS Accounts, TLC

CONSTANTS ann, annie, i1, i2, i3, t1, t2, t3, one, two

\* Both addresses have the same text before the @, and eight characters of
\* their Google ids agree.
SameBase == [p \in People |-> "ann"]
SameShort == [p \in People |-> "ann_1"]
OwnFull == [p \in People |-> IF p = ann THEN "ann_12" ELSE "ann_13"]

\* Bound: registrations and sign-ins of the unlucky go one at a time.
OneUnluckySignIn ==
  \A r, s \in Requests :
    requests[r].person \in Unlucky /\ requests[s].person \in Unlucky /\ r # s
    => "refresh" \in {requests[r].op, requests[s].op}
TablesSpec == Init /\ [][Next /\ OneUnluckySignIn']_vars

\* Ids, tokens and the goroutines that serve requests are interchangeable.
DrawnSymmetry == Permutations(Tokens) \cup Permutations(Ids) \cup Permutations(Requests)
=============================================================================
