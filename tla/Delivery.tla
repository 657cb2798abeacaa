------------------------------ MODULE Delivery ------------------------------
(***************************************************************************)
(* What the outbox promises to whoever hands it a notification, without    *)
(* claims, leases, retries and processes: a letter that was accepted by    *)
(* the outbox is owed until it is done or held for the operator, it is     *)
(* done only when a provider has taken it, and nothing happens to it after *)
(* that unless it is marked as a possible duplicate.  Outbox implements it *)
(* (NotificationService with NotificationRepository).                      *)
(***************************************************************************)
CONSTANT Letters

VARIABLE letter

\* accepted: a provider has taken it; doubt: marked as a possible duplicate
Letter == [state : {"none", "owed", "done", "held"}, accepted : BOOLEAN, doubt : BOOLEAN]

DeliveryInit ==
  letter = [l \in Letters |-> [state |-> "none", accepted |-> FALSE, doubt |-> FALSE]]

\* notify_tender reserves it
Post(l) ==
  /\ letter[l].state = "none"
  /\ letter' = [letter EXCEPT ![l].state = "owed"]

\* a provider takes it: a letter that is not owed only when it is marked
Taken(l) ==
  /\ letter[l].state # "none" /\ (letter[l].state = "owed" \/ letter[l].doubt)
  /\ letter' = [letter EXCEPT ![l].accepted = TRUE]

\* letters are taken back from their senders, who may have been lost or may have
\* settled them just now: they are owed again, and marked
TakenBack(L) ==
  /\ \A l \in L : letter[l].state # "none"
  /\ letter' = [l \in Letters |-> IF l \in L THEN [letter[l] EXCEPT !.state = "owed", !.doubt = TRUE]
                                            ELSE letter[l]]

\* it is called done
Closed(l, doubt) ==
  /\ letter[l].accepted /\ letter[l].state # "none"
  /\ letter[l].state = "owed" \/ letter[l].doubt
  /\ letter' = [letter EXCEPT ![l].state = "done", ![l].doubt = @ \/ doubt]

\* it stays owed, or is held; one that was settled before only when it is marked
Kept(l, state, doubt) ==
  /\ letter[l].state = "owed" \/ letter[l].doubt
  /\ letter[l].state # "none"
  /\ state = "held" => letter[l].doubt \/ doubt
  /\ letter' = [letter EXCEPT ![l].state = state, ![l].doubt = @ \/ doubt]

\* the operator releases it
Released(l) ==
  /\ letter[l].state = "held"
  /\ letter' = [letter EXCEPT ![l].state = "owed"]

DeliveryNext ==
  \/ \E l \in Letters : Post(l) \/ Taken(l) \/ Released(l)
  \/ \E l \in Letters, doubt \in BOOLEAN :
       Closed(l, doubt) \/ \E state \in {"owed", "held"} : Kept(l, state, doubt)
  \/ \E L \in SUBSET Letters : TakenBack(L)

DeliverySpec == DeliveryInit /\ [][DeliveryNext]_letter
=============================================================================
