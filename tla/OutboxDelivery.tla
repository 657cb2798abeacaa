--------------------------- MODULE OutboxDelivery ---------------------------
(* The outbox implements Delivery: a row is a letter.  What is pending,      *)
(* claimed or waiting for a retry is owed, a quarantined row is held.        *)
EXTENDS Outbox

StateOf(status) == IF status = "absent" THEN "none" ELSE
                   IF status = "sent" THEN "done" ELSE
                   IF status = "possible_duplicate" THEN "held" ELSE "owed"
LetterOf(r) == [state |-> StateOf(rows[r].status), accepted |-> mail[r].count > 0,
                doubt |-> rows[r].flag]

D == INSTANCE Delivery WITH Letters <- RowIds, letter <- [r \in RowIds |-> LetterOf(r)]

\* Every step of the outbox is one its callers were promised, whatever senders,
\* leases and providers do: no notification is called sent that no provider took,
\* and none is reopened or mailed again after it was settled unless it is marked as
\* a possible duplicate (NotificationService, NotificationRepository).
KeepsItsPromise == D!DeliverySpec
=============================================================================
