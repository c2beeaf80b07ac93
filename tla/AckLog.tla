------------------------------- MODULE AckLog -------------------------------
(***************************************************************************)
(* What the receiver promises, without queue, writer or file system: a     *)
(* batch is offered once, may be stored, and is acknowledged only when it  *)
(* is stored.  A crash answers open requests with a broken connection and  *)
(* may take stored batches with it, but never an acknowledged one.  A      *)
(* rejected batch may have been stored all the same: the client that       *)
(* retries makes a second batch with the same event identity.              *)
(***************************************************************************)
CONSTANT Batches

VARIABLES
    answer,  \* what the client of each batch has been told
    stored   \* the batches a reader of the corpus finds complete

TypeOK ==
    /\ answer \in [Batches -> {"none", "pending", "acked", "rejected"}]
    /\ stored \subseteq Batches

Init ==
    /\ answer = [b \in Batches |-> "none"]
    /\ stored = {}

Acked == {b \in Batches : answer[b] = "acked"}
Pending == {b \in Batches : answer[b] = "pending"}

Offer(b) ==
    /\ answer[b] = "none"
    /\ answer' = [answer EXCEPT ![b] = "pending"]
    /\ UNCHANGED stored

Store(b) ==
    /\ b \in Pending
    /\ stored' = stored \cup {b}
    /\ UNCHANGED answer

Acknowledge(b) ==
    /\ b \in Pending \cap stored
    /\ answer' = [answer EXCEPT ![b] = "acked"]
    /\ UNCHANGED stored

\* Requests end without an acknowledgement; unacknowledged batches may go.
Reject(B, kept) ==
    /\ Acked \subseteq kept
    /\ answer' = [b \in Batches |-> IF b \in B THEN "rejected" ELSE answer[b]]
    /\ stored' = kept

Next ==
    \/ \E b \in Batches : Offer(b) \/ Store(b) \/ Acknowledge(b)
    \/ \E B \in SUBSET Pending, kept \in SUBSET stored : Reject(B, kept)

Spec == Init /\ [][Next]_<<answer, stored>>
=============================================================================
