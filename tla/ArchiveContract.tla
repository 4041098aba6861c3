--------------------------- MODULE ArchiveContract ---------------------------
(***************************************************************************)
(* What the archive promises the stream, without batches, transactions,    *)
(* isolation or acknowledgements: a sequence is settled, never to be seen  *)
(* again, only once the record it carried is kept.  At-least-once delivery *)
(* and an idempotent store together implement it.                          *)
(***************************************************************************)
CONSTANTS Seqs, Content, Nothing

VARIABLES
  record,   \* the record each sequence carried, Nothing if none to keep
  owed,     \* the sequences whose record the archive owes
  kept,     \* the records kept
  settled   \* the sequences that will not be delivered again

contractVars == <<record, owed, kept, settled>>

Init ==
  /\ record = [s \in Seqs |-> Nothing]
  /\ owed = {} /\ kept = {} /\ settled = {}

Offer(s, c) ==
  /\ record[s] = Nothing
  /\ record' = [record EXCEPT ![s] = c]
  /\ owed' = owed \cup {s}
  /\ UNCHANGED <<kept, settled>>

(* A delivery that could not be placed in the stream excuses the archive. *)
Excuse(S) ==
  /\ owed' = owed \ S
  /\ UNCHANGED <<record, kept, settled>>

Keep(C) ==
  /\ \A c \in C : \E s \in Seqs : record[s] = c
  /\ kept' = kept \cup C
  /\ UNCHANGED <<record, owed, settled>>

Settle(S) ==
  /\ \A s \in S \cap owed : record[s] \in kept
  /\ settled' = settled \cup S
  /\ UNCHANGED <<record, owed, kept>>

Next ==
  \/ \E s \in Seqs, c \in Content : Offer(s, c)
  \/ \E S \in SUBSET Seqs : Excuse(S) \/ Settle(S)
  \/ \E C \in SUBSET Content : Keep(C)

Spec == Init /\ [][Next]_contractVars
=============================================================================
