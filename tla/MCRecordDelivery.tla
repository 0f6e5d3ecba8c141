-------------------------- MODULE MCRecordDelivery --------------------------
(* One partition with the progress report and the result of one AI1 event,   *)
(* which share an event_id; another with a record that is not JSON.          *)
EXTENDS RecordDelivery, TLC

CONSTANTS p1, p2, e1

Message(id, readable, progress) == [id |-> id, readable |-> readable, progress |-> progress]

SmallLog ==
  p1 :> <<Message(e1, TRUE, TRUE), Message(e1, TRUE, FALSE)>> @@
  p2 :> <<Message(NoId, FALSE, FALSE)>>
=============================================================================
