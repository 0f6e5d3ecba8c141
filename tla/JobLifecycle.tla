----------------------------- MODULE JobLifecycle -----------------------------
(***************************************************************************)
(* What the pipeline promises of a dossier's job, whatever workers,        *)
(* deliveries and retries do: each run goes forward along uploaded,        *)
(* processing, extracted, pending_review, or fails before its review; its  *)
(* AI2 result arrives with the step into review; a failed AI2 step may be  *)
(* run again on the same OCR; only a new run takes the job back.           *)
(***************************************************************************)
CONSTANTS Runs, NoRun

VARIABLES
  status,  \* state of the job
  run,     \* the run the job points at
  used,    \* runs that exist
  done     \* runs whose AI2 result is in

vars == <<status, run, used, done>>

Init == status = "uploaded" /\ run = NoRun /\ used = {} /\ done = {}

(* A new run, queued by the API or opened by the worker.                     *)
NewRun(s) ==
  \E r \in Runs \ used :
    /\ run' = r /\ used' = used \cup {r}
    /\ status' = s /\ done' = done

Queue == NewRun("uploaded")
Open == status # "approved" /\ NewRun("processing")

Step(from, to) ==
  /\ status \in from /\ run # NoRun
  /\ status' = to
  /\ UNCHANGED <<run, used>>

Begin == Step({"uploaded"}, "processing") /\ done' = done
Extract == Step({"processing"}, "extracted") /\ done' = done
Deliver == Step({"extracted"}, "pending_review") /\ run \notin done /\ done' = done \cup {run}
Fail == Step({"uploaded", "processing", "extracted"}, "failed") /\ done' = done
Reopen == Step({"failed"}, "extracted") /\ run \notin done /\ done' = done
Review == Step({"pending_review"}, "reviewed") /\ done' = done
Approve == Step({"pending_review", "reviewed"}, "approved") /\ done' = done

Next == Queue \/ Open \/ Begin \/ Extract \/ Deliver \/ Fail \/ Reopen \/ Review \/ Approve

Spec == Init /\ [][Next]_vars
=============================================================================
