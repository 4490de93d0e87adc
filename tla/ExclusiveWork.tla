--------------------------- MODULE ExclusiveWork ---------------------------
(***************************************************************************)
(* What a pool of workers promises to the code that schedules jobs on it:  *)
(* a worker does one job at a time, a job is done at most once, the result *)
(* of a job never changes, and when the pool fails or closes every job     *)
(* that was submitted and is still open is settled in that same step.      *)
(* It says nothing of queues, of tokens or of how workers come to exist.   *)
(***************************************************************************)

CONSTANTS Workers, Jobs

VARIABLES
    status,    \* "open", "failed" or "closed"
    submitted, \* the jobs the pool has accepted
    busy,      \* the pairs <<worker, job>> in progress
    result     \* how a job ended

vars == <<status, submitted, busy, result>>

Results == {"pending", "value", "taskError", "poolError", "completed"}

TypeOK ==
    /\ status \in {"open", "failed", "closed"}
    /\ submitted \in SUBSET Jobs
    /\ busy \in SUBSET (Workers \X Jobs)
    /\ result \in [Jobs -> Results]

Init ==
    /\ status = "open"
    /\ submitted = {}
    /\ busy = {}
    /\ result = [j \in Jobs |-> "pending"]

Free(w) == \A j \in Jobs : <<w, j>> \notin busy

SettleAll(how) ==
    result' = [j \in Jobs |-> IF j \in submitted /\ result[j] = "pending"
                              THEN how ELSE result[j]]

\* Accept a job; a worker that is free may begin it right away, and a pool
\* that has failed turns it down.
Submit(j) ==
    /\ status # "closed"
    /\ j \notin submitted
    /\ submitted' = submitted \cup {j}
    /\ \/ /\ status = "open"
          /\ UNCHANGED <<busy, result>>
       \/ /\ status = "open"
          /\ \E w \in Workers : Free(w) /\ busy' = busy \cup {<<w, j>>}
          /\ UNCHANGED result
       \/ /\ status = "failed"
          /\ result' = [result EXCEPT ![j] = "poolError"]
          /\ UNCHANGED busy
    /\ UNCHANGED status

Begin(j, w) ==
    /\ status = "open"
    /\ j \in submitted
    /\ result[j] = "pending"
    /\ \A v \in Workers : <<v, j>> \notin busy
    /\ Free(w)
    /\ busy' = busy \cup {<<w, j>>}
    /\ UNCHANGED <<status, submitted, result>>

\* The worker is done.  Its answer counts unless the job was settled before.
Finish(j, w) ==
    /\ <<w, j>> \in busy
    /\ busy' = busy \ {<<w, j>>}
    /\ \/ result[j] # "pending" /\ UNCHANGED result
       \/ /\ result[j] = "pending"
          /\ \E how \in {"value", "taskError"} : result' = [result EXCEPT ![j] = how]
    /\ UNCHANGED <<status, submitted>>

Fail ==
    /\ status = "open"
    /\ status' = "failed"
    /\ SettleAll("poolError")
    /\ UNCHANGED <<submitted, busy>>

Close ==
    /\ status # "closed"
    /\ status' = "closed"
    /\ SettleAll("completed")
    /\ UNCHANGED <<submitted, busy>>

Next ==
    \/ \E j \in Jobs : Submit(j)
    \/ \E j \in Jobs, w \in Workers : Begin(j, w) \/ Finish(j, w)
    \/ Fail
    \/ Close

Spec == Init /\ [][Next]_vars
=============================================================================
