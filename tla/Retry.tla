-------------------------------- MODULE Retry --------------------------------
(***************************************************************************)
(* The retry policy of the delivery worker (worker/retry.ts): which failed *)
(* attempts are tried again and after which delay.  Everything here is a   *)
(* pure operator; DeliveryQueue applies it to the rows of the queue.       *)
(***************************************************************************)
EXTENDS Integers, Sequences

\* responseStatus === null: the attempt ended without an HTTP answer (timeout,
\* DNS or connection failure, or a URL the SSRF guard refused).
NoResponse == 0

\* response.status >= 200 && response.status < 300
Succeeded(status) == status >= 200 /\ status < 300

\* Mutant of isRetryableStatus: only throttling is transient among the 4xx.
isRetryableStatus_ThrottlingOnly(status) == status >= 500 \/ status = 429

isRetryableStatus(status) == status >= 500 \/ status \in {408, 425, 429}

\* The destination understood the request and refused it.
Permanent(status) ==
    /\ status # NoResponse
    /\ status >= 400 /\ status < 500
    /\ ~isRetryableStatus(status)

\* Mutant of nextRetryDelay: the index is not shifted by one.
nextRetryDelay_Skips(attemptsMade, delays) ==
    LET last == Len(delays)
    IN  IF last = 0 THEN 0
        ELSE delays[IF attemptsMade + 1 < last THEN attemptsMade + 1 ELSE last]

\* The delay after attempt number attemptsMade: the schedule in order, its last
\* step repeating.  TLA+ sequences start at 1, so delaysMs[k - 1] is delays[k].
nextRetryDelay(attemptsMade, delays) ==
    LET last  == Len(delays)
        index == IF attemptsMade < last THEN attemptsMade ELSE last
    IN  IF last = 0 THEN 0
        ELSE delays[IF index < 1 THEN 1 ELSE index]

\* Mutant of shouldRetry: one attempt too many.
shouldRetry_OneMore(attemptsMade, status, maxAttempts) ==
    ~(attemptsMade > maxAttempts \/ Permanent(status))

shouldRetry(attemptsMade, status, maxAttempts) ==
    ~(attemptsMade >= maxAttempts \/ Permanent(status))

\* The decision, its nextAttemptAt given relative to now.
decideRetry(attemptsMade, status, maxAttempts, delays) ==
    IF shouldRetry(attemptsMade, status, maxAttempts)
    THEN [shouldRetry |-> TRUE, delay |-> nextRetryDelay(attemptsMade, delays)]
    ELSE [shouldRetry |-> FALSE, delay |-> 0]
==============================================================================
