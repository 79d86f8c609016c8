------------------------------- MODULE Dispatch -------------------------------
(***************************************************************************)
(* The attempts of one delivery (process and send in                       *)
(* worker/delivery-worker.ts) and the edits of its destination meanwhile   *)
(* (services/destinations.ts).  An attempt reads the destination's row,    *)
(* signs and addresses the request by it, and hands the answer to the      *)
(* retry policy; an edit reads the row, decides, and writes later.  The    *)
(* queue around an attempt - claim, lease, record - is DeliveryQueue.      *)
(***************************************************************************)
EXTENDS Retry, SequencesExt

CONSTANTS
    Limits,      \* values of DELIVERY_MAX_ATTEMPTS
    Delays,      \* steps a schedule may be made of
    MaxSteps,    \* bound: longest DELIVERY_RETRY_DELAYS_MS; it may be empty
    Statuses,    \* answers the destination may give, NoResponse among them
    Editors,     \* requests that edit the destination, one each
    Inputs       \* what they may ask for

ASSUME DispatchAssumption ==
    /\ Limits \subseteq Nat \ {0}
    /\ Delays \subseteq Nat
    /\ MaxSteps \in Nat
    /\ NoResponse \in Statuses /\ Statuses \subseteq Nat
    /\ IsFiniteSet(Editors)
    /\ Inputs \subseteq [url: BOOLEAN, signing: {"same", "on", "off"}, secret: BOOLEAN]

VARIABLES
    limit,       \* the delivery's maxAttempts
    schedule,    \* the configured delays
    made,        \* attempts answered
    last,        \* the answer to the latest, until the next one begins
    waits,       \* the delay chosen after each attempt that is retried
    status,      \* the delivery's status
    row,         \* the destination's row
    edit,        \* the edits of it
    attempt,     \* the attempt being made
    seen         \* history: what the row has been since the attempt began

delivery == <<limit, schedule, made, last, waits, status>>
vars     == <<delivery, row, edit, attempt, seen>>

------------------------------------------------------------------------------
\* url and secret are numbered as they are entered: 1 what the destination was
\* created with, the delivery's own copy of the URL among it, Entered(e) what edit e
\* brings.  Secret 0: encrypted_signing_secret is NULL.
Numbering == CHOOSE f \in [Editors -> 2..(Cardinality(Editors) + 1)] : IsInjective(f)
Entered(e) == Numbering[e]
Versions   == 0..(Cardinality(Editors) + 1)
Snapshot   == 1

Nothing == [url |-> FALSE, signing |-> "same", secret |-> FALSE]
Row     == [there: BOOLEAN, url: Versions, signing: BOOLEAN, secret: Versions]
Gone    == [there |-> FALSE, url |-> 0, signing |-> FALSE, secret |-> 0]
Request == [url: Versions, key: Versions]     \* key 0: no signature
NoRequest == [url |-> 0, key |-> 0]
Edit    == [phase: {"new", "read", "done"}, input: Inputs \cup {Nothing},
            signing: BOOLEAN, secret: Versions]
Unread  == [phase |-> "new", input |-> Nothing, signing |-> FALSE, secret |-> 0]

TypeOK ==
    /\ limit \in Limits /\ schedule \in Seq(Delays) /\ made \in Nat /\ last \in Statuses
    /\ waits \in Seq(Delays \cup {0})
    /\ status \in {"pending", "processing", "retrying", "success", "failed"}
    /\ row \in Row
    /\ edit \in [Editors -> Edit]
    /\ attempt \in [phase: {"none", "reading", "sending"}, request: Request]
    /\ seen \subseteq Row

\* create: a secret exactly when signing is on.
Init ==
    /\ limit \in Limits
    /\ schedule \in BoundedSeq(Delays, MaxSteps)
    /\ made = 0 /\ last = NoResponse /\ waits = <<>> /\ status = "pending"
    /\ \E signing \in BOOLEAN :
         row = [there |-> TRUE, url |-> Snapshot, signing |-> signing,
                secret |-> IF signing THEN 1 ELSE 0]
    /\ edit = [e \in Editors |-> Unread]
    /\ attempt = [phase |-> "none", request |-> NoRequest]
    /\ seen = {}

------------------------------------------------------------------------------
\* Edits

\* Every row change is seen by the attempt in progress.
Becomes(new) ==
    /\ row' = new
    /\ seen' = IF attempt.phase = "none" THEN seen ELSE seen \cup {new}

\* getRowForActor.
ReadRow(e, input) ==
    /\ edit[e].phase = "new"
    /\ edit' = [edit EXCEPT ![e] =
         IF row.there THEN [phase |-> "read", input |-> input,
                            signing |-> row.signing, secret |-> row.secret]
         ELSE [Unread EXCEPT !.phase = "done"]]
    /\ UNCHANGED <<delivery, row, attempt, seen>>

\* The signing the edit aims at, on the row it has read.
signingEnabled(e) ==
    CASE edit[e].input.signing = "on"  -> TRUE
      [] edit[e].input.signing = "off" -> FALSE
      [] OTHER -> edit[e].signing

\* Mutant of wantsNewSecret: signing switched on does not bring a secret by itself.
wantsNewSecret_OnRequest(e) == edit[e].input.secret

\* rotateSigningSecret, a signingSecret of the operator's, or none stored so far.
wantsNewSecret(e) ==
    edit[e].input.secret \/ (signingEnabled(e) /\ edit[e].secret = 0)

\* The columns the UPDATE sets; the rest of the row stays as it is by then.
Patched(e) ==
    [row EXCEPT !.url     = IF edit[e].input.url THEN Entered(e) ELSE @,
                !.signing = IF edit[e].input.signing = "same" THEN @ ELSE signingEnabled(e),
                !.secret  = IF signingEnabled(e) /\ wantsNewSecret(e) THEN Entered(e) ELSE @]

\* UPDATE by id: nothing when the row has been deleted.
WriteRow(e) ==
    /\ edit[e].phase = "read"
    /\ Becomes(IF row.there THEN Patched(e) ELSE row)
    /\ edit' = [edit EXCEPT ![e] = [Unread EXCEPT !.phase = "done"]]
    /\ UNCHANGED <<delivery, attempt>>

\* assertDestinationAllowed refuses the new URL before anything is written.
RefuseUrl(e) ==
    /\ edit[e].phase = "read" /\ edit[e].input.url
    /\ edit' = [edit EXCEPT ![e] = [Unread EXCEPT !.phase = "done"]]
    /\ UNCHANGED <<delivery, row, attempt, seen>>

\* DELETE: destination_id of the delivery becomes NULL.
Delete ==
    /\ row.there
    /\ Becomes(Gone)
    /\ UNCHANGED <<delivery, edit, attempt>>

------------------------------------------------------------------------------
\* Attempts

\* process: the delivery is claimed, with its destination_id.
Begin ==
    /\ status \in {"pending", "retrying"}
    /\ status' = "processing"
    /\ last' = NoResponse
    /\ attempt' = [attempt EXCEPT !.phase = "reading"]
    /\ seen' = {row}
    /\ UNCHANGED <<limit, schedule, made, waits, row, edit>>

\* Mutant of Addressed: the URL of the enqueue is preferred to the row's.
Addressed_AsQueued == [url |-> Snapshot, key |-> IF row.signing THEN row.secret ELSE 0]

\* The request as the row has it; of a deleted destination only the delivery's
\* copy of the URL is left.
Addressed ==
    IF row.there THEN [url |-> row.url, key |-> IF row.signing THEN row.secret ELSE 0]
    ELSE [url |-> Snapshot, key |-> 0]

\* SELECT of the destination, headers, signature.
Prepare ==
    /\ attempt.phase = "reading"
    /\ attempt' = [phase |-> "sending", request |-> Addressed]
    /\ UNCHANGED <<delivery, row, edit, seen>>

\* The outcome goes to the policy, and both to recordAttempt.
Record(answer) ==
    LET decision == decideRetry(made + 1, answer, limit, schedule)
    IN  /\ made' = made + 1
        /\ last' = answer
        /\ status' = IF Succeeded(answer) THEN "success"
                     ELSE IF decision.shouldRetry THEN "retrying" ELSE "failed"
        /\ waits' = IF status' = "retrying" THEN Append(waits, decision.delay) ELSE waits
        /\ attempt' = [phase |-> "none", request |-> NoRequest]
        /\ seen' = {}
        /\ UNCHANGED <<limit, schedule, row, edit>>

\* The destination answers.  A body that fails or comes too late does not count.
Answer(answer) ==
    /\ attempt.phase = "sending" /\ answer # NoResponse
    /\ Record(answer)

\* The guard refuses the URL, the connection fails or the timer aborts the request.
NoAnswer ==
    /\ attempt.phase = "sending"
    /\ Record(NoResponse)

Next ==
    \/ Begin \/ Prepare \/ NoAnswer \/ Delete
    \/ \E answer \in Statuses : Answer(answer)
    \/ \E e \in Editors :
         \/ \E input \in Inputs : ReadRow(e, input)
         \/ WriteRow(e) \/ RefuseUrl(e)

Spec == Init /\ [][Next]_vars

------------------------------------------------------------------------------
(***************************************************************************)
(* Properties                                                              *)
(***************************************************************************)

\* The documented classes of answers (README, "Retry semantics").
DocumentedSuccess(answer)   == answer \in 200..299
DocumentedRejection(answer) == answer \in (400..499) \ {408, 425, 429}

\* The delays are those of the schedule, in order and each used once, the last
\* repeating when the schedule is shorter than the series of attempts.
ScheduleFollowed ==
    \A k \in 1..Len(waits) :
        waits[k] = IF schedule = <<>> THEN 0
                   ELSE IF k <= Len(schedule) THEN schedule[k] ELSE Last(schedule)

\* A delivery ends exactly when the documentation says: with the first 2xx, with
\* the first answer that rejects it, or with attempt number limit; until then
\* every attempt but the last one waits for the next.
EndsAsDocumented ==
    attempt.phase = "none" /\ made > 0 =>
        LET ends == DocumentedSuccess(last) \/ DocumentedRejection(last) \/ made = limit
        IN  /\ made <= limit
            /\ status \in {"success", "failed"} <=> ends
            /\ status = "success" <=> DocumentedSuccess(last)
            /\ Len(waits) = IF ends THEN made - 1 ELSE made

\* A request is of one version of the destination in force since its attempt
\* began: never the new URL with the old secret, nor a URL replaced before the
\* attempt, however edits overlap it.  Only a deleted destination falls back to the
\* URL of the enqueue, unsigned.
OneVersion ==
    attempt.phase = "sending" =>
        \E v \in seen :
            IF v.there THEN /\ attempt.request.url = v.url
                            /\ attempt.request.key \in {0, v.secret}
            ELSE attempt.request = [url |-> Snapshot, key |-> 0]

\* A request goes out unsigned only if the destination was gone or had signing off
\* at some time during its attempt: no overlap of edits leaves signing on without a
\* secret, which the worker would take for "do not sign".
SignedAsConfigured ==
    attempt.phase = "sending" /\ attempt.request.key = 0 =>
        \E v \in seen : ~v.there \/ ~v.signing
==============================================================================
