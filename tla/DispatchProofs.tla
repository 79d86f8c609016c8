---------------------------- MODULE DispatchProofs ----------------------------
(***************************************************************************)
(* Theorems about Dispatch, for every limit and schedule, every set of     *)
(* answers, and any finite number of edits overlapping the attempts.       *)
(***************************************************************************)
EXTENDS Dispatch, FiniteSetTheorems, TLAPS

------------------------------------------------------------------------------
\* The numbers of what is entered

\* The edits can be numbered apart, so Numbering is one such numbering.
LEMMA NumberingType ==
    /\ Cardinality(Editors) \in Nat
    /\ Numbering \in [Editors -> 2..(Cardinality(Editors) + 1)]
  <1> DEFINE n == Cardinality(Editors)
  <1>1. n \in Nat /\ ExistsBijection(1..n, Editors)
    BY FS_CardinalityType, DispatchAssumption
  <1>2. PICK b \in Bijection(1..n, Editors) : TRUE
    BY <1>1 DEF ExistsBijection
  <1>3. /\ b \in [1..n -> Editors]
        /\ \A e \in Editors : \E k \in 1..n : b[k] = e
    BY <1>2 DEF Bijection, Injection, Surjection
  <1> DEFINE place(e) == CHOOSE k \in 1..n : b[k] = e
             f == [e \in Editors |-> place(e) + 1]
  <1>4. \A e \in Editors : place(e) \in 1..n /\ b[place(e)] = e
    BY <1>3
  <1>5. f \in [Editors -> 2..(n + 1)]
    <2>1. \A e \in Editors : place(e) + 1 \in 2..(n + 1)
      <3> SUFFICES ASSUME NEW e \in Editors PROVE place(e) + 1 \in 2..(n + 1)
        OBVIOUS
      <3>1. place(e) \in 1..n
        BY <1>4
      <3> HIDE DEF place
      <3>2. QED
        BY <1>1, <3>1
    <2> HIDE DEF place
    <2>2. QED
      BY <2>1
  <1>6. IsInjective(f)
    <2> SUFFICES ASSUME NEW d \in Editors, NEW e \in Editors, f[d] = f[e] PROVE d = e
      BY DEF IsInjective
    <2>1. place(d) \in 1..n /\ place(e) \in 1..n /\ place(d) + 1 = place(e) + 1
      BY <1>4
    <2>2. place(d) = place(e)
      <3> HIDE DEF place
      <3> QED BY <1>1, <2>1
    <2>3. QED
      BY <1>4, <2>2
  <1> HIDE DEF f, place
  <1>7. \E g \in [Editors -> 2..(n + 1)] : IsInjective(g)
    BY <1>5, <1>6
  <1>8. Numbering \in [Editors -> 2..(n + 1)]
    BY <1>7 DEF Numbering
  <1>9. QED
    BY <1>1, <1>8

\* What an edit enters is a version, and is not the absent secret.
LEMMA EnteredType ==
    /\ 0 \in Versions /\ 1 \in Versions
    /\ \A e \in Editors : Entered(e) \in Versions /\ Entered(e) # 0
  BY NumberingType DEF Entered, Versions

------------------------------------------------------------------------------
\* Types

\* A backoff step is one of the schedule's, or 0 without a schedule.
LEMMA DelayType ==
    ASSUME NEW n \in Nat, NEW delays \in Seq(Delays)
    PROVE  nextRetryDelay(n, delays) \in Delays \cup {0}
  BY DispatchAssumption DEF nextRetryDelay

LEMMA RowTypes ==
    /\ Gone \in Row /\ NoRequest \in Request /\ Unread \in Edit
    /\ TypeOK => Addressed \in Request
    /\ TypeOK => \A e \in Editors : Patched(e) \in Row
  <1>1. Gone \in Row /\ NoRequest \in Request /\ Unread \in Edit
    BY EnteredType DEF Gone, Row, NoRequest, Request, Unread, Edit
  <1>2. ASSUME TypeOK PROVE Addressed \in Request
    BY <1>2, EnteredType DEF TypeOK, Addressed, Row, Request, Snapshot
  <1>3. ASSUME TypeOK, NEW e \in Editors PROVE Patched(e) \in Row
    <2>1. edit[e] \in Edit /\ row \in Row
      BY <1>3 DEF TypeOK
    <2>2. signingEnabled(e) \in BOOLEAN
      BY <2>1 DEF signingEnabled, Edit
    <2>3. QED
      BY <2>1, <2>2, EnteredType DEF Patched, Row
  <1>4. QED
    BY <1>1, <1>2, <1>3

LEMMA TypeInit == Init => TypeOK
  <1> SUFFICES ASSUME Init PROVE TypeOK
    OBVIOUS
  <1>1. schedule \in Seq(Delays)
    <2>1. PICK m \in 0..MaxSteps : schedule \in [1..m -> Delays]
      BY DEF Init, BoundedSeq, SeqOf
    <2>2. QED
      BY <2>1, DispatchAssumption
  <1>2. row \in Row
    BY EnteredType DEF Init, Row, Snapshot
  <1>3. QED
    BY <1>1, <1>2, RowTypes, DispatchAssumption DEF Init, TypeOK

\* The outcome of an attempt, whichever it is.
LEMMA RecordType ==
    ASSUME TypeOK, NEW answer \in Statuses, Record(answer)
    PROVE  TypeOK'
  <1> DEFINE decision == decideRetry(made + 1, answer, limit, schedule)
  <1>1. decision.delay \in Delays \cup {0}
    BY DelayType DEF TypeOK, decideRetry
  <1>2. waits' = IF status' = "retrying" THEN Append(waits, decision.delay) ELSE waits
    BY DEF Record
  <1>3. waits' \in Seq(Delays \cup {0})
    <2> HIDE DEF decision
    <2> QED BY <1>1, <1>2 DEF TypeOK
  <1>4. /\ limit' \in Limits /\ schedule' \in Seq(Delays) /\ row' \in Row
        /\ edit' \in [Editors -> Edit] /\ seen' \subseteq Row
        /\ made' \in Nat /\ last' \in Statuses
    BY DEF Record, TypeOK
  <1>5. status' \in {"pending", "processing", "retrying", "success", "failed"}
    BY DEF Record
  <1>6. attempt' \in [phase: {"none", "reading", "sending"}, request: Request]
    BY RowTypes DEF Record
  <1>7. QED
    BY <1>3, <1>4, <1>5, <1>6 DEF TypeOK

LEMMA TypeNext == TypeOK /\ [Next]_vars => TypeOK'
  <1> SUFFICES ASSUME TypeOK, [Next]_vars PROVE TypeOK'
    OBVIOUS
  <1>1. CASE Begin
    BY <1>1, DispatchAssumption DEF Begin, TypeOK
  <1>2. CASE Prepare
    BY <1>2, RowTypes DEF Prepare, TypeOK, delivery
  <1>3. CASE NoAnswer
    BY <1>3, RecordType, DispatchAssumption DEF NoAnswer
  <1>4. CASE Delete
    BY <1>4, RowTypes DEF Delete, Becomes, TypeOK, delivery
  <1>5. ASSUME NEW answer \in Statuses, Answer(answer) PROVE TypeOK'
    BY <1>5, RecordType DEF Answer
  <1>6. ASSUME NEW e \in Editors, NEW input \in Inputs, ReadRow(e, input) PROVE TypeOK'
    <2>1. [phase |-> "read", input |-> input, signing |-> row.signing,
           secret |-> row.secret] \in Edit
      BY DEF TypeOK, Row, Edit
    <2>2. [Unread EXCEPT !.phase = "done"] \in Edit
      BY EnteredType DEF Unread, Edit
    <2>3. QED
      BY <1>6, <2>1, <2>2 DEF ReadRow, TypeOK, delivery
  <1>7. ASSUME NEW e \in Editors, WriteRow(e) \/ RefuseUrl(e) PROVE TypeOK'
    <2>1. [Unread EXCEPT !.phase = "done"] \in Edit
      BY EnteredType DEF Unread, Edit
    <2>2. CASE WriteRow(e)
      <3>1. (IF row.there THEN Patched(e) ELSE row) \in Row
        BY RowTypes DEF TypeOK
      <3>2. QED
        BY <2>1, <2>2, <3>1 DEF WriteRow, Becomes, TypeOK, delivery
    <2>3. CASE RefuseUrl(e)
      BY <2>1, <2>3 DEF RefuseUrl, TypeOK, delivery
    <2>4. QED
      BY <1>7, <2>2, <2>3
  <1>8. CASE UNCHANGED vars
    BY <1>8 DEF vars, delivery, TypeOK
  <1>9. QED
    BY <1>1, <1>2, <1>3, <1>4, <1>5, <1>6, <1>7, <1>8 DEF Next

\* Everything stays what it is declared to be: a delay is one of the schedule's or 0,
\* and what an UPDATE leaves in the destination's row is a row.
THEOREM DispatchTypeCorrect == Spec => []TypeOK
  BY TypeInit, TypeNext, PTL DEF Spec

------------------------------------------------------------------------------
\* The series of attempts

\* The delays so far are those of the schedule.
LEMMA FollowedStep ==
    ASSUME TypeOK, ScheduleFollowed, Len(waits) = made, NEW answer \in Statuses, Record(answer)
    PROVE  ScheduleFollowed'
  <1> DEFINE delay == decideRetry(made + 1, answer, limit, schedule).delay
  <1>1. schedule' = schedule
    BY DEF Record
  <1>2. CASE status' # "retrying"
    BY <1>1, <1>2 DEF Record, ScheduleFollowed
  <1>3. CASE status' = "retrying"
    <2>1. waits' = Append(waits, delay) /\ shouldRetry(made + 1, answer, limit)
      BY <1>3 DEF Record, decideRetry
    <2>2. delay = nextRetryDelay(made + 1, schedule)
      BY <2>1 DEF decideRetry
    <2>3. delay = IF schedule = <<>> THEN 0
                  ELSE IF made + 1 <= Len(schedule) THEN schedule[made + 1] ELSE Last(schedule)
      BY <2>2 DEF nextRetryDelay, Last, TypeOK
    <2> HIDE DEF delay
    <2>4. /\ Len(waits') = made + 1
          /\ waits'[made + 1] = delay
          /\ \A k \in 1..made : waits'[k] = waits[k]
      BY <2>1 DEF TypeOK
    <2>5. ASSUME NEW k \in 1..Len(waits')
          PROVE  waits'[k] = IF schedule = <<>> THEN 0
                             ELSE IF k <= Len(schedule) THEN schedule[k] ELSE Last(schedule)
      <3>1. CASE k = made + 1
        BY <2>3, <2>4, <3>1
      <3>2. CASE k \in 1..made
        BY <2>4, <3>2 DEF ScheduleFollowed
      <3>3. QED
        BY <2>4, <3>1, <3>2 DEF TypeOK
    <2>6. QED
      BY <1>1, <2>5 DEF ScheduleFollowed
  <1>4. QED
    BY <1>2, <1>3

\* The delivery is being processed exactly during an attempt, and until it has
\* ended every attempt made has been answered by a wait, with one left.
SeriesInv ==
    /\ status = "processing" <=> attempt.phase # "none"
    /\ status = "pending" => made = 0
    /\ status \in {"pending", "processing", "retrying"} => made < limit /\ Len(waits) = made

\* The policy's two ways to say no are the documented ones.
LEMMA AnswerClasses ==
    ASSUME NEW answer \in Nat
    PROVE  /\ Succeeded(answer) <=> DocumentedSuccess(answer)
           /\ Permanent(answer) <=> DocumentedRejection(answer)
           /\ ~(DocumentedSuccess(answer) /\ DocumentedRejection(answer))
  BY DEF Succeeded, Permanent, isRetryableStatus, NoResponse, DocumentedSuccess, DocumentedRejection

LEMMA SeriesRecord ==
    ASSUME TypeOK, SeriesInv, attempt.phase = "sending", NEW answer \in Statuses, Record(answer)
    PROVE  SeriesInv' /\ EndsAsDocumented'
  <1> DEFINE rejected == DocumentedRejection(answer)
             accepted == DocumentedSuccess(answer)
             ends     == accepted \/ rejected \/ made + 1 = limit
             delay    == decideRetry(made + 1, answer, limit, schedule).delay
  <1>1. /\ made \in Nat /\ limit \in Nat /\ made < limit /\ Len(waits) = made
        /\ waits \in Seq(Delays \cup {0}) /\ answer \in Nat
    BY DispatchAssumption DEF TypeOK, SeriesInv
  <1>2. /\ made' = made + 1 /\ last' = answer /\ limit' = limit
        /\ attempt'.phase = "none"
        /\ waits' = IF status' = "retrying" THEN Append(waits, delay) ELSE waits
    BY DEF Record
  <1>3. shouldRetry(made + 1, answer, limit) <=> ~(made + 1 = limit \/ rejected)
    BY <1>1, AnswerClasses DEF shouldRetry
  <1>4. status' = IF accepted THEN "success" ELSE IF rejected \/ made + 1 = limit THEN "failed"
                  ELSE "retrying"
    <2>1. status' = IF Succeeded(answer) THEN "success"
                    ELSE IF shouldRetry(made + 1, answer, limit) THEN "retrying" ELSE "failed"
      BY DEF Record, decideRetry
    <2>2. Succeeded(answer) <=> accepted
      BY <1>1, AnswerClasses
    <2> HIDE DEF accepted, rejected
    <2>3. QED
      BY <1>3, <2>1, <2>2
  <1>5. Len(waits') = IF ends THEN made ELSE made + 1
    <2> HIDE DEF accepted, rejected, delay
    <2>1. status' = "retrying" <=> ~ends
      BY <1>4
    <2>2. \A x : Len(Append(waits, x)) = made + 1
      BY <1>1
    <2>3. QED
      BY <1>1, <1>2, <2>1, <2>2
  <1>6. EndsAsDocumented'
    <2> SUFFICES /\ made' <= limit'
                 /\ status' \in {"success", "failed"} <=> ends
                 /\ status' = "success" <=> accepted
                 /\ Len(waits') = IF ends THEN made' - 1 ELSE made'
      BY <1>2 DEF EndsAsDocumented
    <2> HIDE DEF accepted, rejected
    <2>1. QED
      BY <1>1, <1>2, <1>4, <1>5
  <1>7. SeriesInv'
    <2> HIDE DEF accepted, rejected
    <2>1. status' = "retrying" => made + 1 < limit /\ Len(waits') = made + 1
      BY <1>1, <1>4, <1>5
    <2>2. status' \in {"success", "failed", "retrying"}
      BY <1>4
    <2>3. QED
      BY <1>2, <2>1, <2>2 DEF SeriesInv
  <1>8. QED
    BY <1>6, <1>7

DeliveryInv == SeriesInv /\ ScheduleFollowed /\ EndsAsDocumented

LEMMA DeliveryInit == Init => DeliveryInv
  BY DispatchAssumption DEF Init, DeliveryInv, SeriesInv, ScheduleFollowed, EndsAsDocumented

LEMMA DeliveryNext == TypeOK /\ DeliveryInv /\ [Next]_vars => DeliveryInv'
  <1> SUFFICES ASSUME TypeOK, DeliveryInv, [Next]_vars PROVE DeliveryInv'
    OBVIOUS
  <1>1. CASE Begin
    <2>1. SeriesInv'
      BY <1>1 DEF Begin, DeliveryInv, SeriesInv, TypeOK
    <2>2. ScheduleFollowed'
      BY <1>1 DEF Begin, DeliveryInv, ScheduleFollowed
    <2>3. EndsAsDocumented'
      BY <1>1 DEF Begin, EndsAsDocumented, TypeOK
    <2>4. QED
      BY <2>1, <2>2, <2>3 DEF DeliveryInv
  <1>2. CASE Prepare
    BY <1>2 DEF Prepare, DeliveryInv, SeriesInv, ScheduleFollowed, EndsAsDocumented, delivery
  <1>3. ASSUME NEW answer \in Statuses, attempt.phase = "sending", Record(answer)
        PROVE  DeliveryInv'
    <2>1. Len(waits) = made
      BY <1>3 DEF DeliveryInv, SeriesInv
    <2>2. QED
      BY <1>3, <2>1, FollowedStep, SeriesRecord DEF DeliveryInv
  <1>4. CASE NoAnswer
    BY <1>3, <1>4, DispatchAssumption DEF NoAnswer
  <1>5. ASSUME NEW answer \in Statuses, Answer(answer) PROVE DeliveryInv'
    BY <1>3, <1>5 DEF Answer
  <1>6. ASSUME UNCHANGED <<delivery, attempt>> PROVE DeliveryInv'
    BY <1>6 DEF DeliveryInv, SeriesInv, ScheduleFollowed, EndsAsDocumented, delivery
  <1>7. CASE Delete
    BY <1>6, <1>7 DEF Delete
  <1>8. ASSUME NEW e \in Editors, NEW input \in Inputs, ReadRow(e, input) PROVE DeliveryInv'
    BY <1>6, <1>8 DEF ReadRow
  <1>9. ASSUME NEW e \in Editors, WriteRow(e) \/ RefuseUrl(e) PROVE DeliveryInv'
    BY <1>6, <1>9 DEF WriteRow, RefuseUrl
  <1>10. CASE UNCHANGED vars
    BY <1>6, <1>10 DEF vars
  <1>11. QED
    BY <1>1, <1>2, <1>4, <1>5, <1>7, <1>8, <1>9, <1>10 DEF Next

LEMMA DeliveryAlways == Spec => [](TypeOK /\ DeliveryInv)
  <1>1. Init => TypeOK /\ DeliveryInv
    BY TypeInit, DeliveryInit
  <1>2. TypeOK /\ DeliveryInv /\ [Next]_vars => (TypeOK /\ DeliveryInv)'
    BY TypeNext, DeliveryNext
  <1>3. QED
    BY <1>1, <1>2, PTL DEF Spec

\* However long the series of attempts and whatever the answers, the worker waits
\* by DELIVERY_RETRY_DELAYS_MS in order, the last step repeating.
THEOREM RetriesFollowSchedule == Spec => []ScheduleFollowed
  BY DeliveryAlways, PTL DEF DeliveryInv

\* A delivery ends with the first 2xx, the first rejection or attempt number
\* maxAttempts, and never otherwise: what the README promises of retries.
THEOREM RetriesEndAsDocumented == Spec => []EndsAsDocumented
  BY DeliveryAlways, PTL DEF DeliveryInv

------------------------------------------------------------------------------
\* What a request is made of

\* A row that is there and signs has a secret to sign with.
Signable == row.there /\ row.signing => row.secret # 0

\* An edit that has read a secret will not find the row without one: no other edit
\* takes a secret away.
SecretStays ==
    \A e \in Editors :
        edit[e].phase = "read" /\ row.there /\ edit[e].secret # 0 => row.secret # 0

\* While an attempt runs, the row is among those it may have read.
RowSeen == attempt.phase # "none" => row \in seen

RequestInv == Signable /\ SecretStays /\ RowSeen /\ OneVersion /\ SignedAsConfigured

LEMMA RequestInit == Init => RequestInv
  BY DEF Init, RequestInv, Signable, SecretStays, RowSeen, OneVersion, SignedAsConfigured, Unread

\* What is true of a request stays true as more rows are seen.
LEMMA SeenGrows ==
    ASSUME RequestInv, attempt' = attempt, attempt.phase # "none" => seen \subseteq seen'
    PROVE  OneVersion' /\ SignedAsConfigured'
  BY DEF RequestInv, OneVersion, SignedAsConfigured

\* An edit never takes the secret away, and leaves none missing where it signs.
LEMMA PatchSigns ==
    ASSUME TypeOK, RequestInv, NEW e \in Editors, edit[e].phase = "read", row.there
    PROVE  /\ Patched(e).there
           /\ Patched(e).signing => Patched(e).secret # 0
           /\ row.secret # 0 => Patched(e).secret # 0
  <1>1. row \in Row /\ Entered(e) # 0
    BY EnteredType DEF TypeOK
  <1>2. Patched(e).there /\ (row.secret # 0 => Patched(e).secret # 0)
    BY <1>1 DEF Patched, Row
  <1>3. ASSUME Patched(e).signing, Patched(e).secret = 0 PROVE FALSE
    <2>1. row.secret = 0
      BY <1>2, <1>3
    <2>2. ~row.signing
      BY <2>1 DEF RequestInv, Signable
    <2>3. signingEnabled(e) /\ edit[e].input.signing # "same"
      BY <1>1, <1>3, <2>2 DEF Patched, Row
    <2>4. edit[e].secret # 0
      BY <1>1, <1>3, <2>3 DEF Patched, Row, wantsNewSecret
    <2>5. QED
      BY <2>1, <2>4 DEF RequestInv, SecretStays
  <1>4. QED
    BY <1>2, <1>3

LEMMA RequestNext == TypeOK /\ RequestInv /\ [Next]_vars => RequestInv'
  <1> SUFFICES ASSUME TypeOK, RequestInv, [Next]_vars PROVE RequestInv'
    OBVIOUS
  <1>1. CASE Begin
    BY <1>1 DEF Begin, RequestInv, Signable, SecretStays, RowSeen, OneVersion,
                SignedAsConfigured, TypeOK
  <1>2. CASE Prepare
    <2>1. row \in seen /\ seen' = seen /\ row' = row /\ edit' = edit
      BY <1>2 DEF Prepare, RequestInv, RowSeen
    <2>2. attempt'.request = Addressed /\ attempt'.phase = "sending"
      BY <1>2 DEF Prepare
    <2>3. OneVersion'
      BY <2>1, <2>2 DEF OneVersion, Addressed
    <2>4. SignedAsConfigured'
      BY <2>1, <2>2 DEF SignedAsConfigured, Addressed, RequestInv, Signable
    <2>5. QED
      BY <2>1, <2>3, <2>4 DEF RequestInv, Signable, SecretStays, RowSeen
  <1>3. ASSUME NEW answer \in Statuses, Record(answer) PROVE RequestInv'
    BY <1>3 DEF Record, RequestInv, Signable, SecretStays, RowSeen, OneVersion, SignedAsConfigured
  <1>4. CASE NoAnswer
    BY <1>3, <1>4, DispatchAssumption DEF NoAnswer
  <1>5. ASSUME NEW answer \in Statuses, Answer(answer) PROVE RequestInv'
    BY <1>3, <1>5 DEF Answer
  <1>6. CASE Delete
    <2>1. OneVersion' /\ SignedAsConfigured'
      BY <1>6, SeenGrows DEF Delete, Becomes
    <2>2. QED
      BY <1>6, <2>1 DEF Delete, Becomes, Gone, RequestInv, Signable, SecretStays, RowSeen
  <1>7. ASSUME NEW e \in Editors, NEW input \in Inputs, ReadRow(e, input) PROVE RequestInv'
    <2>1. OneVersion' /\ SignedAsConfigured'
      BY <1>7, SeenGrows DEF ReadRow
    <2>2. SecretStays'
      BY <1>7 DEF ReadRow, RequestInv, SecretStays, Unread, TypeOK
    <2>3. QED
      BY <1>7, <2>1, <2>2 DEF ReadRow, RequestInv, Signable, RowSeen
  <1>8. ASSUME NEW e \in Editors, RefuseUrl(e) PROVE RequestInv'
    <2>1. OneVersion' /\ SignedAsConfigured'
      BY <1>8, SeenGrows DEF RefuseUrl
    <2>2. SecretStays'
      BY <1>8 DEF RefuseUrl, RequestInv, SecretStays, Unread, TypeOK
    <2>3. QED
      BY <1>8, <2>1, <2>2 DEF RefuseUrl, RequestInv, Signable, RowSeen
  <1>9. ASSUME NEW e \in Editors, WriteRow(e) PROVE RequestInv'
    <2>1. OneVersion' /\ SignedAsConfigured' /\ RowSeen'
      BY <1>9, SeenGrows DEF WriteRow, Becomes, RowSeen
    <2>2. Signable' /\ (row'.there /\ row.secret # 0 => row'.secret # 0) /\ (row'.there => row.there)
      BY <1>9, PatchSigns DEF WriteRow, Becomes, Signable, RequestInv
    <2>3. SecretStays'
      BY <1>9, <2>2 DEF WriteRow, RequestInv, SecretStays, Unread, TypeOK
    <2>4. QED
      BY <2>1, <2>2, <2>3 DEF RequestInv
  <1>10. CASE UNCHANGED vars
    BY <1>10 DEF vars, RequestInv, Signable, SecretStays, RowSeen, OneVersion, SignedAsConfigured
  <1>11. QED
    BY <1>1, <1>2, <1>4, <1>5, <1>6, <1>7, <1>8, <1>9, <1>10 DEF Next

LEMMA RequestAlways == Spec => [](TypeOK /\ RequestInv)
  <1>1. Init => TypeOK /\ RequestInv
    BY TypeInit, RequestInit
  <1>2. TypeOK /\ RequestInv /\ [Next]_vars => (TypeOK /\ RequestInv)'
    BY TypeNext, RequestNext
  <1>3. QED
    BY <1>1, <1>2, PTL DEF Spec

\* With any number of edits overlapping it, an attempt sends one version of the
\* destination that was in force since the attempt began.
THEOREM RequestsAreOfOneVersion == Spec => []OneVersion
  BY RequestAlways, PTL DEF RequestInv

\* With any number of edits reading the row before others write it, signing that is
\* on always has a secret, so no request goes out unsigned by accident.
THEOREM RequestsAreSigned == Spec => []SignedAsConfigured
  BY RequestAlways, PTL DEF RequestInv
==============================================================================
