---------------------------- MODULE ApiClientProofs ----------------------------
(***************************************************************************)
(* What holds of every call of the API client, however many versions the   *)
(* server publishes.  The inductive invariant counts the requests of a     *)
(* stage by its attempts, and keeps a call that has not returned free of   *)
(* results and of final answers.                                           *)
(***************************************************************************)
EXTENDS ApiClient, TLAPS

\* A request is one attempt's; an attempt may have ended without one.
SentByAttempt ==
  /\ pc \in {"ready", "backoff"} => sent <= attempt
  /\ pc = "sent" => sent \in 1..(attempt + 1)
  /\ pc = "backoff" => attempt > 0

\* A call under way has no result, and has met only what may be retried.
UnderWay ==
  pc # "idle" => /\ result = NoResult
                 /\ outcome \in {NoErr, "down"}
                 /\ stage = "usage" => enableUsage

\* Only reports are recorded, and no report more often than it was sent.
RecordedOnce ==
  /\ stage # "usage" => recorded = 0
  /\ recorded <= sent

PlaceIsFresh == stage = "rules" => place >= since

ClientInv ==
  /\ TypeOK /\ SentByAttempt /\ UnderWay /\ RecordedOnce /\ PlaceIsFresh
  /\ FetchIsFresh /\ ErrorTellsLastAttempt /\ ReportIsRecorded

-----------------------------------------------------------------------------
LEMMA InitInv == Init => ClientInv
<1> SUFFICES ASSUME Init PROVE ClientInv
  OBVIOUS
<1> USE ApiAssumption DEF Init
<1>1. NoResult \in Result /\ NoResult.kind = "none"
  BY DEF Result, Status, NoErr, NoResult, Answer
<1>2. TypeOK
  <2>1. enableUsage \in BOOLEAN /\ done \in BOOLEAN /\ result \in Result
    BY <1>1
  <2>2. published \in 1..MaxVersion /\ since \in 1..published /\ place \in 0..published
    OBVIOUS
  <2>3. pc = "idle" /\ stage \in Stage /\ lastErr = NoErr /\ outcome = NoErr
    BY DEF Stage
  <2> QED
    BY <2>1, <2>2, <2>3 DEF TypeOK
<1>3. SentByAttempt /\ UnderWay /\ RecordedOnce /\ PlaceIsFresh
  BY DEF SentByAttempt, UnderWay, RecordedOnce, PlaceIsFresh
<1>4. FetchIsFresh /\ ErrorTellsLastAttempt /\ ReportIsRecorded
  BY <1>1 DEF FetchIsFresh, ErrorTellsLastAttempt, ReportIsRecorded
<1> QED
  BY <1>2, <1>3, <1>4 DEF ClientInv

LEMMA StepInv == ClientInv /\ [Next]_vars => ClientInv'
<1> SUFFICES ASSUME ClientInv, [Next]_vars PROVE ClientInv'
  OBVIOUS
<1> USE ApiAssumption
    DEF ClientInv, TypeOK, SentByAttempt, UnderWay, RecordedOnce, PlaceIsFresh,
        FetchIsFresh, ErrorTellsLastAttempt, ReportIsRecorded, Stage, Status, Result, NoErr,
        NoResult, Answer
<1>1. CASE Publish
  BY <1>1 DEF Publish, local
<1>2. CASE Cancel
  BY <1>2 DEF Cancel, local
<1>3. CASE Record
  BY <1>3 DEF Record, local
<1>4. CASE FetchRules
  BY <1>4 DEF FetchRules, Begin, Enter
<1>5. CASE ReportUsage
  BY <1>5 DEF ReportUsage, Reports, Begin, Enter
<1>6. CASE ReportNothing
  BY <1>6 DEF ReportNothing
<1>7. CASE BadRequest
  BY <1>7 DEF BadRequest, Return
<1>8. CASE Send
  BY <1>8 DEF Send, SentBound
<1>9. CASE SendFails
  <2>1. CASE pc' = "backoff"
    BY <1>9, <2>1 DEF SendFails, Retry, NextAttempt, MaxAttempts, ErrOf, Return
  <2>2. CASE pc' = "idle"
    BY <1>9, <2>2 DEF SendFails, Retry, NextAttempt, MaxAttempts, ErrOf, Return
  <2>3. pc' \in {"backoff", "idle"}
    BY <1>9 DEF SendFails, Retry, Return
  <2> QED
    BY <2>1, <2>2, <2>3
<1>10. CASE RequestFails
  BY <1>10 DEF RequestFails, Retry, NextAttempt, MaxAttempts, ErrOf, Return
<1>11. CASE ServerError
  BY <1>11 DEF ServerError, Retry, NextAttempt, MaxAttempts, ErrOf, Return
<1>12. CASE BackoffOver
  BY <1>12 DEF BackoffOver, local
<1>13. CASE BackoffCancelled
  BY <1>13 DEF BackoffCancelled, Return
<1>14. CASE Refused
  BY <1>14 DEF Refused, Accepted, Return
<1>15. CASE Invalid
  BY <1>15 DEF Invalid, Return
<1>16. CASE Metadata
  BY <1>16 DEF Metadata, Enter
<1>17. CASE Rules
  BY <1>17 DEF Rules, Complete, Return
<1>18. CASE Reported
  BY <1>18 DEF Reported, Accepted, Return
<1>19. CASE UNCHANGED vars
  BY <1>19 DEF vars
<1> QED
  BY <1>1, <1>2, <1>3, <1>4, <1>5, <1>6, <1>7, <1>8, <1>9, <1>10, <1>11, <1>12, <1>13,
     <1>14, <1>15, <1>16, <1>17, <1>18, <1>19 DEF Next, Step

LEMMA Inductive == Spec => []ClientInv
BY InitInv, StepInv, PTL DEF Spec

-----------------------------------------------------------------------------
\* No count of attempts, requests or records ever leaves its domain.
THEOREM TypeCorrect == Spec => []TypeOK
<1>1. ClientInv => TypeOK
  BY DEF ClientInv
<1> QED
  BY <1>1, Inductive, PTL

\* A fetch that succeeds is at least as new as its call (api_client.go:46).
THEOREM FetchesAreFresh == Spec => []FetchIsFresh
<1>1. ClientInv => FetchIsFresh
  BY DEF ClientInv
<1> QED
  BY <1>1, Inductive, PTL

\* The error tells the status of the last attempt (api_client.go:148-169).
THEOREM ErrorsAreOfTheLastAttempt == Spec => []ErrorTellsLastAttempt
<1>1. ClientInv => ErrorTellsLastAttempt
  BY DEF ClientInv
<1> QED
  BY <1>1, Inductive, PTL

\* A report that succeeds was recorded one to three times (api_client.go:87-115).
THEOREM ReportsAreRecorded == Spec => []ReportIsRecorded
<1>1. ClientInv => ReportIsRecorded
  BY DEF ClientInv
<1> QED
  BY <1>1, Inductive, PTL

\* Requests are repeated only when they may be (api_client.go:160-166).
THEOREM RetriesSound == Spec => RetriesAreSound
<1> DEFINE Sound == sent' = sent + 1 => sent < 3 /\ ~done /\ outcome \in {NoErr, "down"}
<1>1. ClientInv /\ [Next]_vars => [Sound]_vars
  <2> SUFFICES ASSUME ClientInv, Next, sent' = sent + 1 PROVE Sound
    BY DEF Sound
  <2> USE DEF ClientInv, TypeOK
  <2>1. Send
    <3>1. sent \in Nat
      OBVIOUS
    <3>2. Publish \/ Cancel \/ Record \/ BackoffOver => sent' = sent
      BY DEF Publish, Cancel, Record, BackoffOver, local
    <3>3. FetchRules \/ ReportUsage \/ ReportNothing \/ Metadata => sent' = 0
      BY DEF FetchRules, ReportUsage, ReportNothing, Metadata, Begin, Enter
    <3>4. BadRequest \/ SendFails \/ RequestFails \/ ServerError \/ BackoffCancelled =>
            sent' = sent
      BY DEF BadRequest, SendFails, RequestFails, ServerError, BackoffCancelled
    <3>5. Refused \/ Invalid \/ Rules \/ Reported => sent' = sent
      BY DEF Refused, Invalid, Rules, Reported
    <3>6. sent' # sent /\ sent' # 0
      BY <3>1
    <3>7. Step \/ Publish \/ Cancel \/ Record \/ FetchRules \/ ReportUsage \/ ReportNothing
      BY DEF Next
    <3>8. Step
      BY <3>2, <3>3, <3>6, <3>7
    <3> QED
      BY <3>2, <3>3, <3>4, <3>5, <3>6, <3>8 DEF Step
  <2>2. ~done /\ pc = "ready"
    BY <2>1 DEF Send
  <2> QED
    BY <2>2 DEF SentByAttempt, UnderWay
<1> QED
  BY <1>1, Inductive, PTL DEF Spec, RetriesAreSound, Sound

\* Calls end within sixteen steps (api_client.go:118-169), however many requests
\* fail and whenever the caller cancels: what a weakly fair step needs to return.
THEOREM CallsAreBounded == Spec => CallIsBounded
<1> DEFINE Bounded == /\ StepsLeft' <= 16
                      /\ Step => StepsLeft' < StepsLeft
                      /\ pc # "idle" /\ ~Step => StepsLeft' = StepsLeft
<1>1. ClientInv /\ [Next]_vars => [Bounded]_vars
  <2> SUFFICES ASSUME ClientInv, Next PROVE Bounded
    BY DEF Bounded
  <2>1. attempt \in 0..2 /\ pc \in {"idle", "ready", "sent", "backoff"} /\ stage \in Stage
    BY DEF ClientInv, TypeOK
  <2>2. StepsLeft \in 0..16
    <3>1. pc = "backoff" => attempt \in 1..2
      BY <2>1 DEF ClientInv, SentByAttempt
    <3>2. CASE pc = "idle"
      BY <3>2 DEF StepsLeft
    <3>3. CASE pc = "ready"
      BY <2>1, <3>3 DEF StepsLeft
    <3>4. CASE pc = "sent"
      BY <2>1, <3>4 DEF StepsLeft
    <3>5. CASE pc = "backoff"
      BY <3>1, <3>5 DEF StepsLeft
    <3> QED
      BY <2>1, <3>2, <3>3, <3>4, <3>5
  <2>3. Step => StepsLeft' < StepsLeft
    <3> USE DEF StepsLeft
    <3>1. ASSUME NEW s, Retry(s), pc \in {"ready", "sent"} PROVE StepsLeft' < StepsLeft
      <4>1. CASE pc' = "idle"
        BY <2>1, <3>1, <4>1
      <4>2. CASE pc' = "backoff" /\ attempt' = attempt + 1 /\ stage' = stage
        BY <2>1, <3>1, <4>2
      <4> QED
        BY <3>1, <4>1, <4>2 DEF Retry, NextAttempt, Return
    <3>2. ASSUME NEW r, Return(r), pc # "idle" PROVE StepsLeft' < StepsLeft
      BY <2>1, <3>2 DEF Return
    <3>3. CASE BadRequest \/ BackoffCancelled \/ Refused \/ Invalid \/ Rules \/ Reported
      BY <3>2, <3>3 DEF BadRequest, BackoffCancelled, Refused, Invalid, Rules, Reported
    <3>4. CASE SendFails \/ RequestFails \/ ServerError
      BY <3>1, <3>4 DEF SendFails, RequestFails, ServerError
    <3>5. CASE Send
      BY <2>1, <3>5 DEF Send
    <3>6. CASE BackoffOver
      BY <2>1, <3>6 DEF BackoffOver, local
    <3>7. CASE Metadata
      BY <2>1, <3>7 DEF Metadata, Enter
    <3> QED
      BY <3>3, <3>4, <3>5, <3>6, <3>7 DEF Step
  <2>4. CASE Step
    <3>1. StepsLeft' \in Int
      <4>1. ClientInv'
        BY StepInv
      <4> QED
        BY <4>1 DEF ClientInv, TypeOK, StepsLeft
    <3> QED
      BY <2>2, <2>3, <2>4, <3>1
  <2>5. CASE ~Step
    <3>1. CASE Publish \/ Cancel \/ Record
      <4>1. StepsLeft' = StepsLeft
        <5>1. pc' = pc /\ stage' = stage /\ attempt' = attempt
          BY <3>1 DEF Publish, Cancel, Record, local
        <5> QED
          BY <5>1 DEF StepsLeft
      <4> QED
        BY <2>2, <2>5, <4>1
    <3>2. CASE FetchRules \/ ReportUsage \/ ReportNothing
      BY <2>5, <3>2
      DEF FetchRules, ReportUsage, ReportNothing, Begin, Enter, StepsLeft
    <3> QED
      BY <2>5, <3>1, <3>2 DEF Next
  <2> QED
    BY <2>4, <2>5
<1> QED
  BY <1>1, Inductive, PTL DEF Spec, CallIsBounded, Bounded
=============================================================================
