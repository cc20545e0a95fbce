------------------------------ MODULE ApiClient ------------------------------
(***************************************************************************)
(* One call of APIClient (api_client.go): FetchRules, which asks the API   *)
(* for the place of the rules and the CDN for the rules, or ReportUsage,   *)
(* each through doRequestWithRetry.  The client keeps no state between     *)
(* calls, so one call at a time, again and again, is all there is.         *)
(*                                                                         *)
(* A response is its class: 2xx, another status below 500, or 500 and      *)
(* above; a body decodes and is complete, or not.  External: http.Client   *)
(* (a request is sent, and fails, or is answered), the API and the CDN.    *)
(***************************************************************************)
EXTENDS Integers, FiniteSets

CONSTANT MaxVersion    \* bound on the versions the server publishes

ASSUME ApiAssumption == MaxVersion \in Nat \ {0}

VARIABLES enableUsage, \* c.enableUsage, from cfg.EnableUsageReporting
          published, \* the version the server has
          pc,        \* idle, ready to send, request sent, backing off
          stage,     \* the request: "metadata", "rules" or "usage"
          attempt,   \* of doRequestWithRetry, 0..2
          lastErr,   \* its lastErr: the status it tells, or NoErr
          done,      \* ctx.Done() is closed
          place,     \* the version whose place the metadata gave
          result,    \* of the last call
          since,     \* history: published when the call began
          sent,      \* history: requests sent in this stage
          outcome,   \* history: what became of the last request
          recorded   \* how often the server has recorded this usage

vars == <<enableUsage, published, pc, stage, attempt, lastErr, done, place, result, since,
          sent, outcome, recorded>>

Stage     == {"metadata", "rules", "usage"}
Status    == {"ok", "refused", "down"}    \* 2xx, other below 500, 500 and above
NoErr     == "none"
Result    == [kind : {"none", "ok", "FetchRulesError", "InvalidRulesError",
                      "context", "request"},
              status : Status \union {NoErr}, version : 0..MaxVersion]
Answer(k, s, v) == [kind |-> k, status |-> s, version |-> v]
NoResult  == Answer("none", NoErr, 0)

Init ==
  /\ enableUsage \in BOOLEAN /\ published = 1
  /\ pc = "idle" /\ stage = "metadata" /\ attempt = 0 /\ lastErr = NoErr
  /\ done = FALSE /\ place = 0 /\ result = NoResult
  /\ since = 1 /\ sent = 0 /\ outcome = NoErr /\ recorded = 0

-----------------------------------------------------------------------------
\* Only the call's own variables: published is the server's.
local == <<stage, attempt, lastErr, place, result, since, sent, outcome>>

Publish ==
  /\ published < MaxVersion
  /\ published' = published + 1
  /\ UNCHANGED <<enableUsage, pc, done, recorded, local>>

\* The caller cancels, or its deadline passes.
Cancel ==
  /\ pc # "idle" /\ ~done
  /\ done' = TRUE
  /\ UNCHANGED <<enableUsage, published, pc, recorded, local>>

Enter(s) ==
  /\ pc' = "ready" /\ stage' = s
  /\ attempt' = 0 /\ lastErr' = NoErr /\ sent' = 0 /\ outcome' = NoErr

\* Calling with a context that is already done is legal.
Begin(s) ==
  /\ pc = "idle"
  /\ Enter(s)
  /\ done' \in BOOLEAN
  /\ place' = 0 /\ result' = NoResult /\ since' = published /\ recorded' = 0
  /\ UNCHANGED <<enableUsage, published>>

FetchRules  == Begin("metadata")

Reports_Always == TRUE             \* mutant: the switch is not looked at
Reports == enableUsage

ReportUsage == Reports /\ Begin("usage")

\* With usage reporting off, ReportUsage returns at once.
ReportNothing ==
  /\ ~enableUsage /\ pc = "idle"
  /\ stage' = "usage" /\ result' = Answer("ok", NoErr, 0) /\ recorded' = 0
  /\ sent' = 0
  /\ UNCHANGED <<enableUsage, published, pc, attempt, lastErr, done, place, since, outcome>>

Return(r) ==
  /\ pc' = "idle" /\ result' = r
  /\ UNCHANGED <<enableUsage, published, stage, attempt, lastErr, done, place, since,
                 recorded>>

-----------------------------------------------------------------------------
(* doRequestWithRetry.                                                     *)

\* http.NewRequestWithContext rejects the URL (of the configured endpoint, or
\* the one the metadata gave): its error is returned as it is.
BadRequest ==
  /\ pc = "ready" /\ attempt = 0
  /\ Return(Answer("request", NoErr, 0))
  /\ UNCHANGED <<sent, outcome>>

SentBound == 4                     \* the count of requests stops here

Send ==
  /\ pc = "ready" /\ ~done
  /\ pc' = "sent" /\ sent' = IF sent < SentBound THEN sent + 1 ELSE sent
  /\ UNCHANGED <<enableUsage, published, stage, attempt, lastErr, done, place, result, since,
                 outcome, recorded>>

MaxAttempts_Four == 4              \* mutant: one attempt too many
MaxAttempts == 3

ErrOf_Sticky(s) == IF lastErr = NoErr THEN s ELSE lastErr  \* mutant
\* lastErr: the error of this attempt replaces that of the attempt before.
ErrOf(s) == s

NextAttempt_Same == attempt           \* mutant: attempts are not counted
NextAttempt == attempt + 1

\* The attempt failed with status s (or none): back off, or give up.
Retry(s) ==
  /\ outcome' = s
  /\ \/ /\ NextAttempt < MaxAttempts
        /\ pc' = "backoff" /\ attempt' = NextAttempt
        /\ lastErr' = ErrOf(s)
        /\ UNCHANGED <<enableUsage, published, stage, done, place, result, since, recorded>>
     \/ /\ NextAttempt >= MaxAttempts
        /\ Return(Answer("FetchRulesError", ErrOf(s), 0))

\* Do refuses a context that is done before it sends anything.
SendFails ==
  /\ pc = "ready" /\ done
  /\ Retry(NoErr)
  /\ UNCHANGED sent

\* The connection breaks or the context ends, before or after the server has
\* read the request, or while the body is read.
RequestFails ==
  /\ pc = "sent"
  /\ Retry(NoErr)
  /\ UNCHANGED sent

\* The server records a usage report when it reads it; the answer may still
\* be lost.
Record ==
  /\ pc = "sent" /\ stage = "usage" /\ recorded < sent
  /\ recorded' = recorded + 1
  /\ UNCHANGED <<enableUsage, published, pc, done, local>>

ServerError ==
  /\ pc = "sent"
  /\ Retry("down")
  /\ UNCHANGED sent

BackoffOver ==
  /\ pc = "backoff"
  /\ pc' = "ready"
  /\ UNCHANGED <<enableUsage, published, done, recorded, local>>

\* case <-ctx.Done(): return nil, 0, ctx.Err()
BackoffCancelled ==
  /\ pc = "backoff" /\ done
  /\ Return(Answer("context", NoErr, 0))
  /\ UNCHANGED <<sent, outcome>>

-----------------------------------------------------------------------------
(* An answer below 500 ends doRequestWithRetry; its callers look at it.    *)

Accepted_AnyReport(s) == s = "ok" \/ stage = "usage"
                                   \* mutant: ReportUsage ignores the status
Accepted(s) == s = "ok"

Complete_Any(v) == TRUE            \* mutant: rules need no version
Complete(v) == v # 0

Refused ==
  /\ pc = "sent"
  /\ ~Accepted("refused")
  /\ outcome' = "refused"
  /\ Return(Answer("FetchRulesError", "refused", 0))
  /\ UNCHANGED sent

\* A 2xx body that does not decode, or lacks cdn or path.
Invalid ==
  /\ pc = "sent" /\ stage \in {"metadata", "rules"}
  /\ outcome' = "ok"
  /\ Return(Answer("InvalidRulesError", NoErr, 0))
  /\ UNCHANGED sent

\* The metadata names the place of the version the API has.
Metadata ==
  /\ pc = "sent" /\ stage = "metadata"
  /\ Enter("rules")
  /\ place' = published
  /\ UNCHANGED <<enableUsage, published, done, result, since, recorded>>

\* The CDN serves that version, a newer one if the place is reused, or a JSON
\* document that is no rules payload: one without a version.
Rules ==
  /\ pc = "sent" /\ stage = "rules"
  /\ outcome' = "ok"
  /\ \E v \in {0} \union place..published :
       Return(IF Complete(v) THEN Answer("ok", NoErr, v)
                             ELSE Answer("InvalidRulesError", NoErr, 0))
  /\ UNCHANGED sent

\* The server answers a report: with 2xx once it has recorded it.
Reported ==
  /\ pc = "sent" /\ stage = "usage"
  /\ \E s \in {"ok", "refused"} :
       /\ Accepted(s) /\ outcome' = s
       /\ s = "ok" => recorded > 0
       /\ Return(Answer("ok", NoErr, 0))
  /\ UNCHANGED sent

-----------------------------------------------------------------------------
Step == \/ BadRequest \/ Send \/ SendFails \/ RequestFails \/ ServerError
        \/ BackoffOver \/ BackoffCancelled
        \/ Refused \/ Invalid \/ Metadata \/ Rules \/ Reported

Next == \/ Publish \/ Cancel \/ Record
        \/ FetchRules \/ ReportUsage \/ ReportNothing
        \/ Step

Spec == Init /\ [][Next]_vars

(* The default HTTP client has a timeout, and a timer fires: a request and *)
(* a backoff end.                                                          *)
FairSpec == Spec /\ WF_vars(Step)

-----------------------------------------------------------------------------
\* Every variable stays in its domain.
TypeOK ==
  /\ enableUsage \in BOOLEAN
  /\ published \in 1..MaxVersion
  /\ pc \in {"idle", "ready", "sent", "backoff"}
  /\ stage \in Stage
  /\ attempt \in 0..2
  /\ lastErr \in Status \union {NoErr}
  /\ done \in BOOLEAN
  /\ place \in 0..published
  /\ result \in Result
  /\ since \in 1..published
  /\ sent \in 0..3
  /\ outcome \in Status \union {NoErr}
  /\ recorded \in 0..3

\* FetchRules (api_client.go:46) succeeds only with rules at least as new as
\* those the server had when it was called, whatever was lost, refused or
\* retried on the way: what FlagManager takes a fetch to be.
FetchIsFresh ==
  result.kind = "ok" /\ stage = "rules" => result.version \in since..published

\* A request is repeated only after a failure that may pass: a broken
\* connection or a status of 500 and above (api_client.go:160-166), never after
\* an answer below 500, at most twice, and never once the context is done.
RetriesAreSound ==
  [][sent' = sent + 1 => /\ sent < 3 /\ ~done
                         /\ outcome \in {NoErr, "down"}]_vars

\* The error of a request that was given up tells the last attempt's status
\* (api_client.go:148-169), so that a caller never takes an unreachable server
\* for one that answers 500, or the other way round.
ErrorTellsLastAttempt ==
  result.kind = "FetchRulesError" => result.status = outcome

\* A report that succeeds was recorded, at least once and, each retry being a
\* POST of its own, at most three times; none is sent when usage reporting is
\* off (api_client.go:87-115).
ReportIsRecorded ==
  /\ result.kind = "ok" /\ stage = "usage" /\ enableUsage => recorded \in 1..3
  /\ ~enableUsage => recorded = 0

\* How many steps a call still has at most: three an attempt, the last of them
\* without a backoff, and the eight of the rules behind those of the metadata.
StepsLeft ==
  IF pc = "idle" THEN 0
  ELSE (IF stage = "metadata" THEN 8 ELSE 0) + 3 * (2 - attempt)
       + (CASE pc = "ready" -> 2 [] pc = "sent" -> 1 [] pc = "backoff" -> 3)

\* A call takes at most sixteen steps through both requests and all retries
\* (api_client.go:118-169): each brings its end nearer, and nothing that happens
\* meanwhile, a cancellation or a new version, puts it off.
CallIsBounded ==
  [][/\ StepsLeft' <= 16
     /\ Step => StepsLeft' < StepsLeft
     /\ pc # "idle" /\ ~Step => StepsLeft' = StepsLeft]_vars

\* Every call returns, whatever fails and for how long.
CallReturns == pc # "idle" ~> pc = "idle"

\* "Error is implemented by every error type this SDK returns" (errors.go:5),
\* "Every error this SDK returns satisfies the shared zenmanage.Error interface"
\* (README.md:296).
SDKErrors == {"FetchRulesError", "InvalidRulesError"}
EveryErrorIsSDKError == result.kind \in {"none", "ok"} \union SDKErrors
=============================================================================
