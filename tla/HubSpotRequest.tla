---------------------------- MODULE HubSpotRequest ----------------------------
(***************************************************************************)
(* One call that is retried.  Of the three loops in the code two are alike *)
(* and belong to app/clients/hubspot_client.py: get_page and               *)
(* get_associations, over HubSpot's answers, with a rate-limit branch and  *)
(* a dead letter at the end.  Extraction sees the two ways get_page can    *)
(* end as FetchPage and FetchFails.  The third is retry_call in            *)
(* app/resilience/retry.py, over any function, with neither.               *)
(***************************************************************************)
EXTENDS Naturals, Sequences, FiniteSets

CONSTANTS
    MaxRetries,    \* EXTERNAL_CALL_MAX_RETRIES
    HasDb          \* whether the client was given a session for the DLQ

ASSUME MaxRetriesIsNat == MaxRetries \in Nat
ASSUME HasDbIsBoolean == HasDb \in BOOLEAN

VARIABLES
    kind,         \* which loop: "page", "associations" or "generic" (retry_call)
    pc,           \* "call", "exhausted" (after the loop) or "end"
    attempt,      \* the loop's variable
    last_error,   \* the exception kept for the DLQ, "none" at first
    outcome,      \* "pending", "result", "raised" (RetryExhaustedError) or "reraised"
    dlq,          \* failed_external_calls: what write_to_dlq wrote
    answers       \* history: HubSpot's answers, in order

vars == << kind, pc, attempt, last_error, outcome, dlq, answers >>

\* What a request may come to.  "limited" is a 429 whose delay time.sleep accepts and
\* "bad_delay" one whose delay it rejects (a negative or infinite Retry-After).
Answers == { "result", "limited", "bad_delay", "server_error", "timeout", "client_error" }

Errors == { "bad_delay", "server_error", "timeout", "client_error" }

\* is_retryable_exception knows timeouts and refused connections; the two loops of the
\* client ask is_retryable_status as well, for 500, 502, 503 and 504.
RetryableFor == [ page         |-> { "server_error", "timeout" },
                  associations |-> { "server_error", "timeout" },
                  generic      |-> { "timeout" } ]

Retryable == RetryableFor[kind]

\* retry_call sees no answers, only what its function returns or raises: a 429 is an
\* error of the client like another.
Possible == IF kind = "generic" THEN Answers \ { "limited", "bad_delay" } ELSE Answers

Init ==
    /\ kind \in DOMAIN RetryableFor
    /\ pc = "call"
    /\ attempt = 0
    /\ last_error = "none"
    /\ outcome = "pending"
    /\ dlq = << >>
    /\ answers = << >>

\* Bug: one request too many.
OneAttemptMore ==
    IF attempt <= MaxRetries THEN attempt' = attempt + 1 /\ UNCHANGED pc
                             ELSE pc' = "exhausted" /\ UNCHANGED attempt

\* for attempt in range(max_retries + 1)
NextAttempt ==
    IF attempt < MaxRetries THEN attempt' = attempt + 1 /\ UNCHANGED pc
                            ELSE pc' = "exhausted" /\ UNCHANGED attempt

Answered(a) ==
    /\ pc = "call"
    /\ a \in Possible
    /\ answers' = Append(answers, a)
    /\ UNCHANGED kind

Result ==
    /\ Answered("result")
    /\ pc' = "end"
    /\ outcome' = "result"
    /\ UNCHANGED << attempt, last_error, dlq >>

\* Sleep for as long as the answer asks, then continue.
RateLimited ==
    /\ Answered("limited")
    /\ NextAttempt
    /\ UNCHANGED << last_error, outcome, dlq >>

\* Bug: one retry too few.
GivesUpEarly(e) == attempt + 1 >= MaxRetries \/ e \notin Retryable

\* Bug: every error is retried.
NeverFatal(e) == attempt >= MaxRetries

\* The except clause: the last attempt and an error of no retryable kind leave the loop.
GivesUp(e) == attempt >= MaxRetries \/ e \notin Retryable

\* retry_call raises such an error as it is, unless it came on the last attempt.
Reraised(e) == kind = "generic" /\ attempt < MaxRetries /\ e \notin Retryable

\* Bug: the first error is kept, not the last.
FirstErrorKept(e) ==
    /\ Answered(e)
    /\ last_error' = IF last_error = "none" THEN e ELSE last_error
    /\ IF GivesUp(e) THEN pc' = "exhausted" /\ UNCHANGED attempt ELSE NextAttempt
    /\ UNCHANGED << outcome, dlq >>

Failed(e) ==
    /\ Answered(e)
    /\ ~Reraised(e)
    /\ last_error' = e
    /\ IF GivesUp(e) THEN pc' = "exhausted" /\ UNCHANGED attempt ELSE NextAttempt
    /\ UNCHANGED << outcome, dlq >>

FailedForGood(e) ==
    /\ Answered(e)
    /\ Reraised(e)
    /\ last_error' = e
    /\ pc' = "end"
    /\ outcome' = "reraised"
    /\ UNCHANGED << attempt, dlq >>

\* write_to_dlq swallows its own failure; RetryExhaustedError is raised in any case.
DlqRecord == [attempts |-> MaxRetries + 1, error |-> last_error]

DlqAfter ==
    IF HasDb /\ kind # "generic" THEN { Append(dlq, DlqRecord), dlq } ELSE {dlq}

\* Bug: nothing is raised when there is no exception to chain.
SilentWithoutError ==
    /\ pc = "exhausted"
    /\ dlq' \in DlqAfter
    /\ pc' = "end"
    /\ outcome' = IF last_error = "none" THEN outcome ELSE "raised"
    /\ UNCHANGED << kind, attempt, last_error, answers >>

Exhausted ==
    /\ pc = "exhausted"
    /\ dlq' \in DlqAfter
    /\ pc' = "end"
    /\ outcome' = "raised"
    /\ UNCHANGED << kind, attempt, last_error, answers >>

Next ==
    \/ Result
    \/ RateLimited
    \/ \E e \in Errors : Failed(e) \/ FailedForGood(e)
    \/ Exhausted

\* Every request has a timeout and every sleep an end.
Spec == Init /\ [][Next]_vars /\ WF_vars(Next)

-------------------------------------------------------------------------------
Calls == Len(answers)

LastAnswer == answers[Calls]

\* Types, and the bound on HTTP requests: one call makes at most
\* EXTERNAL_CALL_MAX_RETRIES + 1 of them, rate-limited ones included.
TypeOK ==
    /\ kind \in DOMAIN RetryableFor
    /\ pc \in { "call", "exhausted", "end" }
    /\ attempt \in 0..MaxRetries
    /\ last_error \in Errors \cup { "none" }
    /\ outcome \in { "pending", "result", "raised", "reraised" }
    /\ answers \in Seq(Answers)
    /\ Calls <= MaxRetries + 1
    /\ dlq \in Seq([attempts : Nat, error : Errors \cup { "none" }])

\* The loop neither gives up early nor hides an error: it raises only after an answer
\* that no retry can mend, or when every one of the allowed requests was transient.
RaisesOnlyWhenSpent ==
    outcome \in { "raised", "reraised" } =>
        \/ LastAnswer \in Errors \ Retryable
        \/ /\ Calls = MaxRetries + 1
           /\ \A i \in 1..Calls : answers[i] \in Retryable \cup { "limited" }

\* Nothing is requested again once a result came or an error that retrying cannot mend.
NoCallAfterTheLast ==
    \A i \in 1..Calls : i < Calls => answers[i] \in Retryable \cup { "limited" }

\* The answers among the first n that count as errors; a rate limit is none.
ErrorsAmong(n) == { i \in 1..n : answers[i] \in Errors }

\* A result leaves no dead letter, a raised call at most one, and the letter names the
\* last error there was: none at all if every answer was a rate limit.
DeadLetterTellsTheError ==
    /\ dlq # << >> => outcome = "raised" /\ Len(dlq) = 1
    /\ \A k \in 1..Len(dlq) :
         IF ErrorsAmong(Calls) = {} THEN dlq[k].error = "none"
         ELSE \E i \in ErrorsAmong(Calls) :
                /\ \A j \in ErrorsAmong(Calls) : j <= i
                /\ dlq[k].error = answers[i]

\* Every call ends, however HubSpot answers.
Ends == <>(outcome # "pending")

-------------------------------------------------------------------------------
\* The comment on the rate-limit branch says that it does not count against the retry
\* budget: then a call raises only after an unmendable error or more errors than retries.
RateLimitIsFree ==
    outcome = "raised" =>
        \/ LastAnswer \in Errors \ Retryable
        \/ Cardinality(ErrorsAmong(Calls)) > MaxRetries
===============================================================================
