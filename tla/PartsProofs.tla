------------------------------ MODULE PartsProofs ------------------------------
(***************************************************************************)
(* Theorems about the parts that MCParts runs side by side: the requests   *)
(* to HubSpot, the walk through the list of jobs, and the normalizers.     *)
(* The authentication caches, which it runs as well, are in AuthProofs.    *)
(***************************************************************************)
EXTENDS HubSpotRequest, Listing, Normalizers, FiniteSetTheorems, TLAPS

-------------------------------------------------------------------------------
(***************************************************************************)
(* HubSpotRequest: any number of retries, each loop, every answers.        *)
(***************************************************************************)
\* The answers after which the loop goes on, as long as it has attempts left.
Again == Retryable \cup { "limited" }

\* Nothing is left to do but to raise.
Spent ==
    \/ LastAnswer \in Errors \ Retryable
    \/ /\ Calls = MaxRetries + 1
       /\ \A i \in 1..Calls : answers[i] \in Again

\* What the loop's variable says of the answers there were, and what leaving the loop
\* says of the last one.
LoopInv ==
    /\ pc # "end" <=> outcome = "pending"
    /\ pc = "call" => Calls = attempt /\ \A i \in 1..Calls : answers[i] \in Again
    /\ pc = "exhausted" => Spent

\* The variables apart from the bound on the requests have their types.
ColumnTypes ==
    /\ kind \in DOMAIN RetryableFor
    /\ pc \in { "call", "exhausted", "end" }
    /\ attempt \in 0..MaxRetries
    /\ last_error \in Errors \cup { "none" }
    /\ outcome \in { "pending", "result", "raised", "reraised" }
    /\ answers \in Seq(Answers)
    /\ dlq \in Seq([attempts : Nat, error : Errors \cup { "none" }])

\* The inductive invariant of the loop.
RetryInv == TypeOK /\ LoopInv /\ RaisesOnlyWhenSpent /\ NoCallAfterTheLast

-------------------------------------------------------------------------------
\* The sets that a kind's retryable errors lie between.
LEMMA RetryableLemma ==
    ASSUME kind \in DOMAIN RetryableFor
    PROVE  Retryable \subseteq Errors /\ Possible \subseteq Answers /\ "limited" \notin Errors
  BY DEF RetryableFor, Retryable, Errors, Possible, Answers

\* A sequence stays one of its set's when a member of the set is appended.
LEMMA AppendLemma ==
    ASSUME NEW S, NEW s \in Seq(S), NEW e \in S
    PROVE  Append(s, e) \in Seq(S)
  OBVIOUS

\* One more answer is the last one, and the earlier ones stay where they were.
LEMMA AnsweredLemma ==
    ASSUME RetryInv, NEW a, Answered(a)
    PROVE  /\ answers' \in Seq(Answers)
           /\ Calls' = Calls + 1 /\ Calls \in Nat /\ Calls = attempt
           /\ LastAnswer' = a
           /\ \A i \in 1..Calls : answers'[i] = answers[i] /\ answers[i] \in Again
           /\ kind' = kind /\ Retryable' = Retryable /\ Again' = Again
           /\ NoCallAfterTheLast'
<1> USE DEF RetryInv, TypeOK, LoopInv, Calls, LastAnswer
<1>1. a \in Answers /\ answers \in Seq(Answers) /\ answers' = Append(answers, a) /\ kind' = kind
  BY RetryableLemma DEF Answered
<1>2. /\ answers' \in Seq(Answers)
      /\ Calls' = Calls + 1 /\ Calls \in Nat /\ Calls = attempt
      /\ LastAnswer' = a
      /\ \A i \in 1..Calls : answers'[i] = answers[i] /\ answers[i] \in Again
  BY <1>1 DEF Answered
<1>3. Retryable' = Retryable /\ Again' = Again
  BY <1>1 DEF Retryable, Again
<1>4. NoCallAfterTheLast'
  BY <1>2, <1>3 DEF NoCallAfterTheLast, Again
<1> QED
  BY <1>1, <1>2, <1>3, <1>4

\* Where the loop goes after an answer that lets it go on: to the next attempt or, after
\* the last one, out of the loop with only such answers behind it.
LEMMA NextAttemptLemma ==
    ASSUME RetryInv, NEW a \in Again, Answered(a), NextAttempt, UNCHANGED outcome
    PROVE  /\ pc' \in { "call", "exhausted" }
           /\ attempt' \in 0..MaxRetries
           /\ Calls' <= MaxRetries + 1
           /\ LoopInv'
           /\ RaisesOnlyWhenSpent'
<1>1. /\ Calls' = Calls + 1 /\ Calls \in Nat /\ Calls = attempt
      /\ \A i \in 1..Calls' : answers'[i] \in Again'
      /\ Again' = Again
  BY AnsweredLemma DEF LastAnswer
<1>2. attempt \in 0..MaxRetries /\ MaxRetries \in Nat
  BY MaxRetriesIsNat DEF RetryInv, TypeOK
<1>3. outcome' = "pending"
  BY DEF RetryInv, LoopInv, Answered
<1>4. /\ pc' \in { "call", "exhausted" } /\ attempt' \in 0..MaxRetries
      /\ pc' = "call" => attempt' = Calls'
      /\ pc' = "exhausted" => Calls' = MaxRetries + 1
      /\ Calls' <= MaxRetries + 1
  BY <1>1, <1>2 DEF NextAttempt, Answered
<1>5. Spent' \/ pc' = "call"
  BY <1>1, <1>4 DEF Spent
<1>6. LoopInv'
  BY <1>1, <1>3, <1>4, <1>5 DEF LoopInv
<1>7. RaisesOnlyWhenSpent'
  BY <1>3 DEF RaisesOnlyWhenSpent
<1> QED
  BY <1>4, <1>6, <1>7

\* Every step of a call keeps the invariant.
LEMMA RetryStep == RetryInv /\ [Next]_vars => RetryInv'
<1> SUFFICES ASSUME RetryInv, [Next]_vars PROVE RetryInv'
  OBVIOUS
<1>t. /\ ColumnTypes
      /\ MaxRetries \in Nat
  BY MaxRetriesIsNat DEF RetryInv, TypeOK, ColumnTypes
<1>1. CASE Result
  <2>1. /\ answers' \in Seq(Answers) /\ Calls' <= MaxRetries + 1 /\ NoCallAfterTheLast'
    BY <1>1, <1>t, AnsweredLemma DEF Result, ColumnTypes
  <2>2. /\ pc' = "end" /\ outcome' = "result"
        /\ UNCHANGED << kind, attempt, last_error, dlq >>
    BY <1>1 DEF Result, Answered
  <2> QED
    BY <1>t, <2>1, <2>2 DEF RetryInv, TypeOK, ColumnTypes, LoopInv, RaisesOnlyWhenSpent
<1>2. CASE RateLimited
  <2>1. "limited" \in Again
    BY DEF Again
  <2> QED
    BY <1>2, <1>t, <2>1, AnsweredLemma, NextAttemptLemma
    DEF RateLimited, RetryInv, TypeOK, ColumnTypes
<1>3. ASSUME NEW e \in Errors, Failed(e) PROVE RetryInv'
  <2>1. CASE ~GivesUp(e)
    BY <1>3, <1>t, <2>1, AnsweredLemma, NextAttemptLemma
    DEF Failed, GivesUp, Again, RetryInv, TypeOK, ColumnTypes
  <2>2. CASE GivesUp(e)
    <3>1. /\ Calls' = Calls + 1 /\ Calls \in Nat /\ Calls = attempt
          /\ LastAnswer' = e /\ answers' \in Seq(Answers)
          /\ \A i \in 1..Calls : answers'[i] \in Again
          /\ Retryable' = Retryable /\ Again' = Again /\ NoCallAfterTheLast'
      BY <1>3, AnsweredLemma DEF Failed
    <3>2. /\ pc' = "exhausted" /\ last_error' = e /\ pc = "call"
          /\ UNCHANGED << kind, attempt, outcome, dlq >>
      BY <1>3, <2>2 DEF Failed, Answered
    <3>3. e \notin Retryable \/ attempt = MaxRetries
      BY <1>t, <2>2 DEF GivesUp, ColumnTypes
    <3>4. Spent'
      BY <3>1, <3>3 DEF Spent, LastAnswer, Again
    <3>5. Calls' <= MaxRetries + 1 /\ outcome = "pending"
      BY <1>t, <3>1, <3>2 DEF ColumnTypes, RetryInv, LoopInv
    <3> QED
      BY <1>t, <3>1, <3>2, <3>4, <3>5
      DEF RetryInv, TypeOK, ColumnTypes, LoopInv, RaisesOnlyWhenSpent
  <2> QED
    BY <2>1, <2>2
<1>4. ASSUME NEW e \in Errors, FailedForGood(e) PROVE RetryInv'
  <2>1. /\ answers' \in Seq(Answers) /\ Calls' <= MaxRetries + 1 /\ NoCallAfterTheLast'
        /\ LastAnswer' = e /\ Retryable' = Retryable
    BY <1>4, <1>t, AnsweredLemma DEF FailedForGood, ColumnTypes
  <2>2. /\ pc' = "end" /\ outcome' = "reraised" /\ last_error' = e /\ e \notin Retryable
        /\ UNCHANGED << kind, attempt, dlq >>
    BY <1>4 DEF FailedForGood, Answered, Reraised
  <2> QED
    BY <1>t, <2>1, <2>2 DEF RetryInv, TypeOK, ColumnTypes, LoopInv, RaisesOnlyWhenSpent
<1>5. CASE Exhausted
  <2>1. /\ pc' = "end" /\ outcome' = "raised" /\ pc = "exhausted"
        /\ UNCHANGED << kind, attempt, last_error, answers >>
    BY <1>5 DEF Exhausted
  <2>2. dlq' \in Seq([attempts : Nat, error : Errors \cup { "none" }])
    <3>1. DlqRecord \in [attempts : Nat, error : Errors \cup { "none" }]
      BY <1>t DEF DlqRecord, ColumnTypes
    <3> QED
      <4> DEFINE S == [attempts : Nat, error : Errors \cup { "none" }]
      <4>1. dlq' = dlq \/ dlq' = Append(dlq, DlqRecord)
        BY <1>5 DEF Exhausted, DlqAfter
      <4>2. dlq \in Seq(S) /\ DlqRecord \in S
        BY <1>t, <3>1 DEF ColumnTypes
      <4> HIDE DEF S
      <4>3. Append(dlq, DlqRecord) \in Seq(S)
        BY <4>2, AppendLemma
      <4>4. dlq' \in Seq(S)
        BY <4>1, <4>2, <4>3
      <4> QED
        BY <4>4 DEF S
  <2>3. Spent /\ Calls <= MaxRetries + 1 /\ NoCallAfterTheLast
    BY <2>1 DEF RetryInv, LoopInv, TypeOK
  <2>4. Calls' = Calls /\ LastAnswer' = LastAnswer /\ Retryable' = Retryable
    BY <2>1 DEF Calls, LastAnswer, Retryable
  <2>5. RaisesOnlyWhenSpent' /\ NoCallAfterTheLast'
    BY <2>1, <2>3, <2>4 DEF RaisesOnlyWhenSpent, NoCallAfterTheLast, Spent, Again
  <2> QED
    BY <1>t, <2>1, <2>2, <2>3, <2>4, <2>5 DEF RetryInv, TypeOK, ColumnTypes, LoopInv
<1>6. CASE UNCHANGED vars
  BY <1>6
  DEF vars, RetryInv, TypeOK, LoopInv, Spent, RaisesOnlyWhenSpent, NoCallAfterTheLast, Calls,
      LastAnswer, Retryable, Again
<1> QED
  BY <1>1, <1>2, <1>3, <1>4, <1>5, <1>6 DEF Next

\* The invariant holds of every call.
LEMMA RetryInvariance == Spec => []RetryInv
<1>1. Init => RetryInv
  BY MaxRetriesIsNat
  DEF Init, RetryInv, TypeOK, LoopInv, RaisesOnlyWhenSpent, NoCallAfterTheLast, Calls
<1> QED
  BY <1>1, RetryStep, PTL DEF Spec

\* A call makes at most MaxRetries + 1 requests, rate-limited ones included.
THEOREM RequestsAreBounded == Spec => []TypeOK
<1>1. RetryInv => TypeOK
  BY DEF RetryInv
<1> QED
  BY <1>1, RetryInvariance, PTL

\* A call raises only after an error that no retry can mend, or when every one of the
\* requests it is allowed was answered with a transient failure.
THEOREM LoopsRaiseOnlyWhenSpent == Spec => []RaisesOnlyWhenSpent
<1>1. RetryInv => RaisesOnlyWhenSpent
  BY DEF RetryInv
<1> QED
  BY <1>1, RetryInvariance, PTL

\* Nothing is requested after a result, or after an error that retrying cannot mend.
THEOREM NothingAfterTheLast == Spec => []NoCallAfterTheLast
<1>1. RetryInv => NoCallAfterTheLast
  BY DEF RetryInv
<1> QED
  BY <1>1, RetryInvariance, PTL

-------------------------------------------------------------------------------
\* Error e is that of the last answer which was one, "none" if there was none yet.
LatestError(e) ==
    IF ErrorsAmong(Calls) = {} THEN e = "none"
    ELSE \E i \in ErrorsAmong(Calls) :
           (\A j \in ErrorsAmong(Calls) : j <= i) /\ e = answers[i]

\* The inductive invariant of the dead letter: last_error is the latest one all along.
LetterInv ==
    /\ LatestError(last_error)
    /\ dlq # << >> => outcome = "raised" /\ Len(dlq) = 1 /\ dlq[1].error = last_error

\* An answer that is an error is the latest error, and one that is none leaves it.
LEMMA LatestErrorLemma ==
    ASSUME RetryInv, NEW a, Answered(a)
    PROVE  /\ a \in Errors => LatestError(a)'
           /\ a \notin Errors => \A e : LatestError(e) => LatestError(e)'
<1>1. /\ Calls' = Calls + 1 /\ Calls \in Nat
      /\ answers'[Calls + 1] = a
      /\ \A i \in 1..Calls : answers'[i] = answers[i]
  BY AnsweredLemma DEF LastAnswer
<1>2. ErrorsAmong(Calls)' = { i \in 1..(Calls + 1) : answers'[i] \in Errors }
  BY <1>1 DEF ErrorsAmong
<1>3. ASSUME a \in Errors PROVE LatestError(a)'
  <2>1. Calls + 1 \in ErrorsAmong(Calls)' /\ \A j \in ErrorsAmong(Calls)' : j <= Calls + 1
    BY <1>1, <1>2, <1>3
  <2> QED
    BY <1>1, <2>1 DEF LatestError
<1>4. ASSUME a \notin Errors PROVE \A e : LatestError(e) => LatestError(e)'
  <2>1. ErrorsAmong(Calls)' = ErrorsAmong(Calls)
    BY <1>1, <1>2, <1>4 DEF ErrorsAmong
  <2>2. \A i \in ErrorsAmong(Calls) : answers'[i] = answers[i]
    BY <1>1 DEF ErrorsAmong
  <2> QED
    BY <2>1, <2>2 DEF LatestError
<1> QED
  BY <1>3, <1>4

\* Every step of a call keeps LetterInv.
LEMMA LetterStep == RetryInv /\ LetterInv /\ [Next]_vars => LetterInv'
<1> SUFFICES ASSUME RetryInv, LetterInv, [Next]_vars PROVE LetterInv'
  OBVIOUS
<1>e. dlq = << >> \/ pc = "end"
  BY DEF LetterInv, RetryInv, LoopInv
<1>1. CASE Result \/ RateLimited
  <2>1. \E a \in { "result", "limited" } : Answered(a)
    BY <1>1 DEF Result, RateLimited
  <2>2. dlq = << >> /\ UNCHANGED << dlq, last_error >>
    BY <1>1, <1>e DEF Result, RateLimited, Answered
  <2>3. \A a \in { "result", "limited" } : a \notin Errors
    BY DEF Errors
  <2> QED
    BY <2>1, <2>2, <2>3, LatestErrorLemma DEF LetterInv, LatestError
<1>2. ASSUME NEW e \in Errors, Failed(e) \/ FailedForGood(e) PROVE LetterInv'
  <2>1. Answered(e) /\ last_error' = e /\ dlq' = dlq /\ dlq = << >>
    BY <1>2, <1>e DEF Failed, FailedForGood, Answered
  <2> QED
    BY <2>1, LatestErrorLemma DEF LetterInv, LatestError
<1>3. CASE Exhausted
  <2>1. /\ dlq = << >> /\ outcome' = "raised" /\ dlq' \in { Append(dlq, DlqRecord), dlq }
        /\ UNCHANGED << last_error, answers >>
    BY <1>3, <1>e DEF Exhausted, DlqAfter
  <2>2. LatestError(last_error)'
    BY <2>1 DEF LetterInv, LatestError, ErrorsAmong, Calls
  <2>3. dlq' # << >> => Len(dlq') = 1 /\ dlq'[1].error = last_error
    BY <2>1 DEF DlqRecord
  <2> QED
    BY <2>1, <2>2, <2>3 DEF LetterInv
<1>4. CASE UNCHANGED vars
  BY <1>4 DEF vars, LetterInv, LatestError, ErrorsAmong, Calls
<1> QED
  BY <1>1, <1>2, <1>3, <1>4 DEF Next

\* A result leaves no dead letter, a raised call at most one, and the letter names the
\* last error there was.
THEOREM DeadLettersTellTheError == Spec => []DeadLetterTellsTheError
<1>1. Init => LetterInv
  BY DEF Init, LetterInv, LatestError, ErrorsAmong, Calls
<1>2. RetryInv /\ LetterInv => DeadLetterTellsTheError
  <2> SUFFICES ASSUME RetryInv, LetterInv PROVE DeadLetterTellsTheError
    OBVIOUS
  <2>1. ASSUME NEW k \in 1..Len(dlq) PROVE dlq[k].error = last_error
    <3>1. dlq # << >>
      BY <2>1
    <3>2. Len(dlq) = 1 /\ dlq[1].error = last_error
      BY <3>1 DEF LetterInv
    <3>3. k = 1
      BY <2>1, <3>2
    <3> QED
      BY <3>2, <3>3
  <2> QED
    BY <2>1 DEF LetterInv, LatestError, DeadLetterTellsTheError
<1> QED
  BY <1>1, <1>2, RetryInvariance, LetterStep, PTL DEF Spec

-------------------------------------------------------------------------------
(***************************************************************************)
(* Listing: every size of a page, every number of rows and deletions.      *)
(***************************************************************************)
\* As long as nothing was deleted the table is 1..newest and a row's place is known.  The
\* page asked for is on it, what lies before that page was shown as far as it was always
\* there, and a walk that is over has been through to the end it counted.
WalkInv ==
    deletes = 0 =>
        /\ rows = 1..newest
        /\ total <= newest
        /\ walk # "count" /\ ~late => total = newest
        /\ page > 1 => Offset < newest
        /\ walk # "done" => \A r \in steady : newest - r < Offset => r \in shown
        /\ walk = "done" /\ ~late => steady \subseteq shown
        /\ ~empty

\* The inductive invariant.
ListInv == ListTypeOK /\ WalkInv

-------------------------------------------------------------------------------
\* What the quotient of two numbers is.
LEMMA DivLemma ==
    ASSUME NEW a \in Nat, NEW s \in Nat \ {0}
    PROVE  /\ a \div s \in Nat
           /\ (a \div s) * s <= a
           /\ a < (a \div s) * s + s
  BY SMT

\* Products are monotonic.
LEMMA TimesLemma ==
    ASSUME NEW p \in Nat, NEW q \in Nat, NEW s \in Nat, p <= q
    PROVE  p * s <= q * s
  BY SMT

\* math.ceil(n / s) pages are those that n rows at s to the page reach.
LEMMA CeilLemma ==
    ASSUME NEW p \in Nat, NEW n \in Nat, NEW s \in Nat \ {0}
    PROVE  p < (n + s - 1) \div s <=> p * s < n
<1> DEFINE q == (n + s - 1) \div s
<1>1. q \in Nat /\ q * s <= n + s - 1 /\ n + s - 1 < q * s + s
  <2>1. n + s - 1 \in Nat
    OBVIOUS
  <2> QED
    BY <2>1, DivLemma
<1> HIDE DEF q
<1>2. p < q => p * s < n
  <2>1. p < q => (p + 1) * s <= q * s
    BY <1>1, TimesLemma
  <2>2. (p + 1) * s = p * s + s
    OBVIOUS
  <2> QED
    BY <1>1, <2>1, <2>2
<1>3. q <= p => n <= p * s
  <2>1. q <= p => q * s <= p * s
    BY <1>1, TimesLemma
  <2> QED
    BY <1>1, <2>1
<1> QED
  BY <1>1, <1>2, <1>3 DEF q

\* The rows are finitely many, no more than were ever inserted.
LEMMA RowsLemma ==
    ASSUME ListTypeOK
    PROVE  /\ newest \in Nat /\ newest <= MaxRows /\ MaxRows \in Nat
           /\ Cardinality(rows) \in Nat /\ Cardinality(rows) <= newest
           /\ rows = 1..newest => Cardinality(rows) = newest
<1>1. newest \in Nat /\ newest <= MaxRows /\ MaxRows \in Nat /\ rows \in SUBSET (1..newest)
  BY RowBounds DEF ListTypeOK
<1>2. IsFiniteSet(1..newest) /\ Cardinality(1..newest) = newest
  <2>1. 1 \in Int /\ newest \in Int
    BY <1>1
  <2>2. /\ IsFiniteSet(1..newest)
        /\ Cardinality(1..newest) = IF 1 > newest THEN 0 ELSE newest - 1 + 1
    BY <2>1, FS_Interval
  <2> QED
    BY <1>1, <2>2
<1>3. IsFiniteSet(rows) /\ Cardinality(rows) <= newest
  BY <1>1, <1>2, FS_Subset
<1> QED
  BY <1>1, <1>2, <1>3, FS_CardinalityType

\* The page, its offset and whether there is another one, as numbers.
LEMMA PageLemma ==
    ASSUME ListTypeOK
    PROVE  /\ page \in Nat \ {0} /\ PageSize \in Nat \ {0} /\ total \in Nat
           /\ Offset \in Nat /\ page * PageSize = Offset + PageSize
           /\ HasNext <=> page * PageSize < total
           /\ HasNext => page < total
           /\ Selected \subseteq rows
<1>1. page \in Nat \ {0} /\ PageSize \in Nat \ {0} /\ total \in Nat
  BY PageSizeAssumption, RowBounds DEF ListTypeOK
<1>2. page - 1 \in Nat /\ (page - 1) * PageSize \in Nat
  BY <1>1
<1>3. page * PageSize = (page - 1) * PageSize + PageSize
  BY <1>1
<1>4. HasNext <=> page * PageSize < total
  BY <1>1, CeilLemma DEF HasNext, TotalPages
<1>5. page <= page * PageSize
  BY <1>1
<1>6. page * PageSize \in Nat
  BY <1>1
<1> QED
  BY <1>1, <1>2, <1>3, <1>4, <1>5, <1>6 DEF Offset, Selected

\* In a table without gaps the page shows the rows whose place is on it.
LEMMA SelectedLemma ==
    ASSUME ListTypeOK, rows = 1..newest, NEW r \in rows
    PROVE  r \in Selected <=> Offset <= newest - r /\ newest - r < Offset + PageSize
<1>1. newest \in Nat /\ r \in 1..newest
  BY RowsLemma
<1>2. { s \in rows : s > r } = (r + 1)..newest
  BY <1>1
<1>3. Cardinality((r + 1)..newest) = newest - r
  <2>1. r + 1 \in Int /\ newest \in Int
    BY <1>1
  <2>2. Cardinality((r + 1)..newest) = IF r + 1 > newest THEN 0 ELSE newest - (r + 1) + 1
    BY <2>1, FS_Interval
  <2> QED
    BY <1>1, <2>2
<1> QED
  BY <1>2, <1>3 DEF Selected

-------------------------------------------------------------------------------
\* A select shows the rows of its page and says whether there is another.
LEMMA SelectStep ==
    ASSUME ListInv, Select
    PROVE  ListInv'
<1>1. /\ page \in Nat \ {0} /\ PageSize \in Nat \ {0} /\ total \in Nat
      /\ Offset \in Nat /\ page * PageSize = Offset + PageSize
      /\ HasNext <=> page * PageSize < total
      /\ HasNext => page < total
      /\ Selected \subseteq rows
      /\ newest \in Nat
  BY PageLemma, RowsLemma DEF ListInv
<1>2. /\ walk = "select"
      /\ shown' = shown \cup Selected
      /\ empty' = (empty \/ (page > 1 /\ Selected = {}))
      /\ IF HasNext THEN walk' = "count" /\ page' = page + 1
                    ELSE walk' = "done" /\ UNCHANGED page
      /\ UNCHANGED << rows, newest, total, steady, deletes, late >>
  BY DEF Select
<1>3. ListTypeOK'
  <2>1. page' \in 1..(MaxRows + 1)
    <3>1. total <= MaxRows /\ MaxRows \in Nat /\ page \in 1..(MaxRows + 1)
      BY RowBounds DEF ListInv, ListTypeOK
    <3> QED
      BY <1>1, <1>2, <3>1
  <2>2. walk' \in { "count", "select", "done" }
    BY <1>2
  <2>3. empty' \in BOOLEAN /\ late' \in BOOLEAN
    BY <1>2 DEF ListInv, ListTypeOK
  <2>4. shown' \subseteq 1..newest'
    BY <1>1, <1>2 DEF ListInv, ListTypeOK
  <2> QED
    BY <1>2, <2>1, <2>2, <2>3, <2>4 DEF ListInv, ListTypeOK
<1>4. ASSUME deletes = 0 PROVE WalkInv'
  <2>1. /\ rows = 1..newest /\ total <= newest
        /\ ~late => total = newest
        /\ page > 1 => Offset < newest
        /\ \A r \in steady : newest - r < Offset => r \in shown
        /\ ~empty
        /\ steady \subseteq rows
    BY <1>2, <1>4 DEF ListInv, ListTypeOK, WalkInv
  <2>2. ASSUME page > 1 PROVE Selected # {}
    <3>1. newest - Offset \in rows
      BY <1>1, <2>1, <2>2
    <3>2. newest - (newest - Offset) = Offset
      BY <1>1
    <3>3. newest - Offset \in Selected
      BY <1>1, <2>1, <3>1, <3>2, SelectedLemma DEF ListInv
    <3> QED
      BY <3>3
  <2>3. ASSUME NEW r \in steady, newest - r < Offset + PageSize PROVE r \in shown'
    <3>1. r \in rows /\ r \in Nat
      BY <1>1, <2>1, <2>3
    <3>2. CASE newest - r < Offset
      BY <1>2, <2>1, <3>2
    <3>3. CASE ~(newest - r < Offset)
      <4>1. Offset <= newest - r
        BY <1>1, <3>1, <3>3
      <4>2. r \in Selected
        BY <2>1, <2>3, <3>1, <4>1, SelectedLemma DEF ListInv
      <4> QED
        BY <1>2, <4>2
    <3> QED
      BY <3>2, <3>3
  <2>4. CASE HasNext
    <3>1. walk' = "count" /\ page' = page + 1 /\ page * PageSize < total
      BY <1>1, <1>2, <2>4
    <3>2. Offset' = Offset + PageSize
      <4>1. Offset' = ((page + 1) - 1) * PageSize
        BY <3>1 DEF Offset
      <4>2. (page + 1) - 1 = page
        BY <1>1
      <4> QED
        BY <1>1, <4>1, <4>2
    <3>3. Offset' < newest
      BY <1>1, <2>1, <3>1, <3>2
    <3>4. \A r \in steady : newest - r < Offset' => r \in shown'
      BY <2>3, <3>2
    <3>5. ~empty'
      BY <1>2, <2>1, <2>2
    <3> QED
      BY <1>2, <2>1, <3>1, <3>3, <3>4, <3>5 DEF WalkInv
  <2>5. CASE ~HasNext
    <3>1. walk' = "done" /\ page' = page /\ total <= page * PageSize
      BY <1>1, <1>2, <2>5
    <3>2. Offset' = Offset
      BY <3>1 DEF Offset
    <3>3. ASSUME ~late, NEW r \in steady PROVE r \in shown'
      <4>1. r \in 1..newest
        BY <2>1
      <4>2. newest - r < Offset + PageSize
        BY <1>1, <2>1, <3>1, <3>3, <4>1
      <4> QED
        BY <2>3, <4>2
    <3>4. ~empty'
      BY <1>2, <2>1, <2>2
    <3> QED
      BY <1>2, <2>1, <3>1, <3>2, <3>3, <3>4 DEF WalkInv
  <2> QED
    BY <2>4, <2>5
<1> QED
  BY <1>2, <1>3, <1>4 DEF ListInv, WalkInv

\* Every step of the client and of the others keeps the invariant.
LEMMA ListStep == ListInv /\ [ListNext]_listVars => ListInv'
<1> SUFFICES ASSUME ListInv, [ListNext]_listVars PROVE ListInv'
  OBVIOUS
<1>n. /\ newest \in Nat /\ newest <= MaxRows /\ MaxRows \in Nat /\ MaxDeletes \in Nat
      /\ Cardinality(rows) \in Nat /\ Cardinality(rows) <= newest
      /\ rows = 1..newest => Cardinality(rows) = newest
      /\ Offset \in Nat
  BY RowsLemma, PageLemma, RowBounds DEF ListInv
<1>1. CASE Count
  <2>1. /\ walk = "count" /\ total' = Cardinality(rows) /\ walk' = "select" /\ late' = FALSE
        /\ UNCHANGED << rows, newest, page, empty, shown, steady, deletes >>
    BY <1>1 DEF Count
  <2>2. ListTypeOK'
    <3>1. empty' \in BOOLEAN /\ late' \in BOOLEAN
      <4>1. empty' = empty /\ late' = FALSE /\ { empty, late } \subseteq BOOLEAN
        BY <2>1, Zenon DEF ListInv, ListTypeOK
      <4> QED
        BY <4>1, Zenon
    <3>t. total' \in 0..MaxRows
      BY <1>n, <2>1
    <3>2. walk' \in { "count", "select", "done" }
      BY <2>1
    <3> QED
      BY <2>1, <3>1, <3>t, <3>2 DEF ListInv, ListTypeOK
  <2>3. WalkInv'
    BY <1>n, <2>1 DEF ListInv, WalkInv, Offset
  <2> QED
    BY <2>2, <2>3 DEF ListInv
<1>2. CASE Select
  BY <1>2, SelectStep
<1>3. CASE Insert /\ walk # "done"
  <2>1. /\ newest' = newest + 1 /\ newest' <= MaxRows
        /\ rows' = rows \cup {newest'}
        /\ late' = (late \/ walk = "select")
        /\ UNCHANGED << walk, page, total, empty, shown, steady, deletes >>
    BY <1>n, <1>3 DEF Insert
  <2>2. ListTypeOK'
    <3>1. newest' \in 0..MaxRows /\ 1..newest \subseteq 1..newest' /\ newest' \in 1..newest'
      BY <1>n, <2>1
    <3>2. late' \in BOOLEAN
      BY <2>1 DEF ListInv, ListTypeOK
    <3> QED
      BY <2>1, <3>1, <3>2 DEF ListInv, ListTypeOK
  <2>3. ASSUME deletes = 0 PROVE WalkInv'
    <3>1. /\ rows = 1..newest /\ total <= newest /\ ~empty /\ total \in Nat
          /\ page > 1 => Offset < newest
          /\ \A r \in steady : newest - r < Offset => r \in shown
          /\ steady \subseteq Nat
      BY <1>n, <1>3, <2>3 DEF ListInv, ListTypeOK, WalkInv
    <3>2. rows' = 1..newest'
      BY <1>n, <2>1, <3>1
    <3>3. Offset' = Offset
      BY <2>1 DEF Offset
    <3>4. \A r \in steady : newest' - r < Offset => newest - r < Offset
      BY <1>n, <2>1, <3>1
    <3>5. walk # "count" => late'
      BY <1>3, <2>1 DEF ListInv, ListTypeOK
    <3>6. total <= newest' /\ (page > 1 => Offset < newest')
      BY <1>n, <2>1, <3>1
    <3> QED
      BY <1>3, <2>1, <3>1, <3>2, <3>3, <3>4, <3>5, <3>6 DEF WalkInv
  <2> QED
    BY <2>1, <2>2, <2>3 DEF ListInv, WalkInv
<1>4. ASSUME NEW r \in rows, Delete(r) PROVE ListInv'
  <2>1. /\ deletes' = deletes + 1 /\ deletes \in Nat /\ deletes' \in 0..MaxDeletes
        /\ rows' = rows \ {r} /\ steady' = steady \ {r}
        /\ UNCHANGED << newest, walk, page, total, empty, shown, late >>
    BY <1>n, <1>4 DEF Delete, ListInv, ListTypeOK
  <2> QED
    BY <2>1 DEF ListInv, ListTypeOK, WalkInv
<1>5. CASE UNCHANGED listVars
  BY <1>5 DEF listVars, ListInv, ListTypeOK, WalkInv, Offset
<1> QED
  BY <1>1, <1>2, <1>3, <1>4, <1>5 DEF ListNext

\* The invariant, in every state.
LEMMA ListInvariance == ListSpec => []ListInv
<1>1. ListInit => ListInv
  <2> SUFFICES ASSUME ListInit PROVE ListInv
    OBVIOUS
  <2>1. newest \in Nat /\ (page - 1) * PageSize = 0 /\ 1 \in 1..(MaxRows + 1)
    BY RowBounds, PageSizeAssumption DEF ListInit
  <2>2. ListTypeOK
    <3>1. empty \in BOOLEAN /\ late \in BOOLEAN
      BY Zenon DEF ListInit
    <3>2. total \in 0..MaxRows /\ deletes \in 0..MaxDeletes
      BY RowBounds DEF ListInit
    <3> QED
      BY <2>1, <3>1, <3>2 DEF ListInit, ListTypeOK
  <2>3. \A r \in steady : ~(newest - r < 0)
    BY <2>1 DEF ListInit
  <2> QED
    BY <2>1, <2>2, <2>3 DEF ListInit, ListInv, WalkInv, Offset
<1> QED
  BY <1>1, ListStep, PTL DEF ListSpec

\* The client's columns and the histories have their types: its pages end.
THEOREM ListTypes == ListSpec => []ListTypeOK
<1>1. ListInv => ListTypeOK
  BY DEF ListInv
<1> QED
  BY <1>1, ListInvariance, PTL

\* A client that follows has_next to its end was shown every row that was there all
\* along, if none was deleted and none came between its last count and its select.
THEOREM SteadyRowsShown == ListSpec => []SteadyRowsAreShown
<1>1. ListInv => SteadyRowsAreShown
  BY DEF ListInv, WalkInv, SteadyRowsAreShown
<1> QED
  BY <1>1, ListInvariance, PTL

\* Unless rows were deleted no page that has_next announced is empty.
THEOREM NoPageIsEmpty == ListSpec => []NoEmptyPage
<1>1. ListInv => NoEmptyPage
  BY RowBounds DEF ListInv, ListTypeOK, WalkInv, NoEmptyPage
<1> QED
  BY <1>1, ListInvariance, PTL

-------------------------------------------------------------------------------
(***************************************************************************)
(* Normalizers: all records, any number of them.                           *)
(***************************************************************************)
\* What a link row of this input may be.
LinkRow == [
    deal_id        : { input[i].id : i \in DOMAIN input },
    to_object_type : { "contacts", "companies", "line_items" },
    to_object_id   : Objects ]

\* The columns' types, as far as counting needs them.
ShapeInv ==
    /\ NormTypeOK
    /\ input \in Seq(RawRecords[objectType])
    /\ main \in Seq({ Row(input[i]) : i \in DOMAIN input })
    /\ links \in Seq(LinkRow)
    /\ lineItems \in Seq(LinkRow)

\* The table so far has the rows of the records so far.
MainInv ==
    /\ Len(main) = seen
    /\ \A i \in 1..seen : main[i] = Row(input[i])
    /\ result = "returned" => seen = Len(input)

\* Where in record i the row is said to be, and in the first n records.
Matches(i, row) ==
    { k \in DOMAIN Associated(input[i], row.to_object_type) :
        Link(input[i].id, row.to_object_type, Associated(input[i], row.to_object_type)[k]) = row }

Places(n, row) == UNION { { << i, k >> : k \in Matches(i, row) } : i \in 1..n }

\* Each link row is there as often as the records so far say, in the table of its type.
CountInv ==
    objectType = "deals" => \A row \in LinkRow :
        /\ IsFiniteSet(Places(seen, row))
        /\ IF row.to_object_type = "line_items"
             THEN Rows(lineItems, row) = Cardinality(Places(seen, row))
             ELSE Rows(links, row) = Cardinality(Places(seen, row))

\* Each row of a link table is of a deal so far.
Owned(table) == \A k \in DOMAIN table : \E i \in 1..seen : input[i].id = table[k].deal_id

OwnerInv == Owned(links) /\ Owned(lineItems)

\* The inductive invariant.
NormalizerInv == ShapeInv /\ MainInv /\ CountInv /\ OwnerInv

-------------------------------------------------------------------------------
\* Two sets have as many elements if one is mapped to the other one to one.
LEMMA SameCount ==
    ASSUME NEW S, NEW T, IsFiniteSet(S), NEW f \in [S -> T],
           \A a, b \in S : f[a] = f[b] => a = b,
           \A t \in T : \E a \in S : f[a] = t
    PROVE  IsFiniteSet(T) /\ Cardinality(T) = Cardinality(S)
<1>1. f \in Bijection(S, T)
  BY DEF Bijection, Injection, Surjection, IsInjective
<1> QED
  BY <1>1, FS_Bijection DEF ExistsBijection

\* The places of a row in a sequence are finitely many.
LEMMA RowsAreFinite ==
    ASSUME NEW S, NEW table \in Seq(S), NEW row
    PROVE  /\ IsFiniteSet({ k \in DOMAIN table : table[k] = row })
           /\ Rows(table, row) \in Nat
<1>1. IsFiniteSet(1..Len(table)) /\ DOMAIN table = 1..Len(table)
  BY FS_Interval
<1>2. IsFiniteSet({ k \in DOMAIN table : table[k] = row })
  BY <1>1, FS_Subset
<1> QED
  BY <1>2, FS_CardinalityType DEF Rows

\* A row is in two tables after each other as often as in the one and the other.
LEMMA RowsOfBoth ==
    ASSUME NEW S, NEW s \in Seq(S), NEW t \in Seq(S), NEW row
    PROVE  Rows(s \o t, row) = Rows(s, row) + Rows(t, row)
<1> DEFINE A == { k \in DOMAIN s : s[k] = row }
           B == { k \in DOMAIN t : t[k] = row }
           C == { k \in (Len(s) + 1)..(Len(s) + Len(t)) : (s \o t)[k] = row }
           f == [k \in B |-> Len(s) + k]
<1>1. /\ s \o t \in Seq(S) /\ Len(s \o t) = Len(s) + Len(t)
      /\ Len(s) \in Nat /\ Len(t) \in Nat
      /\ DOMAIN s = 1..Len(s) /\ DOMAIN t = 1..Len(t)
      /\ DOMAIN (s \o t) = 1..(Len(s) + Len(t))
  OBVIOUS
<1>2. /\ \A k \in 1..Len(s) : (s \o t)[k] = s[k]
      /\ \A k \in 1..Len(t) : (s \o t)[Len(s) + k] = t[k]
  OBVIOUS
<1>3. { k \in DOMAIN (s \o t) : (s \o t)[k] = row } = A \cup C
  BY <1>1, <1>2
<1>4. A \cap C = {}
  BY <1>1
<1>5. IsFiniteSet(A) /\ IsFiniteSet(B)
  BY RowsAreFinite
<1>6. IsFiniteSet(C) /\ Cardinality(C) = Cardinality(B)
  <2>1. f \in [B -> C]
    BY <1>1, <1>2
  <2>2. \A a, b \in B : f[a] = f[b] => a = b
    BY <1>1
  <2>3. ASSUME NEW c \in C PROVE \E a \in B : f[a] = c
    <3>1. c - Len(s) \in 1..Len(t) /\ Len(s) + (c - Len(s)) = c
      BY <1>1
    <3>2. c - Len(s) \in B
      BY <1>1, <1>2, <3>1
    <3> QED
      BY <3>1, <3>2
  <2> HIDE DEF B, C, f
  <2> QED
    BY <1>5, <2>1, <2>2, <2>3, SameCount
<1>7. /\ Rows(s, row) = Cardinality(A) /\ Rows(t, row) = Cardinality(B)
      /\ Rows(s \o t, row) = Cardinality(A \cup C)
  BY <1>3 DEF Rows
<1> HIDE DEF A, B, C, f
<1>8. Cardinality(A \cup C) = Cardinality(A) + Cardinality(C) - Cardinality(A \cap C)
  BY <1>5, <1>6, FS_Union
<1>9. Cardinality(A) \in Nat /\ Cardinality(C) \in Nat /\ Cardinality(A \cap C) = 0
  BY <1>4, <1>5, <1>6, FS_CardinalityType, FS_EmptySet
<1> QED
  BY <1>6, <1>7, <1>8, <1>9

\* What the next record adds to the places of a row.
LEMMA PlacesStep ==
    ASSUME NEW n \in Nat, NEW row, IsFiniteSet(Places(n, row)),
           IsFiniteSet(Matches(n + 1, row))
    PROVE  /\ IsFiniteSet(Places(n + 1, row))
           /\ Cardinality(Places(n + 1, row))
                = Cardinality(Places(n, row)) + Cardinality(Matches(n + 1, row))
<1> DEFINE M == Matches(n + 1, row)
           P == Places(n, row)
           D == { << n + 1, k >> : k \in M }
           f == [k \in M |-> << n + 1, k >>]
<1>1. Places(n + 1, row) = P \cup D
  <2>1. 1..(n + 1) = (1..n) \cup {n + 1}
    OBVIOUS
  <2> QED
    BY <2>1 DEF Places
<1>2. P \cap D = {}
  <2> SUFFICES ASSUME NEW p \in P, p \in D PROVE FALSE
    OBVIOUS
  <2>1. PICK i \in 1..n : \E k \in Matches(i, row) : p = << i, k >>
    BY DEF Places
  <2>2. PICK k2 \in M : p = << n + 1, k2 >>
    OBVIOUS
  <2> QED
    BY <2>1, <2>2
<1>3. IsFiniteSet(D) /\ Cardinality(D) = Cardinality(M)
  <2>1. f \in [M -> D] /\ (\A a, b \in M : f[a] = f[b] => a = b) /\ \A d \in D : \E a \in M : f[a] = d
    OBVIOUS
  <2> HIDE DEF D, f, M
  <2> QED
    BY <2>1, SameCount DEF M
<1> HIDE DEF P, D, M, f
<1>4. IsFiniteSet(P)
  BY DEF P
<1>5. /\ IsFiniteSet(P \cup D)
      /\ Cardinality(P \cup D) = Cardinality(P) + Cardinality(D) - Cardinality(P \cap D)
  BY <1>3, <1>4, FS_Union
<1>6. Cardinality(P) \in Nat /\ Cardinality(D) \in Nat /\ Cardinality(P \cap D) = 0
  BY <1>2, <1>3, <1>4, FS_CardinalityType, FS_EmptySet
<1> QED
  BY <1>1, <1>3, <1>5, <1>6 DEF P, M

\* A record's associations of a type, and the rows they become.
LEMMA LinksLemma ==
    ASSUME ShapeInv, NEW i \in DOMAIN input,
           NEW type \in { "contacts", "companies", "line_items" }
    PROVE  /\ LinksTo(input[i], type) \in Seq(LinkRow)
           /\ \A k \in DOMAIN LinksTo(input[i], type) :
                LinksTo(input[i], type)[k].deal_id = input[i].id
           /\ \A row \in LinkRow :
                /\ IsFiniteSet(Matches(i, row))
                /\ Rows(LinksTo(input[i], type), row)
                     = IF row.to_object_type = type THEN Cardinality(Matches(i, row)) ELSE 0
<1> DEFINE list == Associated(input[i], type)
           made == LinksTo(input[i], type)
<1>1. input[i] \in RawRecords[objectType] /\ objectType \in Normalized
  BY DEF ShapeInv, NormTypeOK
<1>2. ASSUME NEW t \in { "contacts", "companies", "line_items" }
      PROVE  /\ Associated(input[i], t) \in Seq(ToSet(Associated(input[i], t)))
             /\ ToSet(Associated(input[i], t)) \subseteq Objects
  <2>1. Associated(input[i], t) \in Seq(ToSet(Associated(input[i], t)))
    <3>1. CASE t \in DOMAIN input[i].associations
      BY <1>1, <3>1, ListsAssumption DEF Associated
    <3>2. CASE t \notin DOMAIN input[i].associations
      <4>1. Associated(input[i], t) = << >>
        BY <3>2 DEF Associated
      <4> QED
        BY <4>1
    <3> QED
      BY <3>1, <3>2
  <2>2. ToSet(Associated(input[i], t)) \subseteq Objects
    BY DEF Objects
  <2> QED
    BY <2>1, <2>2
<1>3. /\ list \in Seq(Objects)
      /\ DOMAIN list = 1..Len(list) /\ Len(list) \in Nat
  BY <1>2
<1>4. /\ made \in Seq(LinkRow) /\ DOMAIN made = DOMAIN list
      /\ \A k \in DOMAIN list : made[k] = Link(input[i].id, type, list[k])
  <2>1. ASSUME NEW k \in 1..Len(list) PROVE Link(input[i].id, type, list[k]) \in LinkRow
    BY <1>3 DEF Link, LinkRow
  <2>2. made = [k \in 1..Len(list) |-> Link(input[i].id, type, list[k])]
    BY <1>3 DEF LinksTo
  <2> HIDE DEF made, list
  <2>3. made \in Seq(LinkRow)
    BY <1>3, <2>1, <2>2
  <2> QED
    BY <1>3, <2>2, <2>3
<1>5. \A k \in DOMAIN made : made[k].deal_id = input[i].id /\ made[k].to_object_type = type
  BY <1>4 DEF Link
<1>6. ASSUME NEW row \in LinkRow
      PROVE  /\ IsFiniteSet(Matches(i, row))
             /\ Rows(made, row) = IF row.to_object_type = type THEN Cardinality(Matches(i, row)) ELSE 0
  <2>1. IsFiniteSet(Matches(i, row))
    <3> DEFINE other == Associated(input[i], row.to_object_type)
    <3>1. row.to_object_type \in { "contacts", "companies", "line_items" }
      BY DEF LinkRow
    <3>2. other \in Seq(ToSet(other))
      BY <1>2, <3>1
    <3>3. DOMAIN other = 1..Len(other) /\ Len(other) \in Nat
      BY <3>2
    <3>4. IsFiniteSet(DOMAIN other)
      BY <3>3, FS_Interval
    <3>5. Matches(i, row) \in SUBSET DOMAIN other
      BY DEF Matches
    <3> QED
      BY <3>4, <3>5, FS_Subset
  <2>2. CASE row.to_object_type = type
    <3>1. { k \in DOMAIN made : made[k] = row } = Matches(i, row)
      BY <1>4, <2>2 DEF Matches
    <3> QED
      BY <2>1, <2>2, <3>1 DEF Rows
  <2>3. CASE row.to_object_type # type
    <3>1. { k \in DOMAIN made : made[k] = row } = {}
      BY <1>5, <2>3
    <3> QED
      BY <2>1, <2>3, <3>1, FS_EmptySet DEF Rows
  <2> QED
    BY <2>1, <2>2, <2>3
<1> QED
  BY <1>4, <1>5, <1>6

\* The rows of a turn of the loop that are not those of line items.
LEMMA LinksOfLemma ==
    ASSUME ShapeInv, NEW i \in DOMAIN input
    PROVE  /\ LinksOf(input[i]) \in Seq(LinkRow)
           /\ \A k \in DOMAIN LinksOf(input[i]) : LinksOf(input[i])[k].deal_id = input[i].id
           /\ \A row \in LinkRow : row.to_object_type # "line_items" =>
                Rows(LinksOf(input[i]), row) = Cardinality(Matches(i, row))
<1> DEFINE s == LinksTo(input[i], "contacts")
           t == LinksTo(input[i], "companies")
<1>1. /\ s \in Seq(LinkRow) /\ t \in Seq(LinkRow)
      /\ \A k \in DOMAIN s : s[k].deal_id = input[i].id
      /\ \A k \in DOMAIN t : t[k].deal_id = input[i].id
      /\ \A row \in LinkRow :
           /\ IsFiniteSet(Matches(i, row))
           /\ Rows(s, row) = IF row.to_object_type = "contacts" THEN Cardinality(Matches(i, row)) ELSE 0
           /\ Rows(t, row) = IF row.to_object_type = "companies" THEN Cardinality(Matches(i, row)) ELSE 0
  BY LinksLemma
<1>2. LinksOf(input[i]) = s \o t
  BY DEF LinksOf
<1> HIDE DEF s, t
<1>3. s \o t \in Seq(LinkRow) /\ \A k \in DOMAIN (s \o t) : (s \o t)[k].deal_id = input[i].id
  <2>1. /\ DOMAIN (s \o t) = 1..(Len(s) + Len(t)) /\ Len(s) \in Nat /\ Len(t) \in Nat
        /\ DOMAIN s = 1..Len(s) /\ DOMAIN t = 1..Len(t)
        /\ \A k \in 1..Len(s) : (s \o t)[k] = s[k]
        /\ \A k \in (Len(s) + 1)..(Len(s) + Len(t)) : (s \o t)[k] = t[k - Len(s)]
    BY <1>1
  <2>2. \A k \in (Len(s) + 1)..(Len(s) + Len(t)) : k - Len(s) \in 1..Len(t)
    BY <2>1
  <2> QED
    BY <1>1, <2>1, <2>2
<1>4. ASSUME NEW row \in LinkRow, row.to_object_type # "line_items"
      PROVE  Rows(s \o t, row) = Cardinality(Matches(i, row))
  <2>1. Rows(s \o t, row) = Rows(s, row) + Rows(t, row)
    BY <1>1, RowsOfBoth
  <2>2. row.to_object_type \in { "contacts", "companies" }
    BY <1>4 DEF LinkRow
  <2>3. Cardinality(Matches(i, row)) \in Nat
    BY <1>1, FS_CardinalityType
  <2> QED
    BY <1>1, <2>1, <2>2, <2>3
<1> QED
  BY <1>2, <1>3, <1>4

\* To return or to raise changes no table.
LEMMA OnlyTheResult ==
    ASSUME NormalizerInv, UNCHANGED << objectType, input, seen, main, links, lineItems >>,
           \/ result' = "raised" \/ result' = result
           \/ result' = "returned" /\ seen = Len(input)
    PROVE  NormalizerInv'
<1>1. ShapeInv'
  BY DEF NormalizerInv, ShapeInv, NormTypeOK, LinkRow, Objects, Associated, Row, CreatedAt, Teams
<1>2. MainInv'
  BY DEF NormalizerInv, MainInv, Row, CreatedAt, Teams
<1>3. CountInv'
  <2>1. LinkRow' = LinkRow /\ \A row : Places(seen, row)' = Places(seen, row)
    BY DEF LinkRow, Objects, Associated, Places, Matches
  <2> QED
    BY <2>1 DEF NormalizerInv, CountInv, Rows
<1>4. OwnerInv'
  BY DEF NormalizerInv, OwnerInv, Owned
<1> QED
  BY <1>1, <1>2, <1>3, <1>4 DEF NormalizerInv

\* A turn of the loop adds what its record says.
LEMMA RecordStep ==
    ASSUME NormalizerInv, NormalizeRecord
    PROVE  NormalizerInv'
<1> DEFINE n == seen + 1
           L == LinksOf(input[n])
           I == LinksTo(input[n], "line_items")
<1>1. /\ n \in DOMAIN input /\ seen \in Nat /\ n \in 1..Len(input) /\ Len(input) \in Nat
      /\ seen' = n /\ main' = Append(main, Row(input[n]))
      /\ UNCHANGED << objectType, input, result >>
      /\ result = "running"
  BY DEF NormalizeRecord, NormalizerInv, ShapeInv, NormTypeOK
<1>2. /\ objectType = "deals" => links' = links \o L /\ lineItems' = lineItems \o I
      /\ objectType # "deals" => links' = links /\ lineItems' = lineItems
  BY DEF NormalizeRecord
<1>s. ShapeInv /\ MainInv /\ CountInv /\ OwnerInv
  BY DEF NormalizerInv
<1>u. /\ LinkRow' = LinkRow
      /\ \A i, row : Matches(i, row)' = Matches(i, row)
      /\ \A i : Row(input[i])' = Row(input[i])
  BY <1>1 DEF LinkRow, Objects, Associated, Matches, Row, CreatedAt, Teams
<1>L. /\ L \in Seq(LinkRow)
      /\ \A k \in DOMAIN L : L[k].deal_id = input[n].id
      /\ \A row \in LinkRow : row.to_object_type # "line_items" =>
           Rows(L, row) = Cardinality(Matches(n, row))
  BY <1>1, <1>s, LinksOfLemma
<1>I. /\ I \in Seq(LinkRow)
      /\ \A k \in DOMAIN I : I[k].deal_id = input[n].id
      /\ \A row \in LinkRow :
           /\ IsFiniteSet(Matches(n, row))
           /\ row.to_object_type = "line_items" => Rows(I, row) = Cardinality(Matches(n, row))
  BY <1>1, <1>s, LinksLemma
<1>t. links \in Seq(LinkRow) /\ lineItems \in Seq(LinkRow)
  BY <1>s DEF ShapeInv
<1>m. /\ main \in Seq({ Row(input[i]) : i \in DOMAIN input }) /\ Len(main) = seen
      /\ Row(input[n]) \in { Row(input[i]) : i \in DOMAIN input }
  BY <1>1, <1>s DEF ShapeInv, MainInv
<1> HIDE DEF L, I
<1>q. L \in Seq(LinkRow) /\ I \in Seq(LinkRow)
  BY <1>L, <1>I
<1>3. ShapeInv'
  <2>1. links \o L \in Seq(LinkRow) /\ lineItems \o I \in Seq(LinkRow)
    BY <1>q, <1>t
  <2>2. links' \in Seq(LinkRow) /\ lineItems' \in Seq(LinkRow)
    BY <1>2, <1>t, <2>1
  <2>3. main' \in Seq({ Row(input[i]) : i \in DOMAIN input })
    BY <1>1, <1>m
  <2>4. \A k \in DOMAIN main' : DOMAIN main'[k] = { "id", "created_at", "team_ids" }
    <3>1. \A k \in DOMAIN main' : main'[k] \in { Row(input[i]) : i \in DOMAIN input }
      BY <2>3
    <3> QED
      BY <3>1 DEF Row
  <2>5. NormTypeOK'
    BY <1>1, <1>2, <1>s, <2>4 DEF ShapeInv, NormTypeOK
  <2> QED
    BY <1>1, <1>s, <1>u, <2>2, <2>3, <2>5 DEF ShapeInv
<1>4. MainInv'
  <2>1. Len(main') = n /\ \A i \in 1..n : main'[i] = IF i = n THEN Row(input[n]) ELSE main[i]
    BY <1>1, <1>m
  <2> QED
    BY <1>1, <1>s, <1>u, <2>1 DEF MainInv
<1>5. CountInv'
  <2> SUFFICES ASSUME objectType = "deals", NEW row \in LinkRow
               PROVE  /\ IsFiniteSet(Places(n, row))
                      /\ IF row.to_object_type = "line_items"
                           THEN Rows(lineItems', row) = Cardinality(Places(n, row))
                           ELSE Rows(links', row) = Cardinality(Places(n, row))
    BY <1>1, <1>u DEF CountInv, Places, Rows
  <2>1. /\ IsFiniteSet(Places(n, row))
        /\ Cardinality(Places(n, row)) = Cardinality(Places(seen, row)) + Cardinality(Matches(n, row))
    BY <1>1, <1>s, <1>I, PlacesStep DEF CountInv
  <2>2. CASE row.to_object_type = "line_items"
    <3>1. Rows(lineItems \o I, row) = Rows(lineItems, row) + Rows(I, row)
      BY <1>q, <1>t, RowsOfBoth
    <3>2. lineItems' = lineItems \o I
      BY <1>2
    <3> QED
      BY <1>s, <1>I, <2>1, <2>2, <3>1, <3>2 DEF CountInv
  <2>3. CASE row.to_object_type # "line_items"
    <3>1. Rows(links \o L, row) = Rows(links, row) + Rows(L, row)
      BY <1>q, <1>t, RowsOfBoth
    <3>2. links' = links \o L
      BY <1>2
    <3> QED
      BY <1>s, <1>L, <2>1, <2>3, <3>1, <3>2 DEF CountInv
  <2> QED
    BY <2>1, <2>2, <2>3
<1>6. OwnerInv'
  <2>1. ASSUME NEW old \in Seq(LinkRow), NEW new \in Seq(LinkRow),
               \A k \in DOMAIN old : \E i \in 1..seen : input[i].id = old[k].deal_id,
               \A k \in DOMAIN new : new[k].deal_id = input[n].id
        PROVE  \A k \in DOMAIN (old \o new) :
                 \E i \in 1..n : input[i].id = (old \o new)[k].deal_id
    <3>1. /\ DOMAIN (old \o new) = 1..(Len(old) + Len(new)) /\ Len(old) \in Nat /\ Len(new) \in Nat
          /\ DOMAIN old = 1..Len(old) /\ DOMAIN new = 1..Len(new)
          /\ \A k \in 1..Len(old) : (old \o new)[k] = old[k]
          /\ \A k \in (Len(old) + 1)..(Len(old) + Len(new)) : (old \o new)[k] = new[k - Len(old)]
      OBVIOUS
    <3>2. \A k \in (Len(old) + 1)..(Len(old) + Len(new)) : k - Len(old) \in 1..Len(new)
      BY <3>1
    <3>3. 1..seen \subseteq 1..n /\ n \in 1..n
      BY <1>1
    <3> QED
      BY <2>1, <3>1, <3>2, <3>3
  <2>2. /\ \A k \in DOMAIN links : \E i \in 1..seen : input[i].id = links[k].deal_id
        /\ \A k \in DOMAIN lineItems : \E i \in 1..seen : input[i].id = lineItems[k].deal_id
    BY <1>s DEF OwnerInv, Owned
  <2>3. CASE objectType = "deals"
    <3>1. \A k \in DOMAIN (links \o L) : \E i \in 1..n : input[i].id = (links \o L)[k].deal_id
      BY <1>L, <1>t, <2>1, <2>2
    <3>2. \A k \in DOMAIN (lineItems \o I) :
            \E i \in 1..n : input[i].id = (lineItems \o I)[k].deal_id
      BY <1>I, <1>t, <2>1, <2>2
    <3>3. links' = links \o L /\ lineItems' = lineItems \o I
      BY <1>2, <2>3
    <3> QED
      BY <1>1, <3>1, <3>2, <3>3 DEF OwnerInv, Owned
  <2>4. CASE objectType # "deals"
    <3>1. 1..seen \subseteq 1..n
      BY <1>1
    <3> QED
      BY <1>1, <1>2, <2>2, <2>4, <3>1 DEF OwnerInv, Owned
  <2> QED
    BY <2>3, <2>4
<1> QED
  BY <1>3, <1>4, <1>5, <1>6 DEF NormalizerInv

\* The invariant, in every state.
LEMMA NormalizerInvariance == NormSpec => []NormalizerInv
<1>1. NormInit => NormalizerInv
  <2> SUFFICES ASSUME NormInit PROVE NormalizerInv
    OBVIOUS
  <2>1. input \in Seq(RawRecords[objectType]) /\ seen \in 0..Len(input) /\ 1..seen = {}
    BY MaxRecordsAssumption DEF NormInit, SeqOf
  <2>2. ShapeInv
    BY <2>1 DEF NormInit, ShapeInv, NormTypeOK
  <2>3. MainInv /\ OwnerInv
    BY <2>1 DEF NormInit, MainInv, OwnerInv, Owned
  <2>4. CountInv
    <3> SUFFICES ASSUME NEW row \in LinkRow
                 PROVE  /\ IsFiniteSet(Places(seen, row)) /\ Cardinality(Places(seen, row)) = 0
                        /\ Rows(links, row) = 0 /\ Rows(lineItems, row) = 0
      BY DEF CountInv
    <3>1. Places(seen, row) = {}
      BY <2>1 DEF Places
    <3>2. /\ { k \in DOMAIN links : links[k] = row } = {}
          /\ { k \in DOMAIN lineItems : lineItems[k] = row } = {}
      BY DEF NormInit
    <3> QED
      BY <3>1, <3>2, FS_EmptySet DEF Rows
  <2> QED
    BY <2>2, <2>3, <2>4 DEF NormalizerInv
<1>2. NormalizerInv /\ [NormNext]_normVars => NormalizerInv'
  <2> SUFFICES ASSUME NormalizerInv, [NormNext]_normVars PROVE NormalizerInv'
    OBVIOUS
  <2>1. CASE NormalizeRecord
    BY <2>1, RecordStep
  <2>2. CASE NormalizeRaises
    BY <2>2, OnlyTheResult DEF NormalizeRaises
  <2>3. CASE NormalizeReturns
    BY <2>3, OnlyTheResult DEF NormalizeReturns
  <2>4. CASE UNCHANGED normVars
    BY <2>4, OnlyTheResult DEF normVars
  <2> QED
    BY <2>1, <2>2, <2>3, <2>4 DEF NormNext
<1> QED
  BY <1>1, <1>2, PTL DEF NormSpec

\* The tables of a normalizer have their columns.
THEOREM NormTypes == NormSpec => []NormTypeOK
<1>1. NormalizerInv => NormTypeOK
  BY DEF NormalizerInv, ShapeInv
<1> QED
  BY <1>1, NormalizerInvariance, PTL

\* A normalizer that returns has made one row of each record, in order, with the
\* creation time from either of its two places.
THEOREM RecordsHaveRows == NormSpec => []RowPerRecord
<1>1. NormalizerInv => RowPerRecord
  <2> SUFFICES ASSUME NormalizerInv, result = "returned" PROVE RowPerRecord
    BY DEF RowPerRecord
  <2>1. /\ Len(main) = Len(input) /\ DOMAIN main = 1..Len(input)
        /\ \A i \in 1..Len(input) : main[i] = Row(input[i])
    BY DEF NormalizerInv, ShapeInv, MainInv
  <2> QED
    BY <2>1 DEF RowPerRecord, Row, CreatedAt
<1> QED
  BY <1>1, NormalizerInvariance, PTL

\* The link tables of the deals are their associations, each as often as it occurs.
THEOREM LinksAreAssociations == NormSpec => []LinksResolve
<1>1. NormalizerInv => LinksResolve
  <2> SUFFICES ASSUME NormalizerInv, result = "returned", objectType = "deals"
               PROVE  LinksResolve
    BY DEF LinksResolve
  <2>1. /\ Len(main) = Len(input) /\ DOMAIN main = 1..Len(input) /\ DOMAIN input = 1..Len(input)
        /\ seen = Len(input)
        /\ \A i \in 1..Len(input) : main[i].id = input[i].id
    BY DEF NormalizerInv, ShapeInv, MainInv, Row
  <2>2. ASSUME NEW i \in DOMAIN input, NEW to \in Objects,
               NEW type \in { "contacts", "companies", "line_items" }
        PROVE  LET row == Link(input[i].id, type, to) IN
                 /\ type # "line_items" => Rows(links, row) = Sources(row)
                 /\ type = "line_items" => Rows(lineItems, row) = Sources(row)
    <3> DEFINE row == Link(input[i].id, type, to)
    <3>1. row \in LinkRow /\ row.to_object_type = type
      BY DEF LinkRow, Link
    <3>2. Sources(row) = Cardinality(Places(seen, row))
      BY <2>1 DEF Sources, Places, Matches
    <3> QED
      BY <3>1, <3>2 DEF NormalizerInv, CountInv
  <2>3. ASSUME NEW table \in { links, lineItems }, NEW k \in DOMAIN table
        PROVE  \E i \in DOMAIN main : main[i].id = table[k].deal_id
    BY <2>1 DEF NormalizerInv, OwnerInv, Owned
  <2> QED
    BY <2>2, <2>3 DEF LinksResolve
<1> QED
  BY <1>1, NormalizerInvariance, PTL

===============================================================================
