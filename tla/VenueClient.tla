------------------------------ MODULE VenueClient ------------------------------
(***************************************************************************)
(* The HTTP client every venue adapter shares (providers/http.py), with the   *)
(* paging loop above it: concurrent calls of one event loop over one circuit  *)
(* breaker, one token bucket, one semaphore and one GET cache.                *)
(*                                                                         *)
(* Time is counted in ticks of the monotonic clock: age is how long ago the    *)
(* breaker opened, answers[p] how old the cached answer of a path is, each      *)
(* capped where the code stops telling values apart.                          *)
(***************************************************************************)
EXTENDS Integers, FiniteSets

CONSTANTS Callers,       \* coroutines that fetch through this client
          Paths,         \* cacheable paths: series metadata
          Threshold,     \* circuit_breaker_threshold
          Reset,         \* circuit_breaker_reset_seconds, in ticks
          MaxRetries,    \* http_max_retries
          MaxConcurrency,\* http_max_concurrency
          Burst,         \* capacity of the token bucket
          TTL,           \* cache_ttl_seconds, in ticks
          MaxPages       \* pages that fill a listing's row limit

ASSUME ClientAssumption ==
    /\ IsFiniteSet(Callers) /\ "" \notin Paths
    /\ {Threshold, MaxRetries, MaxPages} \subseteq Nat \ {0}
    /\ {Reset, MaxConcurrency, Burst, TTL} \subseteq Nat

VARIABLES breaker,   \* [open, failures, age]
          tokens,    \* tokens in the bucket
          answers,    \* [path -> age of its cached answer, or TTL if none is fresh]
          call,      \* [caller -> its call]
          streak     \* failed calls since the last success, for the properties

clientVars == <<breaker, tokens, answers, call, streak>>

Phases == {"idle", "limited", "queued", "sent", "backoff"}

\* attempt is the number of requests tried, page the pages already read.
Idle == [phase |-> "idle", path |-> "", attempt |-> 0, page |-> 0, got |-> "nothing"]

ClientTypeOK ==
    /\ breaker \in [open : BOOLEAN, failures : 0..(Threshold + Cardinality(Callers)),
                    age : 0..Reset]
    /\ tokens \in 0..Burst
    /\ answers \in [Paths -> 0..TTL]
    /\ call \in [Callers -> [phase : Phases, path : Paths \cup {""}, attempt : 0..MaxRetries,
                             page : 0..MaxPages,
                             got : {"nothing", "hit", "data", "refused", "error"}]]
    /\ streak \in 0..Threshold

ClientInit ==
    /\ breaker = [open |-> FALSE, failures |-> 0, age |-> 0]
    /\ tokens = Burst
    /\ answers = [p \in Paths |-> TTL]
    /\ call = [c \in Callers |-> Idle]
    /\ streak = 0

\* CircuitBreaker.check: refuses while open, or lets the call through half-open.
Refuses == breaker.open /\ breaker.age < Reset
Checked == IF breaker.open
           THEN [open |-> FALSE, failures |-> Threshold - 1, age |-> 0] ELSE breaker

Ends(c, outcome) == call' = [call EXCEPT ![c] = [Idle EXCEPT !.got = outcome]]

\* get_json up to its first request, of a cacheable path or of a listing's page.
Begin(c, path, page) ==
    IF path # "" /\ answers[path] < TTL
    THEN Ends(c, "hit") /\ UNCHANGED breaker
    ELSE IF Refuses THEN Ends(c, "refused") /\ UNCHANGED breaker
    ELSE /\ breaker' = Checked
         /\ call' = [call EXCEPT ![c] = [phase |-> "limited", path |-> path, attempt |-> 0,
                                         page |-> page, got |-> "nothing"]]

GetJson(c) ==
    /\ call[c].phase = "idle"
    /\ \E path \in Paths \cup {""} : Begin(c, path, 0)
    /\ UNCHANGED <<tokens, answers, streak>>

\* RateLimiter.acquire, then the semaphore around the request.
Acquire(c) ==
    /\ call[c].phase = "limited" /\ tokens >= 1
    /\ tokens' = tokens - 1
    /\ call' = [call EXCEPT ![c].phase = "queued"]
    /\ UNCHANGED <<breaker, answers, streak>>

Send(c) ==
    /\ call[c].phase = "queued"
    /\ Cardinality({d \in Callers : call[d].phase = "sent"}) < MaxConcurrency
    /\ call' = [call EXCEPT ![c].phase = "sent", ![c].attempt = @ + 1]
    /\ UNCHANGED <<breaker, tokens, answers, streak>>

\* Mutant of RecordSuccess: the failure count survives a success.
CountSurvives == breaker' = [breaker EXCEPT !.open = FALSE, !.age = 0]

RecordSuccess == breaker' = [open |-> FALSE, failures |-> 0, age |-> 0]

RecordFailure ==
    LET n == breaker.failures + 1 IN
    breaker' = IF n >= Threshold /\ ~breaker.open THEN [open |-> TRUE, failures |-> n, age |-> 0]
               ELSE [breaker EXCEPT !.failures = n]

\* A 2xx answer, or a 404 the caller allows.  A listing goes on to its next page
\* while the cursor is new, the page had rows and the limit is not reached: a call
\* of its own, which the breaker that just closed lets through.
Answered(c) ==
    /\ call[c].phase = "sent"
    /\ RecordSuccess
    /\ streak' = 0
    /\ LET k == call[c] IN
       IF k.path # ""
       THEN /\ answers' = [answers EXCEPT ![k.path] = 0]
            /\ Ends(c, "data")
       ELSE /\ UNCHANGED answers
            /\ \/ /\ k.page + 1 < MaxPages
                  /\ call' = [call EXCEPT ![c].phase = "limited", ![c].attempt = 0,
                                          ![c].page = @ + 1]
               \/ Ends(c, "data")     \* the last page, or a cursor seen before
    /\ UNCHANGED tokens

\* A timeout, a 429 or a 5xx: tried again after a wait, within the budget.
Throttled(c) ==
    /\ call[c].phase = "sent" /\ call[c].attempt < MaxRetries
    /\ call' = [call EXCEPT ![c].phase = "backoff"]
    /\ UNCHANGED <<breaker, tokens, answers, streak>>

\* The last retry fails, or the venue answers 4xx or no JSON: one failure for the
\* whole call, and a listing loses the pages it already had.
Failed(c) ==
    /\ call[c].phase = "sent"
    /\ RecordFailure
    /\ streak' = IF streak < Threshold THEN streak + 1 ELSE streak
    /\ Ends(c, "error")
    /\ UNCHANGED <<tokens, answers>>

\* Mutant of Retry: the budget starts again with every wait.
RetryAfresh(c) ==
    /\ call[c].phase = "backoff"
    /\ call' = [call EXCEPT ![c].phase = "limited", ![c].attempt = 0]
    /\ UNCHANGED <<breaker, tokens, answers, streak>>

Retry(c) ==
    /\ call[c].phase = "backoff"
    /\ call' = [call EXCEPT ![c].phase = "limited"]
    /\ UNCHANGED <<breaker, tokens, answers, streak>>

Aged(n, cap) == IF n < cap THEN n + 1 ELSE n

Elapse ==
    /\ breaker' = [breaker EXCEPT !.age = IF breaker.open THEN Aged(@, Reset) ELSE 0]
    /\ tokens' = Aged(tokens, Burst)
    /\ answers' = [p \in Paths |-> Aged(answers[p], TTL)]
    /\ UNCHANGED <<call, streak>>

ClientNext ==
    \/ Elapse
    \/ \E c \in Callers : \/ GetJson(c) \/ Acquire(c) \/ Send(c) \/ Retry(c)
                          \/ Answered(c) \/ Throttled(c) \/ Failed(c)

ClientSpec == ClientInit /\ [][ClientNext]_clientVars

\* The event loop runs what is ready, the lock of the limiter and the semaphore
\* serve their waiters in turn, and every request ends within its timeout.
ClientFairness ==
    /\ WF_clientVars(Elapse)
    /\ \A c \in Callers :
          /\ SF_clientVars(Acquire(c)) /\ SF_clientVars(Send(c))
          /\ WF_clientVars(Answered(c) \/ Throttled(c) \/ Failed(c))
          /\ WF_clientVars(Retry(c))

-----------------------------------------------------------------------------
(* What callers and venues rely on. *)

\* The breaker trips after Threshold failed calls with no success between them,
\* however the calls overlap; and until something succeeds again a breaker the
\* cooldown has let through is one failure away from refusing everybody.
TripsOnAStreak ==
    /\ breaker.open => streak = Threshold
    /\ ~breaker.open => breaker.failures < Threshold
    /\ streak = Threshold /\ ~breaker.open => breaker.failures = Threshold - 1

\* Every call ends, with an answer or an error: neither the wait for a token, nor
\* the retries, nor a venue that echoes its cursor keeps a caller forever.
CallsEnd == \A c \in Callers : call[c].phase # "idle" ~> call[c].phase = "idle"

=============================================================================
