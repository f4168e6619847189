------------------------------ MODULE RateLimits ------------------------------
(***************************************************************************)
(* ztimer's RateLimiters: callers that ask for a function under one ID.    *)
(* The cache is looked at and added to under its lock; a limiter itself    *)
(* has none.  A limiter is the number of the Add that made it.             *)
(***************************************************************************)
EXTENDS Integers

CONSTANTS
    LimitCallers, \* goroutines that call Do or DoBackoff
    Limiters,     \* numbers of limiters: 1..n (a bound)
    StartSecs, Multiply, MaxSecs, \* seconds, where MaxSecs is StartSecs times a power of Multiply
    CleanAfter    \* how long beyond MaxSecs a limiter is kept, for 50 seconds

ASSUME RateAssumption ==
    /\ Limiters \subseteq Nat \ {0}
    /\ StartSecs \in Nat \ {0} /\ Multiply \in Nat \ {0, 1} /\ CleanAfter \in Nat
    /\ MaxSecs \in {StartSecs * Multiply, StartSecs * Multiply * Multiply}

NoLimiter == 0
NeverRan == -1
AgeBound == MaxSecs + CleanAfter + 1  \* an age counts no further (a bound)

VARIABLES
    cached,    \* the limiter in RateLimiters.cache, or NoLimiter
    limiters,  \* the limiters that have been made
    asking,    \* what each caller is doing
    crowded,   \* two callers, or one and a removal, have been at work at the same time
    tooEarly   \* a function of DoBackoff was begun before StartSecs had passed since the last one was

rateVars == <<cached, limiters, asking, crowded, tooEarly>>

Ask(phase, limiter) == [phase |-> phase, limiter |-> limiter]
Idling == Ask("idle", NoLimiter)

\* since: secsSince(last); ran: how long ago a function of DoBackoff was begun, which
\* only the properties look at
NewRateLimiter ==
    [freq |-> StartSecs, multiply |-> FALSE, since |-> NeverRan, ran |-> NeverRan,
     executing |-> FALSE]

RateInit ==
    /\ cached = NoLimiter
    /\ limiters = [x \in {} |-> NewRateLimiter]
    /\ asking = [c \in LimitCallers |-> Idling]
    /\ crowded = FALSE /\ tooEarly = FALSE

OthersAsk(c) == \E d \in LimitCallers \ {c} : asking[d].phase # "idle"
UnmadeLimiters == Limiters \ DOMAIN limiters
Of(c) == limiters[asking[c].limiter]
Becomes(c, phase) == asking' = [asking EXCEPT ![c].phase = phase]

\* DoBackoff and Do look the ID up.
LookUp(c) ==
    /\ asking[c].phase = "idle" /\ UnmadeLimiters # {}
    /\ asking' = [asking EXCEPT ![c] = Ask(IF cached = NoLimiter THEN "adds" ELSE "asks", cached)]
    /\ crowded' = (crowded \/ OthersAsk(c))
    /\ UNCHANGED <<cached, limiters, tooEarly>>

\* Add replaces whatever is there by now.
AddLimiter(c) ==
    /\ asking[c].phase = "adds"
    /\ \E n \in UnmadeLimiters :
        /\ \A m \in UnmadeLimiters : n <= m
        /\ limiters' = [m \in DOMAIN limiters \cup {n} |->
                            IF m = n THEN NewRateLimiter ELSE limiters[m]]
        /\ cached' = n
        /\ asking' = [asking EXCEPT ![c] = Ask("asks", n)]
    /\ UNCHANGED <<crowded, tooEarly>>

\* The first call only sets multiply.
NextFreq(l) == IF l.multiply /\ l.freq < MaxSecs THEN l.freq * Multiply ELSE l.freq

IsReady(since, freq) == since = NeverRan \/ since > freq

Busy(c) ==
    /\ asking[c].phase = "asks" /\ Of(c).executing
    /\ asking' = [asking EXCEPT ![c] = Idling]
    /\ UNCHANGED <<cached, limiters, crowded, tooEarly>>

\* DoBackoff that was not executing: multiplies whether or not it is time.
DoBackoff(c) ==
    /\ asking[c].phase = "asks" /\ ~Of(c).executing
    /\ LET freq == NextFreq(Of(c)) IN
       IF IsReady(Of(c).since, freq)
       THEN /\ limiters' = [limiters EXCEPT ![asking[c].limiter].freq = freq,
                                            ![asking[c].limiter].multiply = TRUE,
                                            ![asking[c].limiter].since = 0]
            /\ Becomes(c, "runs")
       ELSE /\ limiters' = [limiters EXCEPT ![asking[c].limiter].freq = freq,
                                            ![asking[c].limiter].multiply = TRUE]
            /\ asking' = [asking EXCEPT ![c] = Idling]
    /\ UNCHANGED <<cached, crowded, tooEarly>>

\* Do looks at last and never sets it.
Do(c) ==
    /\ asking[c].phase = "asks" /\ ~Of(c).executing
    /\ IF IsReady(Of(c).since, Of(c).freq)
       THEN Becomes(c, "runsOnce")
       ELSE asking' = [asking EXCEPT ![c] = Idling]
    /\ UNCHANGED <<cached, limiters, crowded, tooEarly>>

RanLately == \E n \in DOMAIN limiters : limiters[n].ran \in 0..(StartSecs - 1)

\* executing = true, and the function is called.
Run(c) ==
    /\ asking[c].phase \in {"runs", "runsOnce"}
    /\ tooEarly' = (tooEarly \/ (asking[c].phase = "runs" /\ RanLately))
    /\ limiters' = [limiters EXCEPT
            ![asking[c].limiter].executing = TRUE,
            ![asking[c].limiter].ran = IF asking[c].phase = "runs" THEN 0 ELSE @]
    /\ Becomes(c, IF asking[c].phase = "runs" THEN "running" ELSE "runningOnce")
    /\ UNCHANGED <<cached, crowded>>

\* The function of Do says nothing; that of DoBackoff may say to start again.
RunReturns(c, restart) ==
    /\ asking[c].phase = "running" \/ (asking[c].phase = "runningOnce" /\ ~restart)
    /\ limiters' = [limiters EXCEPT
            ![asking[c].limiter].executing = FALSE,
            ![asking[c].limiter].multiply = IF restart THEN FALSE ELSE @,
            ![asking[c].limiter].freq = IF restart THEN StartSecs ELSE @]
    /\ asking' = [asking EXCEPT ![c] = Idling]
    /\ UNCHANGED <<cached, crowded, tooEarly>>

IsUnused(l) == l.since # NeverRan /\ l.since > MaxSecs + CleanAfter

Forget ==
    /\ cached # NoLimiter /\ cached' = NoLimiter
    /\ crowded' = (crowded \/ \E c \in LimitCallers : asking[c].phase # "idle")
    /\ UNCHANGED <<asking, tooEarly>>

\* The repeater of every 62 seconds
CleanLimiters ==
    /\ Forget /\ IsUnused(limiters[cached])
    /\ UNCHANGED limiters

\* Remove takes no lock and does not ask: what was run before it does not count any more.
RemoveLimiter ==
    /\ Forget
    /\ limiters' = [n \in DOMAIN limiters |-> [limiters[n] EXCEPT !.ran = NeverRan]]

OlderAge(age) == IF age = NeverRan \/ age = AgeBound THEN age ELSE age + 1

\* Time passes while functions run, not in the few instructions around them.
RateTick ==
    /\ \A c \in LimitCallers : asking[c].phase \in {"idle", "running", "runningOnce"}
    /\ limiters' = [n \in DOMAIN limiters |->
            [limiters[n] EXCEPT !.since = OlderAge(@), !.ran = OlderAge(@)]]
    /\ limiters' # limiters
    /\ UNCHANGED <<cached, asking, crowded, tooEarly>>

RateNext ==
    \/ \E c \in LimitCallers :
        \/ LookUp(c) \/ AddLimiter(c) \/ Busy(c) \/ DoBackoff(c) \/ Do(c) \/ Run(c)
        \/ \E restart \in BOOLEAN : RunReturns(c, restart)
    \/ CleanLimiters \/ RemoveLimiter \/ RateTick

------------------------------------------------------------------------------
(* Properties *)

RateTypeOK ==
    /\ cached \in Limiters \cup {NoLimiter}
    /\ DOMAIN limiters \subseteq Limiters
    /\ \A n \in DOMAIN limiters : limiters[n].since \in NeverRan..AgeBound

\* ratelimiter.go:12, "only do a function every n seconds": it is so for DoBackoff, also
\* across the removal of a limiter that is not used, while callers come one at a time (Do never
\* sets last, and is not limited).
FunctionsAreApart == ~crowded => ~tooEarly

\* ratelimiter.go:14, "til it is maxSecs": so it is while callers come one at a time.
FrequencyIsWithinMax == ~crowded => \A n \in DOMAIN limiters : limiters[n].freq <= MaxSecs

RatesAreKept == FunctionsAreApart /\ FrequencyIsWithinMax
==============================================================================
