----------------------------- MODULE Transport ------------------------------
(***************************************************************************)
(* The HTTP transport (internal/nitter/protocol/httpx/client.go): any      *)
(* number of callers share one client.  A call is paced once, then sends   *)
(* requests until one is answered for good: network failures and 5xx are   *)
(* retried with a growing pause, a 429 is waited for once.                 *)
(*                                                                         *)
(* Time passes in ticks.  A pending sleep is its remaining ticks, and an   *)
(* instant in the past is its age, counted up to MinInterval, beyond which *)
(* no code can tell the difference.                                        *)
(***************************************************************************)
EXTENDS Integers

CONSTANTS
    Callers,            \* concurrent users of the client
    Nobody,             \* no holder of paceMu
    SetRetryAttempts,   \* retry_attempts, retry_delay, request_interval
    SetRetryDelay,      \* as configured; 0 selects the default and a
    SetMinInterval,     \* negative value turns the feature off
    DefaultAttempts,
    DefaultDelay,
    DefaultInterval,
    RetryAfters         \* usable Retry-After values an instance sends

ASSUME TransportAssumption ==
    /\ Nobody \notin Callers
    /\ {SetRetryAttempts, SetRetryDelay, SetMinInterval} \subseteq Int
    /\ {DefaultAttempts, DefaultDelay, DefaultInterval} \subseteq Nat
    /\ RetryAfters \subseteq Nat

(* New: what becomes of a configured value. *)
Option(set, default) == IF set > 0 THEN set ELSE IF set < 0 THEN 0 ELSE default

RetryAttempts == Option(SetRetryAttempts, DefaultAttempts)
RetryDelay    == Option(SetRetryDelay, DefaultDelay)
MinInterval   == Option(SetMinInterval, DefaultInterval)

VARIABLES
    paceAge,        \* age of lastStart
    paceMu,         \* who holds the pacing mutex across its sleep
    pc,             \* what each caller does next
    kind,           \* "get" reads the body into memory, "download" streams it
    cancelled,      \* the caller's context is done
    timer,          \* ticks left of the caller's sleep
    attempt,        \* the loop counter
    retryAfterUsed, \* the one wait for a 429 has been spent
    result,         \* how the last call ended
    sent,           \* requests of this call
    failed,         \* network failures and 5xx among their answers
    streams         \* answers whose body went to the download's writer

pacing  == <<paceAge, paceMu>>
call    == <<kind, timer, attempt, retryAfterUsed>>
history == <<sent, failed, streams>>
vars    == <<pacing, pc, cancelled, call, result, history>>

PCs == {"idle", "pace", "pacing", "send", "flight", "stream", "wait"}
Results == {"none", "ok", "exhausted", "ratelimited", "refused", "broken", "aborted"}

TypeOK ==
    /\ paceAge \in 0..MinInterval
    /\ paceMu \in Callers \cup {Nobody}
    /\ pc \in [Callers -> PCs]
    /\ kind \in [Callers -> {"get", "download"}]
    /\ cancelled \in [Callers -> BOOLEAN]
    /\ timer \in [Callers -> Nat]
    /\ attempt \in [Callers -> Nat]
    /\ retryAfterUsed \in [Callers -> BOOLEAN]
    /\ result \in [Callers -> Results]
    /\ sent \in [Callers -> Nat]
    /\ failed \in [Callers -> Nat]
    /\ streams \in [Callers -> Nat]

-----------------------------------------------------------------------------
Older(age) == IF age < MinInterval THEN age + 1 ELSE age

Tick ==
    /\ paceAge' = Older(paceAge)
    /\ timer' = [c \in Callers |-> IF timer[c] > 0 THEN timer[c] - 1 ELSE 0]
    /\ UNCHANGED <<paceMu, pc, kind, cancelled, attempt, retryAfterUsed, result, history>>

(* The caller gives up: a signal or its deadline. *)
Cancel(c) ==
    /\ pc[c] # "idle" /\ ~cancelled[c]
    /\ cancelled' = [cancelled EXCEPT ![c] = TRUE]
    /\ UNCHANGED <<pacing, pc, call, result, history>>

Goto(c, there) == pc' = [pc EXCEPT ![c] = there]

End(c, how) == Goto(c, "idle") /\ result' = [result EXCEPT ![c] = how]

(* A new call, on a context of its own. *)
Call(c) ==
    /\ pc[c] = "idle"
    /\ \E k \in {"get", "download"} : kind' = [kind EXCEPT ![c] = k]
    /\ cancelled' = [cancelled EXCEPT ![c] = FALSE]
    /\ timer' = [timer EXCEPT ![c] = 0]
    /\ attempt' = [attempt EXCEPT ![c] = 0]
    /\ retryAfterUsed' = [retryAfterUsed EXCEPT ![c] = FALSE]
    /\ result' = [result EXCEPT ![c] = "none"]
    /\ sent' = [sent EXCEPT ![c] = 0]
    /\ failed' = [failed EXCEPT ![c] = 0]
    /\ streams' = [streams EXCEPT ![c] = 0]
    /\ Goto(c, "pace")
    /\ UNCHANGED pacing

(* Before anything is sent: a context that is already done ends the call. *)
Unsent(c) ==
    /\ pc[c] = "pace" /\ cancelled[c]
    /\ End(c, "aborted")
    /\ UNCHANGED <<pacing, cancelled, call, history>>

(* pace: when the last start is old enough the call starts at once (also  *)
(* without an interval, where paceAge stays 0); otherwise the mutex is     *)
(* held over the sleep.                                                    *)
PaceAtOnce(c) ==
    /\ pc[c] = "pace" /\ paceMu = Nobody
    /\ paceAge = MinInterval
    /\ paceAge' = 0
    /\ Goto(c, "send")
    /\ UNCHANGED <<paceMu, cancelled, call, result, history>>

(* Faulty variant: the mutex is released for the sleep. *)
PaceUnlocked(c) ==
    /\ pc[c] = "pace" /\ paceMu = Nobody
    /\ paceAge < MinInterval
    /\ timer' = [timer EXCEPT ![c] = MinInterval - paceAge]
    /\ Goto(c, "pacing")
    /\ UNCHANGED <<pacing, cancelled, kind, attempt, retryAfterUsed, result, history>>

PaceSleep(c) ==
    /\ pc[c] = "pace" /\ paceMu = Nobody
    /\ paceAge < MinInterval
    /\ paceMu' = c
    /\ timer' = [timer EXCEPT ![c] = MinInterval - paceAge]
    /\ Goto(c, "pacing")
    /\ UNCHANGED <<paceAge, cancelled, kind, attempt, retryAfterUsed, result, history>>

PaceDone(c) ==
    /\ pc[c] = "pacing" /\ timer[c] = 0
    /\ paceAge' = 0 /\ paceMu' = Nobody
    /\ Goto(c, "send")
    /\ UNCHANGED <<cancelled, call, result, history>>

(* Faulty variant: the early return forgets the mutex. *)
PaceAbortedLocked(c) ==
    /\ pc[c] = "pacing" /\ cancelled[c]
    /\ End(c, "aborted")
    /\ UNCHANGED <<pacing, cancelled, call, history>>

PaceAborted(c) ==
    /\ pc[c] = "pacing" /\ cancelled[c]
    /\ paceMu' = Nobody
    /\ End(c, "aborted")
    /\ UNCHANGED <<paceAge, cancelled, call, history>>

Send(c) ==
    /\ pc[c] = "send"
    /\ sent' = [sent EXCEPT ![c] = @ + 1]
    /\ Goto(c, "flight")
    /\ UNCHANGED <<pacing, cancelled, call, result, failed, streams>>

(* A usable answer.  A download goes on to copy its body. *)
AnswerOK(c) ==
    /\ pc[c] = "flight"
    /\ IF kind[c] = "get"
       THEN End(c, "ok") /\ UNCHANGED streams
       ELSE /\ Goto(c, "stream")
            /\ streams' = [streams EXCEPT ![c] = @ + 1]
            /\ UNCHANGED result
    /\ UNCHANGED <<pacing, cancelled, call, sent, failed>>

(* 4xx, a body over the cap, a redirect of a download: no retry. *)
AnswerRefused(c) ==
    /\ pc[c] = "flight"
    /\ End(c, "refused")
    /\ UNCHANGED <<pacing, cancelled, call, history>>

(* Faulty variant: one retry less than configured. *)
AnswerFailedEarly(c) ==
    /\ pc[c] = "flight"
    /\ failed' = [failed EXCEPT ![c] = @ + 1]
    /\ IF attempt[c] + 1 < RetryAttempts
       THEN /\ timer' = [timer EXCEPT ![c] = RetryDelay * (attempt[c] + 1)]
            /\ Goto(c, "wait")
            /\ UNCHANGED result
       ELSE End(c, "exhausted") /\ UNCHANGED timer
    /\ UNCHANGED <<pacing, cancelled, kind, attempt, retryAfterUsed, sent, streams>>

(* A network failure, an unreadable body or a 5xx. *)
AnswerFailed(c) ==
    /\ pc[c] = "flight"
    /\ failed' = [failed EXCEPT ![c] = @ + 1]
    /\ IF attempt[c] < RetryAttempts
       THEN /\ timer' = [timer EXCEPT ![c] = RetryDelay * (attempt[c] + 1)]
            /\ Goto(c, "wait")
            /\ UNCHANGED result
       ELSE End(c, "exhausted") /\ UNCHANGED timer
    /\ UNCHANGED <<pacing, cancelled, kind, attempt, retryAfterUsed, sent, streams>>

(* Faulty variants: a negative Retry-After is taken, every 429 is waited   *)
(* for.                                                                    *)
AnswerTooManyNegative(c) ==
    /\ pc[c] = "flight"
    /\ ~retryAfterUsed[c]
    /\ retryAfterUsed' = [retryAfterUsed EXCEPT ![c] = TRUE]
    /\ \E delay \in RetryAfters \cup {-1} : timer' = [timer EXCEPT ![c] = delay]
    /\ Goto(c, "wait")
    /\ UNCHANGED <<pacing, cancelled, kind, attempt, result, history>>

AnswerTooManyAgain(c) ==
    /\ pc[c] = "flight"
    /\ \/ End(c, "ratelimited") /\ UNCHANGED timer
       \/ /\ \E delay \in RetryAfters : timer' = [timer EXCEPT ![c] = delay]
          /\ Goto(c, "wait")
          /\ UNCHANGED result
    /\ UNCHANGED <<pacing, cancelled, kind, attempt, retryAfterUsed, history>>

(* A 429 (tooManyRequests): a usable Retry-After is honored once. *)
AnswerTooMany(c) ==
    /\ pc[c] = "flight"
    /\ \/ End(c, "ratelimited") /\ UNCHANGED <<timer, retryAfterUsed>>
       \/ /\ ~retryAfterUsed[c]
          /\ retryAfterUsed' = [retryAfterUsed EXCEPT ![c] = TRUE]
          /\ \E delay \in RetryAfters : timer' = [timer EXCEPT ![c] = delay]
          /\ Goto(c, "wait")
          /\ UNCHANGED result
    /\ UNCHANGED <<pacing, cancelled, kind, attempt, history>>

(* The pause is over and the loop goes round, whatever it paused for. *)
WaitDone(c) ==
    /\ pc[c] = "wait" /\ timer[c] = 0
    /\ attempt' = [attempt EXCEPT ![c] = @ + 1]
    /\ Goto(c, "send")
    /\ UNCHANGED <<pacing, cancelled, kind, timer, retryAfterUsed, result, history>>

WaitAborted(c) ==
    /\ pc[c] = "wait" /\ cancelled[c]
    /\ End(c, "aborted")
    /\ UNCHANGED <<pacing, cancelled, call, history>>

(* Faulty variant: a broken stream is retried like a failed request. *)
StreamRetried(c) ==
    /\ pc[c] = "stream"
    /\ IF attempt[c] < RetryAttempts
       THEN Goto(c, "wait") /\ UNCHANGED result
       ELSE End(c, "broken")
    /\ UNCHANGED <<pacing, cancelled, call, history>>

(* streamResponseBody: the copy succeeds, or breaks off or has the wrong   *)
(* size, in which case the bytes that were written cannot be recalled.     *)
StreamDone(c) ==
    /\ pc[c] = "stream"
    /\ \E how \in {"ok", "broken"} : End(c, how)
    /\ UNCHANGED <<pacing, cancelled, call, history>>

-----------------------------------------------------------------------------
Init ==
    /\ paceAge = MinInterval
    /\ paceMu = Nobody
    /\ pc = [c \in Callers |-> "idle"]
    /\ kind = [c \in Callers |-> "get"]
    /\ cancelled = [c \in Callers |-> FALSE]
    /\ timer = [c \in Callers |-> 0]
    /\ attempt = [c \in Callers |-> 0]
    /\ retryAfterUsed = [c \in Callers |-> FALSE]
    /\ result = [c \in Callers |-> "none"]
    /\ sent = [c \in Callers |-> 0]
    /\ failed = [c \in Callers |-> 0]
    /\ streams = [c \in Callers |-> 0]

(* The steps a caller takes by itself: the mutex, timers and the server,   *)
(* which answers or lets the request time out.                             *)
Pace(c) == Unsent(c) \/ PaceAtOnce(c) \/ PaceSleep(c)
Answer(c) == AnswerOK(c) \/ AnswerRefused(c) \/ AnswerFailed(c) \/ AnswerTooMany(c)
Wake(c) == PaceDone(c) \/ PaceAborted(c) \/ WaitDone(c) \/ WaitAborted(c)
Progress(c) == Wake(c) \/ Send(c) \/ Answer(c) \/ StreamDone(c)

Next ==
    \/ Tick
    \/ \E c \in Callers : Call(c) \/ Cancel(c) \/ Pace(c) \/ Progress(c)

Spec == Init /\ [][Next]_vars

(* Timers expire and requests end (the transport's time-out); Go's mutex   *)
(* hands itself to a waiter that would otherwise starve.                   *)
Fairness ==
    /\ WF_vars(Tick)
    /\ \A c \in Callers : WF_vars(Progress(c)) /\ SF_vars(Pace(c))

FairSpec == Spec /\ Fairness

-----------------------------------------------------------------------------
(* Properties. *)

(* Calls start at least MinInterval apart, however many callers share the  *)
(* client and whoever gives up while waiting (client.go pace).             *)
CallsSpaced ==
    [][\A c \in Callers :
          pc[c] \in {"pace", "pacing"} /\ pc'[c] = "send" => paceAge = MinInterval]_vars

(* No call sends more than its retries and one request after a 429, so the *)
(* two kinds of waiting cannot feed each other (client.go send).           *)
SendsBounded == \A c \in Callers : sent[c] =< RetryAttempts + 2

(* A call that gives up with "failed after n attempts" has met as many     *)
(* failures as it has attempts, of which the wait for a 429 eats one at    *)
(* most: no pause, no pacing and no other caller takes one away.           *)
(* (client.go send and DownloadMeta)                                       *)
BudgetIsUsed ==
    \A c \in Callers :
        result[c] = "exhausted" =>
            failed[c] \in (RetryAttempts + IF retryAfterUsed[c] THEN 0 ELSE 1)..(RetryAttempts + 1)

(* Documented (client.go:508, cli-reference.md): the wait for a 429 is     *)
(* independent of the retries, so a call that gives up has failed once     *)
(* more than it has retries, whether or not it has waited for a 429.       *)
RetryIsIndependent ==
    \A c \in Callers : result[c] = "exhausted" => failed[c] > RetryAttempts

(* Documented (config.go, retry_attempts): the configured number of extra  *)
(* attempts is the number made, and 0 means none.                          *)
ConfiguredBudget ==
    \A c \in Callers : SetRetryAttempts >= 0 => failed[c] =< SetRetryAttempts + 1

(* A download's writer is handed the body of one response, never parts of  *)
(* two (client.go Download).                                               *)
OneBodyPerDownload == \A c \in Callers : streams[c] =< 1

(* Every call ends, although callers sleep while they hold the mutex that  *)
(* others wait for and may give up there (client.go pace and send).        *)
CallsEnd == \A c \in Callers : pc[c] # "idle" ~> pc[c] = "idle"

-----------------------------------------------------------------------------
(* The inductive invariant behind the safety properties. *)

(* The loop counter says how many requests were sent, each of them failed  *)
(* or is the one 429 that was waited for or is still out, and only that    *)
(* 429 lets the counter pass the budget.                                   *)
Waited(c) == IF retryAfterUsed[c] THEN 1 ELSE 0

CountsMatch ==
    \A c \in Callers :
        /\ pc[c] \in {"pace", "pacing"} =>
              sent[c] = 0 /\ attempt[c] = 0 /\ failed[c] = 0 /\ ~retryAfterUsed[c]
        /\ pc[c] = "send" => sent[c] = attempt[c]
        /\ pc[c] \in {"flight", "stream", "wait"} => sent[c] = attempt[c] + 1
        /\ pc[c] \in {"send", "flight"} => failed[c] + Waited(c) = attempt[c]
        /\ pc[c] = "wait" => failed[c] + Waited(c) = attempt[c] + 1
        /\ pc[c] # "idle" => attempt[c] =< RetryAttempts + Waited(c)
        /\ pc[c] = "wait" => attempt[c] < RetryAttempts + Waited(c)

(* A body is written in the state "stream" only, and then the call ends. *)
StreamsMatch ==
    \A c \in Callers : pc[c] \notin {"idle", "stream"} => streams[c] = 0

(* Whoever sleeps in pace holds the mutex and sleeps long enough. *)
PaceCovered ==
    \A c \in Callers :
        pc[c] = "pacing" => paceMu = c /\ timer[c] + paceAge >= MinInterval

Running == \A c \in Callers : pc[c] # "idle" => result[c] = "none"

IInv ==
    /\ TypeOK
    /\ CountsMatch
    /\ StreamsMatch
    /\ PaceCovered
    /\ Running
    /\ SendsBounded
    /\ BudgetIsUsed
    /\ OneBodyPerDownload

=============================================================================
