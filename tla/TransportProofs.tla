--------------------------- MODULE TransportProofs --------------------------
(***************************************************************************)
(* The safety properties of Transport hold for any number of callers and   *)
(* any configuration.  IInv is inductive: the loop counter tells how many  *)
(* requests were sent and failed, and only the one wait for a 429 lets it  *)
(* pass the budget of retries; whoever sleeps in pace holds the mutex      *)
(* until the last start is old enough.                                     *)
(***************************************************************************)
EXTENDS Transport, TLAPS

(* Every effective option is a natural number, whatever was configured     *)
(* (client.go New).                                                        *)
LEMMA OptionsAreNat ==
    /\ RetryAttempts \in Nat
    /\ RetryDelay \in Nat
    /\ MinInterval \in Nat
BY TransportAssumption DEF Option, RetryAttempts, RetryDelay, MinInterval

(* No pause is negative: the backoff is a product of natural numbers       *)
(* (client.go send).                                                       *)
LEMMA BackoffIsNat ==
    ASSUME NEW n \in Nat
    PROVE  RetryDelay * (n + 1) \in Nat
BY OptionsAreNat

(* A fresh client satisfies the invariant (client.go New). *)
LEMMA InitInvariant == Init => IInv
BY OptionsAreNat, TransportAssumption
   DEF Init, IInv, TypeOK, PCs, Results, Waited, CountsMatch, StreamsMatch, PaceCovered,
       Running, SendsBounded, BudgetIsUsed, OneBodyPerDownload

(* Every step of a caller, of its server and of the clock keeps it         *)
(* (client.go send, DownloadMeta and pace).                                *)
LEMMA StepInvariant == IInv /\ [Next]_vars => IInv'
<1> USE OptionsAreNat, TransportAssumption
<1> SUFFICES ASSUME IInv, [Next]_vars PROVE IInv'
    OBVIOUS
<1> USE DEF IInv, TypeOK, PCs, Results, Waited
<1>1. CASE Tick
    <2>1. TypeOK' /\ PaceCovered'
        BY <1>1 DEF Tick, history, Older, PaceCovered
    <2>2. (CountsMatch /\ StreamsMatch /\ Running)'
        BY <1>1 DEF Tick, history, CountsMatch, StreamsMatch, Running
    <2>3. (SendsBounded /\ BudgetIsUsed /\ OneBodyPerDownload)'
        BY <1>1 DEF Tick, history, SendsBounded, BudgetIsUsed,
           OneBodyPerDownload
    <2> QED BY <2>1, <2>2, <2>3
<1>2. ASSUME NEW c \in Callers, Call(c) PROVE IInv'
    BY <1>2 DEF Call, Goto, history, pacing, CountsMatch, StreamsMatch,
       PaceCovered, Running, SendsBounded, BudgetIsUsed, OneBodyPerDownload
<1>3. ASSUME NEW c \in Callers, Cancel(c) PROVE IInv'
    BY <1>3 DEF Cancel, pacing, history, call, CountsMatch, StreamsMatch,
       PaceCovered, Running, SendsBounded, BudgetIsUsed, OneBodyPerDownload
<1>4. ASSUME NEW c \in Callers, Pace(c) PROVE IInv'
    <2>1. CASE Unsent(c)
        BY <2>1 DEF Unsent, End, Goto, history, pacing, call, CountsMatch,
           StreamsMatch, PaceCovered, Running, SendsBounded, BudgetIsUsed,
           OneBodyPerDownload
    <2>2. CASE PaceAtOnce(c)
        BY <2>2 DEF PaceAtOnce, Goto, history, call, CountsMatch, StreamsMatch,
           PaceCovered, Running, SendsBounded, BudgetIsUsed, OneBodyPerDownload
    <2>3. CASE PaceSleep(c)
        BY <2>3 DEF PaceSleep, Goto, history, CountsMatch, StreamsMatch,
           PaceCovered, Running, SendsBounded, BudgetIsUsed, OneBodyPerDownload
    <2> QED BY <1>4, <2>1, <2>2, <2>3 DEF Pace
<1>5. ASSUME NEW c \in Callers, Wake(c) PROVE IInv'
    <2>1. CASE PaceDone(c)
        BY <2>1 DEF PaceDone, Goto, history, call, CountsMatch, StreamsMatch,
           PaceCovered, Running, SendsBounded, BudgetIsUsed, OneBodyPerDownload
    <2>2. CASE PaceAborted(c)
        BY <2>2 DEF PaceAborted, End, Goto, history, call, CountsMatch,
           StreamsMatch, PaceCovered, Running, SendsBounded, BudgetIsUsed,
           OneBodyPerDownload
    <2>3. CASE WaitDone(c)
        BY <2>3 DEF WaitDone, Goto, history, pacing, CountsMatch, StreamsMatch,
           PaceCovered, Running, SendsBounded, BudgetIsUsed, OneBodyPerDownload
    <2>4. CASE WaitAborted(c)
        BY <2>4 DEF WaitAborted, End, Goto, history, pacing, call, CountsMatch,
           StreamsMatch, PaceCovered, Running, SendsBounded, BudgetIsUsed,
           OneBodyPerDownload
    <2> QED BY <1>5, <2>1, <2>2, <2>3, <2>4 DEF Wake
<1>6. ASSUME NEW c \in Callers, Send(c) PROVE IInv'
    BY <1>6 DEF Send, Goto, history, pacing, call, CountsMatch, StreamsMatch,
       PaceCovered, Running, SendsBounded, BudgetIsUsed, OneBodyPerDownload
<1>7. ASSUME NEW c \in Callers, Answer(c) PROVE IInv'
    <2>1. CASE AnswerOK(c)
        BY <2>1 DEF AnswerOK, End, Goto, history, pacing, call, CountsMatch,
           StreamsMatch, PaceCovered, Running, SendsBounded, BudgetIsUsed,
           OneBodyPerDownload
    <2>2. CASE AnswerRefused(c)
        BY <2>2 DEF AnswerRefused, End, Goto, history, pacing, call,
           CountsMatch, StreamsMatch, PaceCovered, Running, SendsBounded,
           BudgetIsUsed, OneBodyPerDownload
    <2>3. CASE AnswerFailed(c)
        <3>1. RetryDelay * (attempt[c] + 1) \in Nat
            BY BackoffIsNat
        <3>2. (TypeOK /\ StreamsMatch /\ PaceCovered /\ Running)'
            BY <2>3, <3>1 DEF AnswerFailed, End, Goto, history, pacing,
               StreamsMatch, PaceCovered, Running
        <3>3. CountsMatch'
            BY <2>3 DEF AnswerFailed, End, Goto, pacing, CountsMatch
        <3>4. (SendsBounded /\ BudgetIsUsed /\ OneBodyPerDownload)'
            BY <2>3 DEF AnswerFailed, End, Goto, CountsMatch, SendsBounded,
               BudgetIsUsed, OneBodyPerDownload
        <3> QED BY <3>2, <3>3, <3>4
    <2>4. CASE AnswerTooMany(c)
        <3>1. CASE End(c, "ratelimited") /\ UNCHANGED <<timer, retryAfterUsed>>
            BY <2>4, <3>1 DEF AnswerTooMany, End, Goto, history, pacing,
               CountsMatch, StreamsMatch, PaceCovered, Running, SendsBounded,
               BudgetIsUsed, OneBodyPerDownload
        <3>2. CASE ~retryAfterUsed[c] /\ Goto(c, "wait") /\ UNCHANGED result
            <4>1. PICK delay \in RetryAfters :
                     /\ timer' = [timer EXCEPT ![c] = delay]
                     /\ retryAfterUsed' = [retryAfterUsed EXCEPT ![c] = TRUE]
                BY <2>4, <3>2 DEF AnswerTooMany, End, Goto, history
            <4>2. TypeOK' /\ PaceCovered' /\ StreamsMatch' /\ Running'
                BY <2>4, <3>2, <4>1 DEF AnswerTooMany, Goto, history, pacing,
                   PaceCovered, StreamsMatch, Running
            <4>3. CountsMatch'
                BY <2>4, <3>2, <4>1 DEF AnswerTooMany, Goto, history, pacing,
                   CountsMatch
            <4>4. (SendsBounded /\ BudgetIsUsed /\ OneBodyPerDownload)'
                BY <2>4, <3>2, <4>1 DEF AnswerTooMany, Goto, history,
                   SendsBounded, BudgetIsUsed, OneBodyPerDownload
            <4> QED BY <4>2, <4>3, <4>4
        <3> QED BY <2>4, <3>1, <3>2 DEF AnswerTooMany
    <2> QED BY <1>7, <2>1, <2>2, <2>3, <2>4 DEF Answer
<1>8. ASSUME NEW c \in Callers, StreamDone(c) PROVE IInv'
    BY <1>8 DEF StreamDone, End, Goto, history, pacing, call, CountsMatch,
       StreamsMatch, PaceCovered, Running, SendsBounded, BudgetIsUsed,
       OneBodyPerDownload
<1>9. CASE UNCHANGED vars
    BY <1>9 DEF vars, pacing, history, call, CountsMatch, StreamsMatch,
       PaceCovered, Running, SendsBounded, BudgetIsUsed, OneBodyPerDownload
<1> QED
    BY <1>1, <1>2, <1>3, <1>4, <1>5, <1>6, <1>7, <1>8, <1>9 DEF Next, Progress

(* The invariant holds throughout. *)
THEOREM Invariance == Spec => []IInv
BY InitInvariant, StepInvariant, PTL DEF Spec

(* The transport's state has its types (client.go). *)
THEOREM TransportTypes == Spec => []TypeOK
<1>1. IInv => TypeOK
    BY DEF IInv
<1> QED BY <1>1, Invariance, PTL

(* No call sends more than RetryAttempts + 2 requests (client.go send):    *)
(* the wait for a 429 and the retries cannot feed each other.              *)
THEOREM NoRetryStorm == Spec => []SendsBounded
<1>1. IInv => SendsBounded
    BY DEF IInv
<1> QED BY <1>1, Invariance, PTL

(* A call that reports exhausted retries has failed once more than it has  *)
(* retries, or as often as it has retries if it has waited for a 429       *)
(* (client.go send).                                                       *)
THEOREM ExhaustedIsSpent == Spec => []BudgetIsUsed
<1>1. IInv => BudgetIsUsed
    BY DEF IInv
<1> QED BY <1>1, Invariance, PTL

(* However often a download is retried, its writer is handed one body at   *)
(* most (client.go DownloadMeta).                                          *)
THEOREM OneBody == Spec => []OneBodyPerDownload
<1>1. IInv => OneBodyPerDownload
    BY DEF IInv
<1> QED BY <1>1, Invariance, PTL

(* Calls start at least MinInterval apart, for any number of callers       *)
(* (client.go pace): a call leaves pace at once only when the last start   *)
(* is old enough, or holds the mutex until it is.                          *)
THEOREM PaceIsKept == Spec => CallsSpaced
<1>1. ASSUME IInv, Next, NEW c \in Callers,
             pc[c] \in {"pace", "pacing"}, pc'[c] = "send"
      PROVE  paceAge = MinInterval
    <2> USE <1>1, OptionsAreNat DEF IInv, TypeOK
    <2>1. CASE PaceAtOnce(c)
        BY <2>1 DEF PaceAtOnce
    <2>2. CASE PaceDone(c)
        BY <2>2 DEF PaceDone, PaceCovered
    <2>3. ~ \E d \in Callers : Unsent(d) \/ PaceSleep(d) \/ PaceAborted(d)
                               \/ WaitAborted(d) \/ Call(d) \/ Cancel(d)
        BY DEF Unsent, PaceSleep, PaceAborted, WaitAborted, Call, Cancel, End,
           Goto, history
    <2>4. ~ \E d \in Callers : Send(d) \/ Answer(d) \/ StreamDone(d)
        BY DEF Send, Answer, AnswerOK, AnswerRefused, AnswerFailed,
           AnswerTooMany, StreamDone, End, Goto
    <2>5. ~ Tick
        BY DEF Tick
    <2>6. \A d \in Callers : PaceAtOnce(d) \/ PaceDone(d) \/ WaitDone(d) => d = c /\ ~WaitDone(d)
        BY DEF PaceAtOnce, PaceDone, WaitDone, Goto, history
    <2> QED
        BY <2>1, <2>2, <2>3, <2>4, <2>5, <2>6 DEF Next, Pace, Progress, Wake
<1>2. IInv /\ [Next]_vars =>
        [\A c \in Callers :
            pc[c] \in {"pace", "pacing"} /\ pc'[c] = "send" => paceAge = MinInterval]_vars
    BY <1>1
<1> QED BY <1>2, Invariance, PTL DEF Spec, CallsSpaced
=============================================================================
