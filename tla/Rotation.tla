------------------------------ MODULE Rotation ------------------------------
(***************************************************************************)
(* Instance rotation: the Chooser (sdk/chooser.go) and the loop over it    *)
(* that every Nitter fetch runs (withInstance in                           *)
(* internal/nitter/appapi/timeline.go, and its copies in search.go,        *)
(* list.go and status.go).                                                 *)
(*                                                                         *)
(* A caller goes through its work, one fetch after the other, pauses and   *)
(* starts again, as a resident watch does; several callers may share one   *)
(* Chooser, whose operations are atomic (its mutex).  A fetch fails at an  *)
(* instance that is down, and everywhere when nobody has what it asks for. *)
(* Time passes in ticks, and only while a caller waits for something.      *)
(***************************************************************************)
EXTENDS Integers, Sequences

CONSTANTS
    N,              \* configured instances, all different
    Cooldown,       \* instance_cooldown in ticks; 0 never blocks a pick
    Callers,
    Refs,           \* what may be fetched
    Missing,        \* of it, what no instance has (a 404, a protected account)
    Work,           \* Work[c]: what c fetches, in order
    Interval,       \* ticks a caller pauses after its work
    MaxAttempt,     \* bound: ticks an attempt at one instance takes
    MaxOutages      \* bound: outages in all

ASSUME RotationAssumption ==
    /\ N \in Nat \ {0}
    /\ {Cooldown, Interval, MaxAttempt, MaxOutages} \subseteq Nat
    /\ Work \in [Callers -> Seq(Refs) \ {<<>>}]
    /\ Missing \subseteq Refs

(* An instance is its place in configuration order. *)
Instances == 1..N

VARIABLES
    cool,           \* ticks until an instance may be picked again
    pc,             \* what a caller does next
    turn,           \* position in the caller's work
    base,           \* the instance of the attempt
    tried,          \* instances this call has attempted
    lastErr,        \* an attempt of this call has failed
    clock,          \* ticks the attempt or the pause has taken
    up,             \* the instance answers
    outages,        \* outages so far
    outcome,        \* how the caller's last call ended
    sick            \* the last attempt that ended at the instance failed

loop  == <<turn, base, tried, lastErr>>
world == <<up, outages>>
vars  == <<cool, pc, loop, clock, world, outcome, sick>>

MaxClock == IF Interval > MaxAttempt THEN Interval ELSE MaxAttempt

TypeOK ==
    /\ cool \in [Instances -> 0..Cooldown]
    /\ pc \in [Callers -> {"begin", "pick", "attempt", "pause"}]
    /\ turn \in [Callers -> Nat]
    /\ \A c \in Callers : turn[c] \in DOMAIN Work[c]
    /\ base \in [Callers -> Instances]
    /\ tried \in [Callers -> SUBSET Instances]
    /\ lastErr \in [Callers -> BOOLEAN]
    /\ clock \in [Callers -> 0..MaxClock]
    /\ up \in [Instances -> BOOLEAN] /\ outages \in 0..MaxOutages
    /\ outcome \in [Callers -> {"none", "ok", "failed", "cooling", "aborted"}]
    /\ sick \in [Instances -> BOOLEAN]

-----------------------------------------------------------------------------
(* The world. *)

Fails(i) ==
    /\ up[i] /\ outages < MaxOutages
    /\ up' = [up EXCEPT ![i] = FALSE] /\ outages' = outages + 1
    /\ UNCHANGED <<cool, pc, loop, clock, outcome, sick>>

Recovers(i) ==
    /\ ~up[i]
    /\ up' = [up EXCEPT ![i] = TRUE]
    /\ UNCHANGED <<cool, pc, loop, clock, outages, outcome, sick>>

(* Neither the loop nor the marks take time; an attempt ends by its        *)
(* time-out at the latest.                                                 *)
Tick ==
    /\ \A c \in Callers :
          \/ pc[c] = "attempt" /\ clock[c] < MaxAttempt
          \/ pc[c] = "pause" /\ clock[c] < Interval
    /\ cool' = [i \in Instances |-> IF cool[i] > 0 THEN cool[i] - 1 ELSE 0]
    /\ clock' = [c \in Callers |-> clock[c] + 1]
    /\ UNCHANGED <<pc, loop, world, outcome, sick>>

-----------------------------------------------------------------------------
(* The Chooser. *)

(* Pick: the first instance in order that is not cooling down. *)
Pickable == {i \in Instances : cool[i] = 0}

Picked(i) == i \in Pickable /\ \A j \in Pickable : i =< j

(* Faulty variant: a success leaves the cooldown alone. *)
ResetNothing(i) == UNCHANGED cool

(* markSuccess *)
Reset(i) == cool' = [cool EXCEPT ![i] = 0]

(* markFailure *)
Cool(i) == cool' = [cool EXCEPT ![i] = Cooldown]

-----------------------------------------------------------------------------
(* withInstance. *)

Goto(c, there) == pc' = [pc EXCEPT ![c] = there]

(* Faulty variant: what an earlier call tried is not forgotten. *)
BeginStale(c) ==
    /\ pc[c] = "begin"
    /\ lastErr' = [lastErr EXCEPT ![c] = FALSE]
    /\ outcome' = [outcome EXCEPT ![c] = "none"]
    /\ Goto(c, "pick")
    /\ UNCHANGED <<cool, turn, base, tried, clock, world, sick>>

Begin(c) ==
    /\ pc[c] = "begin"
    /\ tried' = [tried EXCEPT ![c] = {}]
    /\ lastErr' = [lastErr EXCEPT ![c] = FALSE]
    /\ outcome' = [outcome EXCEPT ![c] = "none"]
    /\ Goto(c, "pick")
    /\ UNCHANGED <<cool, turn, base, clock, world, sick>>

(* Faulty variant: the last piece of work has a successor. *)
ReturnOneMore(c, how) ==
    /\ outcome' = [outcome EXCEPT ![c] = how]
    /\ clock' = [clock EXCEPT ![c] = 0]
    /\ turn' = [turn EXCEPT ![c] = @ + 1]
    /\ Goto(c, IF turn[c] =< Len(Work[c]) THEN "begin" ELSE "pause")
    /\ UNCHANGED <<base, tried, lastErr, world>>

(* The call ends; the caller turns to its next piece of work. *)
Return(c, how) ==
    /\ outcome' = [outcome EXCEPT ![c] = how]
    /\ clock' = [clock EXCEPT ![c] = 0]
    /\ IF turn[c] < Len(Work[c])
       THEN turn' = [turn EXCEPT ![c] = @ + 1] /\ Goto(c, "begin")
       ELSE turn' = [turn EXCEPT ![c] = 1] /\ Goto(c, "pause")
    /\ UNCHANGED <<base, tried, lastErr, world>>

Resume(c) ==
    /\ pc[c] = "pause" /\ clock[c] = Interval
    /\ Goto(c, "begin")
    /\ clock' = [clock EXCEPT ![c] = 0]
    /\ UNCHANGED <<cool, loop, world, outcome, sick>>

(* Faulty variant: a call that has attempted nobody waits for a cooldown. *)
AllCoolingWaits(c) ==
    /\ pc[c] = "pick" /\ Pickable = {} /\ lastErr[c]
    /\ Return(c, "failed")
    /\ UNCHANGED <<cool, sick>>

(* Pick finds nobody: an earlier attempt's error is the better report. *)
AllCooling(c) ==
    /\ pc[c] = "pick" /\ Pickable = {}
    /\ Return(c, IF lastErr[c] THEN "failed" ELSE "cooling")
    /\ UNCHANGED <<cool, sick>>

(* Pick repeats an instance this call has attempted. *)
Repeated(c) ==
    /\ pc[c] = "pick"
    /\ \E i \in tried[c] : Picked(i)
    /\ Return(c, "failed")
    /\ UNCHANGED <<cool, sick>>

Attempt(c, i) ==
    /\ base' = [base EXCEPT ![c] = i]
    /\ tried' = [tried EXCEPT ![c] = @ \cup {i}]
    /\ Goto(c, "attempt")
    /\ UNCHANGED <<cool, turn, lastErr, clock, world, outcome, sick>>

Try(c) ==
    /\ pc[c] = "pick"
    /\ \E i \in Instances \ tried[c] : Picked(i) /\ Attempt(c, i)

Succeed(c) ==
    /\ pc[c] = "attempt" /\ up[base[c]] /\ Work[c][turn[c]] \notin Missing
    /\ Reset(base[c])
    /\ sick' = [sick EXCEPT ![base[c]] = FALSE]
    /\ Return(c, "ok")

(* Faulty variant: a failure is not marked. *)
FailUnmarked(c) ==
    /\ pc[c] = "attempt" /\ (~up[base[c]] \/ Work[c][turn[c]] \in Missing)
    /\ sick' = [sick EXCEPT ![base[c]] = TRUE]
    /\ lastErr' = [lastErr EXCEPT ![c] = TRUE]
    /\ clock' = [clock EXCEPT ![c] = 0]
    /\ Goto(c, "pick")
    /\ UNCHANGED <<cool, turn, base, tried, world, outcome>>

(* Any error but the caller's own giving up marks the instance. *)
Fail(c) ==
    /\ pc[c] = "attempt" /\ (~up[base[c]] \/ Work[c][turn[c]] \in Missing)
    /\ Cool(base[c])
    /\ sick' = [sick EXCEPT ![base[c]] = TRUE]
    /\ lastErr' = [lastErr EXCEPT ![c] = TRUE]
    /\ clock' = [clock EXCEPT ![c] = 0]
    /\ Goto(c, "pick")
    /\ UNCHANGED <<turn, base, tried, world, outcome>>

(* The caller's context ends: no mark, no further instance. *)
GiveUp(c) ==
    /\ pc[c] \in {"pick", "attempt"}
    /\ Return(c, "aborted")
    /\ UNCHANGED <<cool, sick>>

-----------------------------------------------------------------------------
Init ==
    /\ cool = [i \in Instances |-> 0]
    /\ pc = [c \in Callers |-> "begin"]
    /\ turn = [c \in Callers |-> 1]
    /\ base = [c \in Callers |-> 1]
    /\ tried = [c \in Callers |-> {}]
    /\ lastErr = [c \in Callers |-> FALSE]
    /\ clock = [c \in Callers |-> 0]
    /\ up = [i \in Instances |-> TRUE] /\ outages = 0
    /\ outcome = [c \in Callers |-> "none"]
    /\ sick = [i \in Instances |-> FALSE]

Step(c) ==
    \/ Begin(c) \/ AllCooling(c) \/ Repeated(c) \/ Try(c)
    \/ Succeed(c) \/ Fail(c) \/ Resume(c)

Next ==
    \/ Tick
    \/ \E i \in Instances : Fails(i) \/ Recovers(i)
    \/ \E c \in Callers : Step(c) \/ GiveUp(c)

Spec == Init /\ [][Next]_vars

(* Every caller keeps going and attempts end.  Giving up is never forced:  *)
(* fairness on the rest lets a caller give up at most as often as it does. *)
Fairness == WF_vars(Tick) /\ \A c \in Callers : WF_vars(Step(c))

FairSpec == Spec /\ Fairness

-----------------------------------------------------------------------------
(* Properties. *)

Ends(c, how) == outcome[c] = "none" /\ outcome'[c] = how

(* Documented (timeline.go withInstance): a call reports failure only when *)
(* every configured instance has been attempted or is cooling down.  The   *)
(* exception is another caller that has put an attempted instance back in  *)
(* front: Pick repeats it before the others were tried.                    *)
AllAttempted ==
    [][\A c \in Callers : Ends(c, "failed") =>
          \/ \A i \in Instances : i \in tried[c] \/ cool[i] > 0
          \/ \E i \in tried[c] : cool[i] = 0 /\ ~sick[i]]_vars

(* A call is refused without an attempt only when the last thing known of  *)
(* every instance is a failure (chooser.go Pick and its two marks, which   *)
(* concurrent callers apply in any order).                                 *)
RefusalJustified ==
    [][\A c \in Callers : Ends(c, "cooling") => \A i \in Instances : sick[i]]_vars

(* Behind it: whoever is cooling has failed since it last succeeded. *)
CoolingIsSick == \A i \in Instances : cool[i] > 0 => sick[i]

(* Every call ends (timeline.go withInstance).                             *)
CallsEnd == \A c \in Callers : pc[c] # "pause" ~> pc[c] = "pause"

(* Failover: an instance that stays up serves everything that exists,      *)
(* again and again, unless the callers give up (timeline.go withInstance). *)
Serves(c, ref) == outcome'[c] = "ok" /\ outcome[c] = "none" /\ Work[c][turn[c]] = ref

Served ==
    \A c \in Callers : \A k \in DOMAIN Work[c] :
        (<>[](\E i \in Instances : up[i]) /\ Work[c][k] \notin Missing)
            => []<><<Serves(c, Work[c][k]) \/ outcome'[c] = "aborted">>_vars

=============================================================================
