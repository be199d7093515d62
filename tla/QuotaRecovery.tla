--------------------------- MODULE QuotaRecovery ---------------------------
(***************************************************************************)
(* How a turn survives quota and rate limits (coworker/engine.py): the     *)
(* model loop fails over to the provider's other models, parks while they  *)
(* are all over their limits, and lets the user choose another model while *)
(* it runs.  Tools, streaming and the history are left to SessionTurn.     *)
(***************************************************************************)
EXTENDS Naturals

CONSTANTS
    NumModels,   \* models, numbered in picker order
    Fallback,    \* SessionManager.usable_models
    ProviderOf,  \* the provider of each model
    Budget,      \* COWORKER_QUOTA_WAIT_SECONDS
    NumBackoffs, \* length of _QUOTA_BACKOFF_SEC
    Backoff,     \* _QUOTA_BACKOFF_SEC
    MaxIter,     \* TurnEngine.max_iterations
    MaxTurns,    \* bound: turns
    MaxPicks     \* bound: choices made in the model picker

Model == 1..NumModels
None  == 0

ASSUME QuotaAssumption ==
    /\ NumModels \in Nat \ {0} /\ Fallback \subseteq Model
    /\ Budget \in Nat /\ NumBackoffs \in Nat \ {0}
    /\ Backoff \in [1..NumBackoffs -> Nat \ {0}]
    /\ MaxIter \in Nat /\ MaxTurns \in Nat /\ MaxPicks \in Nat

VARIABLES
    pc,         \* where the model loop stands; "idle" between turns
    model,      \* TurnEngine.model
    requested,  \* TurnEngine._requested_model; its event is set iff there is one
    exhausted,  \* TurnEngine._exhausted_models
    waited,     \* TurnEngine._quota_waited
    attempts,   \* TurnEngine._quota_attempts
    delay,      \* seconds the turn is parked for
    iter,       \* iterations
    cancel,     \* TurnEngine._cancel is set
    replies,    \* answers of the model in this turn (history variable)
    chosen,     \* the user's last choice, until the ladder leaves it (history variable)
    parked,     \* seconds this turn really was parked (history variable)
    woken,      \* waits of this turn a choice cut short (history variable)
    turns, picks

loopVars == <<waited, attempts, delay>>
parkVars == <<parked, woken>>
vars == <<pc, model, requested, exhausted, loopVars, iter, cancel, replies, chosen,
          parkVars, turns, picks>>

Init ==
    /\ pc = "idle" /\ model \in Model /\ requested = None /\ exhausted = {}
    /\ waited = 0 /\ attempts = 0 /\ delay = 0
    /\ iter = 0 /\ cancel = FALSE /\ replies = 0 /\ chosen = None
    /\ parked = 0 /\ woken = 0
    /\ turns = 0 /\ picks = 0

StartTurn ==
    /\ pc = "idle" /\ turns < MaxTurns
    /\ pc' = "top"
    /\ exhausted' = {}
    /\ waited' = 0 /\ attempts' = 0 /\ delay' = 0
    /\ iter' = 0 /\ replies' = 0 /\ cancel' = FALSE
    /\ parked' = 0 /\ woken' = 0
    /\ turns' = turns + 1
    /\ UNCHANGED <<model, requested, chosen, picks>>

\* Mutant: one iteration too many.
LimitPassed == iter > MaxIter

LimitReached == iter >= MaxIter

\* The top of the loop: the iteration limit, then a queued choice is taken.
Top ==
    /\ pc = "top"
    /\ IF LimitReached
       THEN pc' = "idle" /\ UNCHANGED <<iter, model, requested>>
       ELSE /\ pc' = "calling"
            /\ iter' = iter + 1
            /\ model' = IF requested = None THEN model ELSE requested
            /\ requested' = None
    /\ UNCHANGED <<exhausted, loopVars, cancel, replies, chosen, parkVars, turns, picks>>

\* The model answers: the turn is over, or tool calls or a steered message keep the
\* loop going.
Reply ==
    /\ pc = "calling"
    /\ replies' = replies + 1
    /\ pc' \in {"idle", "top"}
    /\ UNCHANGED <<model, requested, exhausted, loopVars, iter, cancel, chosen, parkVars,
                   turns, picks>>

\* Mutant: a failover uses up an iteration.
GoOn == pc' = "top" /\ UNCHANGED iter

\* "a failover must not eat the turn's budget".
TryAgain == pc' = "top" /\ iter' = iter - 1

\* Mutant: the ladder does not look at what failed.
AnyOfProvider == {m \in Fallback : ProviderOf[m] = ProviderOf[model]}

\* _next_model: the provider's first model that has not failed in this round.
Ladder == {m \in Fallback : ProviderOf[m] = ProviderOf[model] /\ m \notin exhausted'}
First(m, S) == m \in S /\ \A n \in S : m <= n

\* A user's choice wins over the ladder.
Failover ==
    \/ /\ requested # None
       /\ model' = requested
       /\ requested' = None
       /\ UNCHANGED chosen
    \/ /\ requested = None
       /\ \E m \in Model : First(m, Ladder) /\ model' = m
       /\ chosen' = None
       /\ UNCHANGED requested

\* Mutant: the wait is not cut to what is left of the budget.
FullDelay == Backoff[IF attempts < NumBackoffs THEN attempts + 1 ELSE NumBackoffs]

\* The next backoff, cut to what is left of the budget.
Delay ==
    LET step == Backoff[IF attempts < NumBackoffs THEN attempts + 1 ELSE NumBackoffs]
    IN  IF waited + step <= Budget THEN step ELSE Budget - waited

\* _wait_for_capacity: park, or give up.
WaitForCapacity ==
    IF waited >= Budget
    THEN pc' = "idle" /\ UNCHANGED delay
    ELSE pc' = "parked" /\ delay' = Delay

\* The call fails before anything was streamed: _recover_from_model_error.
Fail(kind) ==
    /\ pc = "calling"
    /\ exhausted' = IF kind \in {"quota", "no_access"} THEN exhausted \cup {model}
                                                       ELSE exhausted
    /\ \/ /\ kind \in {"quota", "no_access"}
          /\ Failover
          /\ TryAgain
          /\ UNCHANGED delay
       \/ /\ kind = "rate_limit" \/ (kind = "quota" /\ requested = None /\ Ladder = {})
          /\ WaitForCapacity
          /\ UNCHANGED <<model, requested, chosen, iter>>
       \/ /\ kind = "other" \/ (kind = "no_access" /\ requested = None /\ Ladder = {})
          /\ pc' = "idle"
          /\ UNCHANGED <<model, requested, chosen, iter, delay>>
    /\ UNCHANGED <<waited, attempts, cancel, replies, parkVars, turns, picks>>

\* Stop reached the stream, or the provider failed after the first token.
CallEnds ==
    /\ pc = "calling"
    /\ pc' = "idle"
    /\ UNCHANGED <<model, requested, exhausted, loopVars, iter, cancel, replies, chosen,
                   parkVars, turns, picks>>

AccountWait == waited' = waited + delay /\ attempts' = attempts + 1

\* Stop and a choice end a wait at any moment of it.
CutShort == \E seconds \in 0..delay : parked' = parked + seconds

\* The wait is over: stopped, woken by a choice, or the delay has passed.  Only that
\* last one is taken off the budget, as in the code.
Wake ==
    /\ pc = "parked"
    /\ \/ /\ cancel
          /\ pc' = "idle"
          /\ CutShort
          /\ UNCHANGED <<exhausted, waited, attempts, iter, woken>>
       \/ /\ ~cancel /\ requested # None
          /\ TryAgain
          /\ exhausted' = {}
          /\ CutShort
          /\ woken' = woken + 1
          /\ UNCHANGED <<waited, attempts>>
       \/ /\ TryAgain
          /\ exhausted' = {}
          /\ AccountWait
          /\ parked' = parked + delay
          /\ UNCHANGED woken
    /\ UNCHANGED <<model, requested, delay, cancel, replies, chosen, turns, picks>>

Stop ==
    /\ cancel' = TRUE
    /\ UNCHANGED <<pc, model, requested, exhausted, loopVars, iter, replies, chosen,
                   parkVars, turns, picks>>

\* The model picker: request_model_switch during a turn, switch_model between turns.
Pick(m) ==
    /\ picks < MaxPicks
    /\ IF pc = "idle"
       THEN m # model /\ model' = m /\ UNCHANGED <<requested, exhausted>>
       ELSE /\ m # (IF requested = None THEN model ELSE requested)
            /\ requested' = m
            /\ exhausted' = exhausted \ {m}
            /\ UNCHANGED model
    /\ chosen' = m
    /\ picks' = picks + 1
    /\ UNCHANGED <<pc, loopVars, iter, cancel, replies, parkVars, turns>>

Kind == {"quota", "no_access", "rate_limit", "other"}
Step == Top \/ Reply \/ (\E k \in Kind : Fail(k)) \/ CallEnds \/ Wake
Next == StartTurn \/ Step \/ Stop \/ \E m \in Model : Pick(m)

Spec == Init /\ [][Next]_vars

\* A provider call returns or fails, and a wait's timer goes off.
FairSpec == Spec /\ WF_vars(Step)

-----------------------------------------------------------------------------
(* Properties.                                                             *)

\* Every variable has its type.
TypeOK ==
    /\ pc \in {"idle", "top", "calling", "parked"}
    /\ model \in Model /\ requested \in Model \cup {None} /\ exhausted \subseteq Model
    /\ waited \in Nat /\ attempts \in Nat /\ delay \in Nat
    /\ iter \in 0..MaxIter /\ cancel \in BOOLEAN /\ replies \in Nat
    /\ chosen \in Model \cup {None}
    /\ parked \in Nat /\ woken \in Nat
    /\ turns \in 0..MaxTurns /\ picks \in 0..MaxPicks

\* The seconds a turn has been parked, and those of the wait under way.
ParkedFor == parked + (IF pc = "parked" THEN delay ELSE 0)

\* Left alone, a turn is parked for no longer than the budget in all, and every wait
\* the user cuts short by choosing a model buys it one more budget at most: what
\* such a wait took is not accounted.  A wait that is begun is a real one.
WaitBounded ==
    /\ ParkedFor <= Budget * (woken + 1)
    /\ pc = "parked" => delay > 0

\* "a failover must not eat the turn's budget": however often the turn failed over
\* or waited, its iterations are the answers it got, and the call under way.
RepliesCounted ==
    /\ pc = "top" => iter = replies
    /\ pc \in {"calling", "parked"} => iter = replies + 1

\* In one round a model that failed is called again only if the user chose it, until
\* the next choice is queued.
NoRetryOfExhausted ==
    pc = "calling" /\ requested = None /\ model \in exhausted => model = chosen

\* A turn ends, whatever the provider does: failures cannot keep it going for ever.
TurnEnds == pc # "idle" ~> pc = "idle"
=============================================================================
