------------------------ MODULE QuotaRecovery_proofs ------------------------
(***************************************************************************)
(* Theorems about QuotaRecovery, for every ladder of models, budget and    *)
(* backoff sequence.                                                       *)
(***************************************************************************)
EXTENDS QuotaRecovery, TLAPS

-----------------------------------------------------------------------------
(* The wait.                                                               *)

\* A backoff is a positive number of seconds.
LEMMA BackoffType ==
    ASSUME NEW n \in Nat
    PROVE  Backoff[IF n < NumBackoffs THEN n + 1 ELSE NumBackoffs] \in Nat \ {0}
<1>1. (IF n < NumBackoffs THEN n + 1 ELSE NumBackoffs) \in 1..NumBackoffs
  BY QuotaAssumption
<1>2. QED
  BY <1>1, QuotaAssumption

\* While some of the budget is left, the next delay is positive and fits in it.
LEMMA DelayFits ==
    ASSUME waited \in Nat, attempts \in Nat, waited < Budget
    PROVE  Delay \in Nat /\ Delay > 0 /\ waited + Delay <= Budget
<1> DEFINE step == Backoff[IF attempts < NumBackoffs THEN attempts + 1 ELSE NumBackoffs]
<1>1. step \in Nat /\ step > 0
  BY BackoffType
<1>2. Delay = IF waited + step <= Budget THEN step ELSE Budget - waited
  BY DEF Delay
<1> HIDE DEF step
<1>3. QED
  BY <1>1, <1>2, QuotaAssumption

-----------------------------------------------------------------------------
(* The inductive invariant: the types need the iteration counter, which    *)
(* TryAgain decrements, to be positive, and a queued choice has to be the  *)
(* user's last one, unless it was queued in an earlier turn: that one is   *)
(* taken before any model has failed.                                      *)

QueuedIsChosen ==
    requested # None => \/ requested = chosen
                        \/ pc = "idle"
                        \/ pc = "top" /\ exhausted = {}

CalledAfresh ==
    pc \in {"top", "calling"} /\ requested = None /\ model \in exhausted => model = chosen

\* What n waits cut short can cost.
Bought(n) == Budget * n

\* The budget covers the waits that ran their time; the ones cut short fit in what
\* they bought.
Accounted ==
    /\ waited <= Budget
    /\ pc = "parked" => delay > 0 /\ waited + delay <= Budget
    /\ parked <= Bought(woken) + (IF pc = "idle" THEN Budget ELSE waited)

Inv == TypeOK /\ Accounted /\ RepliesCounted /\ QueuedIsChosen /\ CalledAfresh

\* One more wait cut short buys one more budget.
LEMMA OneMoreBudget ==
    ASSUME NEW n \in Nat
    PROVE  Bought(n) \in Nat /\ Bought(n + 1) = Bought(n) + Budget /\ Bought(0) = 0
BY QuotaAssumption DEF Bought

\* Steps that end no wait leave the account alone.
LEMMA AccountKept ==
    ASSUME Inv, UNCHANGED <<waited, parkVars>>, pc = "idle" => pc' = "idle",
           pc' = "parked" => delay' > 0 /\ waited + delay' <= Budget
    PROVE  Accounted'
<1>1. Bought(woken)' = Bought(woken) /\ waited' = waited /\ parked' = parked
  BY DEF Bought, parkVars
<1>2. Bought(woken) \in Nat
  BY OneMoreBudget DEF Inv, TypeOK
<1>3. parked' <= Bought(woken)' + (IF pc' = "idle" THEN Budget ELSE waited')
  BY <1>1, <1>2, QuotaAssumption DEF Inv, TypeOK, Accounted
<1>4. QED
  BY <1>1, <1>3 DEF Inv, Accounted

\* A new session satisfies the invariant.
LEMMA InitInv == Init => Inv
<1> SUFFICES ASSUME Init PROVE Inv
  OBVIOUS
<1>1. 0 \in 0..MaxIter /\ 0 \in 0..MaxTurns /\ 0 \in 0..MaxPicks
  BY QuotaAssumption
<1>2. cancel \in BOOLEAN
  BY DEF Init
<1>3. TypeOK
  BY <1>1, <1>2 DEF Init, TypeOK, None
<1>4. Accounted
  BY QuotaAssumption, OneMoreBudget DEF Init, Accounted
<1>5. RepliesCounted /\ QueuedIsChosen /\ CalledAfresh
  BY DEF Init, RepliesCounted, QueuedIsChosen, CalledAfresh
<1>6. QED
  BY <1>3, <1>4, <1>5 DEF Inv

\* A turn that starts forgets the round before it.
LEMMA StartInv == Inv /\ StartTurn => Inv'
<1> SUFFICES ASSUME Inv, StartTurn PROVE Inv'
  OBVIOUS
<1>1. 0 \in 0..MaxIter /\ turns' \in 0..MaxTurns
  BY QuotaAssumption DEF Inv, TypeOK, StartTurn
<1>2. cancel' \in BOOLEAN
  BY DEF StartTurn
<1>3. TypeOK'
  BY <1>1, <1>2 DEF Inv, TypeOK, StartTurn
<1>4. Accounted'
  <2>1. parked' = 0 /\ woken' = 0 /\ waited' = 0 /\ pc' = "top"
    BY DEF StartTurn
  <2>2. Bought(woken)' = 0
    BY <2>1, OneMoreBudget DEF Bought
  <2>3. QED
    BY <2>1, <2>2, QuotaAssumption DEF Accounted
<1>5. RepliesCounted' /\ QueuedIsChosen' /\ CalledAfresh'
  BY DEF Inv, StartTurn, RepliesCounted, QueuedIsChosen, CalledAfresh
<1>6. QED
  BY <1>3, <1>4, <1>5 DEF Inv

\* The iteration limit and the queued choice.
LEMMA TopInv == Inv /\ Top => Inv'
<1> SUFFICES ASSUME Inv, Top PROVE Inv'
  OBVIOUS
<1>1. Accounted'
  BY AccountKept DEF Top, loopVars
<1>2. (TypeOK /\ RepliesCounted /\ QueuedIsChosen /\ CalledAfresh)'
  BY QuotaAssumption
  DEF Inv, TypeOK, RepliesCounted, QueuedIsChosen, CalledAfresh, None, Model,
      Top, LimitReached, loopVars, parkVars
<1>3. QED
  BY <1>1, <1>2 DEF Inv

\* An answer of the model.
LEMMA ReplyInv == Inv /\ Reply => Inv'
<1> SUFFICES ASSUME Inv, Reply PROVE Inv'
  OBVIOUS
<1>1. Accounted'
  BY AccountKept DEF Reply, loopVars
<1>2. (TypeOK /\ RepliesCounted /\ QueuedIsChosen /\ CalledAfresh)'
  BY DEF Inv, TypeOK, RepliesCounted, QueuedIsChosen, CalledAfresh, None,
         Reply, loopVars, parkVars
<1>3. QED
  BY <1>1, <1>2 DEF Inv

\* A call that failed.
LEMMA FailInv ==
    ASSUME Inv, NEW kind \in Kind, Fail(kind)
    PROVE  Inv'
<1>1. exhausted' \subseteq Model
  BY DEF Inv, TypeOK, Fail
<1>2. pc' # "parked" => Accounted'
  BY AccountKept DEF Fail
<1>3. CASE Failover /\ TryAgain /\ UNCHANGED delay
  <2>1. iter' = replies' /\ iter' \in 0..MaxIter /\ pc' = "top"
    BY <1>3, QuotaAssumption DEF Inv, TypeOK, RepliesCounted, TryAgain, Fail
  <2>2. CASE requested # None /\ model' = requested /\ requested' = None
             /\ UNCHANGED chosen
    BY <1>1, <1>2, <1>3, <2>1, <2>2
    DEF Inv, TypeOK, RepliesCounted, QueuedIsChosen, CalledAfresh, None,
        Fail, TryAgain, parkVars
  <2>3. CASE requested = None /\ (\E m \in Model : First(m, Ladder) /\ model' = m)
             /\ chosen' = None /\ UNCHANGED requested
    <3>1. model' \in Model /\ model' \notin exhausted'
      BY <2>3 DEF First, Ladder
    <3>2. QED
      BY <1>1, <1>2, <1>3, <2>1, <2>3, <3>1
      DEF Inv, TypeOK, RepliesCounted, QueuedIsChosen, CalledAfresh, None,
          Fail, TryAgain, parkVars
  <2>4. QED
    BY <1>3, <2>2, <2>3 DEF Failover
<1>4. CASE WaitForCapacity /\ UNCHANGED <<model, requested, chosen, iter>>
  <2>1. CASE waited >= Budget
    BY <1>1, <1>2, <1>4, <2>1
    DEF Inv, TypeOK, RepliesCounted, QueuedIsChosen, CalledAfresh, None,
        Fail, WaitForCapacity, parkVars
  <2>2. CASE ~(waited >= Budget)
    <3>1. Delay \in Nat /\ Delay > 0 /\ waited + Delay <= Budget
      BY <2>2, DelayFits, QuotaAssumption DEF Inv, TypeOK
    <3>2. pc' = "parked" /\ delay' = Delay
      BY <1>4, <2>2 DEF WaitForCapacity
    <3> HIDE DEF Delay
    <3>3. Accounted'
      BY <3>1, <3>2, AccountKept DEF Fail
    <3>4. QED
      BY <1>1, <1>4, <3>1, <3>2, <3>3
      DEF Inv, TypeOK, RepliesCounted, QueuedIsChosen, CalledAfresh, None, Fail,
      parkVars
  <2>3. QED
    BY <2>1, <2>2
<1>5. CASE pc' = "idle" /\ UNCHANGED <<model, requested, chosen, iter, delay>>
  BY <1>1, <1>2, <1>5
  DEF Inv, TypeOK, RepliesCounted, QueuedIsChosen, CalledAfresh, None, Fail,
      parkVars
<1>6. QED
  BY <1>3, <1>4, <1>5 DEF Fail

\* Stop, or a failure in the middle of a stream.
LEMMA EndsInv == Inv /\ CallEnds => Inv'
<1> SUFFICES ASSUME Inv, CallEnds PROVE Inv'
  OBVIOUS
<1>1. Accounted'
  BY AccountKept DEF CallEnds, loopVars
<1>2. (TypeOK /\ RepliesCounted /\ QueuedIsChosen /\ CalledAfresh)'
  BY DEF Inv, TypeOK, RepliesCounted, QueuedIsChosen, CalledAfresh, None,
         CallEnds, loopVars, parkVars
<1>3. QED
  BY <1>1, <1>2 DEF Inv

\* The end of a wait.
LEMMA WakeInv == Inv /\ Wake => Inv'
<1> SUFFICES ASSUME Inv, Wake PROVE Inv'
  OBVIOUS
<1>1. pc = "parked" /\ delay' = delay
      /\ UNCHANGED <<model, requested, cancel, replies, chosen, turns, picks>>
  BY DEF Wake
<1>2. /\ Bought(woken) \in Nat /\ Bought(woken + 1) = Bought(woken) + Budget
      /\ Bought(woken)' = Bought(woken')
  BY OneMoreBudget DEF Inv, TypeOK, Bought
<1>3. /\ (pc' = "idle" /\ iter' = iter) \/ TryAgain
      /\ exhausted' = exhausted \/ exhausted' = {}
      /\ pc' = "idle" \/ exhausted' = {}
  BY DEF Wake
<1>4. (TypeOK /\ Accounted)'
  <2>1. CASE pc' = "idle" /\ CutShort /\ UNCHANGED <<waited, attempts, woken>>
    BY <1>1, <1>2, <1>3, <2>1, QuotaAssumption
    DEF Inv, TypeOK, Accounted, RepliesCounted, CutShort, TryAgain
  <2>2. CASE TryAgain /\ CutShort /\ woken' = woken + 1 /\ UNCHANGED <<waited, attempts>>
    BY <1>1, <1>2, <1>3, <2>2, QuotaAssumption
    DEF Inv, TypeOK, Accounted, RepliesCounted, CutShort, TryAgain
  <2>3. CASE TryAgain /\ AccountWait /\ parked' = parked + delay /\ UNCHANGED woken
    BY <1>1, <1>2, <1>3, <2>3, QuotaAssumption
    DEF Inv, TypeOK, Accounted, RepliesCounted, AccountWait, TryAgain
  <2>4. QED
    BY <1>1, <2>1, <2>2, <2>3 DEF Wake
<1>5. (RepliesCounted /\ QueuedIsChosen /\ CalledAfresh)'
  BY <1>1, <1>3
  DEF Inv, TypeOK, RepliesCounted, QueuedIsChosen, CalledAfresh, None, TryAgain
<1>6. QED
  BY <1>4, <1>5 DEF Inv

\* The user's Stop and choices.
LEMMA UserInv == Inv /\ (Stop \/ \E m \in Model : Pick(m)) => Inv'
<1> SUFFICES ASSUME Inv, Stop \/ \E m \in Model : Pick(m) PROVE Inv'
  OBVIOUS
<1>1. CASE Stop
  <2>1. cancel' \in BOOLEAN
    BY <1>1 DEF Stop
  <2>2. Accounted'
    BY <1>1, AccountKept DEF Stop, loopVars, Inv, Accounted
  <2>3. QED
    BY <1>1, <2>1, <2>2
    DEF Inv, TypeOK, RepliesCounted, QueuedIsChosen, CalledAfresh, Stop, loopVars, parkVars
<1>2. ASSUME NEW m \in Model, Pick(m) PROVE Inv'
  <2>1. m # None
    BY DEF Model, None
  <2>2. picks' \in 0..MaxPicks
    BY <1>2, QuotaAssumption DEF Inv, TypeOK, Pick
  <2>3. Accounted'
    BY <1>2, AccountKept DEF Pick, loopVars, Inv, Accounted
  <2>4. CASE pc = "idle"
    BY <1>2, <2>1, <2>2, <2>3, <2>4
    DEF Inv, TypeOK, RepliesCounted, QueuedIsChosen, CalledAfresh, Pick, loopVars, parkVars
  <2>5. CASE pc # "idle"
    BY <1>2, <2>1, <2>2, <2>3, <2>5
    DEF Inv, TypeOK, RepliesCounted, QueuedIsChosen, CalledAfresh, Pick, loopVars, parkVars
  <2>6. QED
    BY <2>4, <2>5
<1>3. QED
  BY <1>1, <1>2

\* The invariant is inductive.
LEMMA StepInv == Inv /\ [Next]_vars => Inv'
<1> SUFFICES ASSUME Inv, [Next]_vars PROVE Inv'
  OBVIOUS
<1>1. CASE StartTurn
  BY <1>1, StartInv
<1>2. CASE Top
  BY <1>2, TopInv
<1>3. CASE Reply
  BY <1>3, ReplyInv
<1>4. CASE \E k \in Kind : Fail(k)
  BY <1>4, FailInv
<1>5. CASE CallEnds
  BY <1>5, EndsInv
<1>6. CASE Wake
  BY <1>6, WakeInv
<1>7. CASE Stop \/ \E m \in Model : Pick(m)
  BY <1>7, UserInv
<1>8. CASE UNCHANGED vars
  <2>1. Accounted'
    BY <1>8, AccountKept DEF vars, loopVars, Inv, Accounted
  <2>2. QED
    BY <1>8, <2>1
    DEF Inv, TypeOK, RepliesCounted, QueuedIsChosen, CalledAfresh, vars, loopVars, parkVars
<1>9. QED
  BY <1>1, <1>2, <1>3, <1>4, <1>5, <1>6, <1>7, <1>8 DEF Next, Step

\* It holds in every reachable state.
LEMMA Invariance == Spec => []Inv
BY InitInv, StepInv, PTL DEF Spec

-----------------------------------------------------------------------------
(* What follows from it.                                                   *)

\* Left alone a turn is never parked beyond COWORKER_QUOTA_WAIT_SECONDS, and beyond
\* one more of it for every wait a choice of model cut short: for every budget, zero
\* included, and every sequence of backoffs.
THEOREM WaitBoundedCorrect == Spec => []WaitBounded
<1>1. Inv => WaitBounded
  <2> SUFFICES ASSUME Inv PROVE WaitBounded
    OBVIOUS
  <2>1. Bought(woken) \in Nat /\ Budget * (woken + 1) = Bought(woken) + Budget
    BY OneMoreBudget DEF Inv, TypeOK, Bought
  <2>2. CASE pc = "parked"
    <3>1. parked + delay <= Bought(woken) + Budget /\ delay > 0
      BY <2>1, <2>2, QuotaAssumption DEF Inv, TypeOK, Accounted
    <3>2. QED
      BY <2>1, <2>2, <3>1 DEF WaitBounded, ParkedFor
  <2>3. CASE pc # "parked"
    <3>1. parked + 0 <= Bought(woken) + Budget
      BY <2>1, QuotaAssumption DEF Inv, TypeOK, Accounted
    <3>2. QED
      BY <2>1, <2>3, <3>1 DEF WaitBounded, ParkedFor
  <2>4. QED
    BY <2>2, <2>3
<1>2. QED
  BY <1>1, Invariance, PTL

\* However often a turn fails over or waits, only answered calls use up iterations.
THEOREM RepliesCountedCorrect == Spec => []RepliesCounted
<1>1. Inv => RepliesCounted
  BY DEF Inv
<1>2. QED
  BY <1>1, Invariance, PTL

\* The ladder never goes back to a model that failed in the same round.
THEOREM NoRetryCorrect == Spec => []NoRetryOfExhausted
<1>1. Inv => NoRetryOfExhausted
  BY DEF Inv, CalledAfresh, NoRetryOfExhausted
<1>2. QED
  BY <1>1, Invariance, PTL

\* Every variable keeps its type; the iterations never exceed the limit, whatever
\* fails and is tried again.
THEOREM TypeCorrect == Spec => []TypeOK
<1>1. Inv => TypeOK
  BY DEF Inv
<1>2. QED
  BY <1>1, Invariance, PTL

-----------------------------------------------------------------------------
(* Why a turn ends: the part of TurnEnds that is no liveness.  Every step  *)
(* of the loop gets nearer to its end in this order: a queued choice is    *)
(* taken, an answer counted, a wait accounted, one more model has failed,  *)
(* a failed model is left, the call or the wait is begun.  Inv bounds each *)
(* of them (replies <= MaxIter, waited <= Budget, exhausted \subseteq      *)
(* Model), so only new choices of the user can keep a turn going.          *)

QueuedChoice == IF requested = None THEN 0 ELSE IF pc = "top" THEN 1 ELSE 2

Ahead == [idle |-> 0, parked |-> 1, calling |-> 2, top |-> 3][pc]

\* Nothing of the round has been settled, and the loop moves on towards its wait, or
\* away from a model that had failed.
MovesOn ==
    \/ model \in exhausted /\ model' \notin exhausted'
    \/ /\ (model \in exhausted) <=> (model' \in exhausted')
       /\ Ahead' < Ahead

\* The lexicographic order of replies, waited and exhausted.
Advances ==
    \/ replies' > replies
    \/ replies' = replies /\ waited' > waited
    \/ /\ replies' = replies /\ waited' = waited /\ exhausted \subseteq exhausted'
       /\ exhausted' = exhausted => MovesOn

Nearer ==
    \/ pc' = "idle"
    \/ QueuedChoice' < QueuedChoice
    \/ QueuedChoice' = QueuedChoice /\ Advances

\* A turn's answers, waits and failed models are bounded.
Bounded ==
    pc # "idle" => replies <= MaxIter /\ waited <= Budget /\ exhausted \subseteq Model

\* The iteration limit ends the turn; otherwise a queued choice is taken, or a call
\* is made.
LEMMA TopNearer == Inv /\ Top => Nearer
<1> SUFFICES ASSUME Inv, Top PROVE Nearer
  OBVIOUS
<1>1. CASE LimitReached
  BY <1>1 DEF Top, Nearer
<1>2. CASE ~LimitReached
  <2>1. pc = "top" /\ pc' = "calling" /\ requested' = None
        /\ UNCHANGED <<exhausted, waited, replies>>
    BY <1>2 DEF Top, loopVars, parkVars
  <2>2. CASE requested = None
    <3>1. QueuedChoice' = QueuedChoice /\ model' = model
      BY <1>2, <2>1, <2>2 DEF QueuedChoice, Top
    <3>2. MovesOn
      BY <2>1, <3>1 DEF MovesOn, Ahead
    <3>3. QED
      BY <2>1, <3>1, <3>2 DEF Nearer, Advances
  <2>3. CASE requested # None
    BY <2>1, <2>3 DEF QueuedChoice, Nearer
  <2>4. QED
    BY <2>2, <2>3
<1>3. QED
  BY <1>1, <1>2

\* An answer is counted.
LEMMA ReplyNearer == Inv /\ Reply => Nearer
BY DEF Inv, TypeOK, Reply, Nearer, QueuedChoice, Advances, loopVars, parkVars

\* A failure hands the turn to a queued choice or to a model that has not failed,
\* begins a wait, or ends the turn.
LEMMA FailNearer ==
    ASSUME Inv, NEW kind \in Kind, Fail(kind)
    PROVE  Nearer
<1>1. pc = "calling" /\ UNCHANGED <<waited, replies>> /\ exhausted \subseteq exhausted'
  BY DEF Fail
<1>2. CASE kind \in {"quota", "no_access"} /\ Failover /\ TryAgain
  <2>1. pc' = "top" /\ model \in exhausted'
    BY <1>2 DEF Fail, TryAgain
  <2>2. CASE requested # None
    <3>1. requested' = None
      BY <1>2, <2>2 DEF Failover
    <3>2. QED
      BY <1>1, <2>2, <3>1 DEF QueuedChoice, Nearer
  <2>3. CASE requested = None
    <3>1. requested' = None /\ model' \notin exhausted'
      BY <1>2, <2>3 DEF Failover, First, Ladder
    <3>2. exhausted' = exhausted => MovesOn
      BY <2>1, <3>1 DEF MovesOn
    <3>3. QED
      BY <1>1, <2>3, <3>1, <3>2 DEF QueuedChoice, Nearer, Advances
  <2>4. QED
    BY <2>2, <2>3
<1>3. CASE WaitForCapacity /\ UNCHANGED <<model, requested>>
  <2>1. CASE pc' = "parked"
    <3>1. QueuedChoice' = QueuedChoice
      BY <1>1, <1>3, <2>1 DEF QueuedChoice
    <3>2. exhausted' = exhausted => MovesOn
      BY <1>1, <1>3, <2>1 DEF MovesOn, Ahead
    <3>3. QED
      BY <1>1, <3>1, <3>2 DEF Nearer, Advances
  <2>2. CASE pc' = "idle"
    BY <2>2 DEF Nearer
  <2>3. QED
    BY <1>3, <2>1, <2>2 DEF WaitForCapacity
<1>4. CASE pc' = "idle"
  BY <1>4 DEF Nearer
<1>5. QED
  BY <1>2, <1>3, <1>4 DEF Fail

\* A wait that was woken leaves a choice to be taken, any other is accounted.
LEMMA WakeNearer == Inv /\ Wake => Nearer
<1> SUFFICES ASSUME Inv, Wake PROVE Nearer
  OBVIOUS
<1>1. pc = "parked" /\ UNCHANGED <<model, requested, replies>>
  BY DEF Wake
<1>2. CASE pc' = "idle"
  BY <1>2 DEF Nearer
<1>3. CASE pc' = "top" /\ requested # None
  BY <1>1, <1>3 DEF QueuedChoice, Nearer
<1>4. CASE pc' = "top" /\ requested = None /\ AccountWait
  <2>1. waited' > waited
    BY <1>1, <1>4 DEF Inv, TypeOK, Accounted, AccountWait
  <2>2. QED
    BY <1>1, <1>4, <2>1 DEF QueuedChoice, Nearer, Advances
<1>5. QED
  BY <1>2, <1>3, <1>4 DEF Wake, TryAgain

\* Whatever the provider does, every step of the loop gets nearer to the end of the
\* turn in an order that cannot descend for ever: what TurnEnds rests on, for every
\* ladder, budget and backoff sequence.  Fairness, which TLC adds, makes the steps
\* happen; Stop leaves the order alone and only the user's choices go back in it.
THEOREM TurnRunsOut == Spec => []Bounded /\ [][Step => Nearer]_vars
<1>1. Inv => Bounded
  BY QuotaAssumption DEF Inv, TypeOK, Accounted, RepliesCounted, Bounded
<1>2. Inv /\ Step => Nearer
  BY TopNearer, ReplyNearer, FailNearer, WakeNearer DEF Step, CallEnds, Nearer
<1>3. Inv /\ [Next]_vars => [Step => Nearer]_vars
  BY <1>2
<1>4. QED
  BY <1>1, <1>3, Invariance, PTL DEF Spec
=============================================================================
