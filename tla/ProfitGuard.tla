---------------------------- MODULE ProfitGuard ----------------------------
(***************************************************************************)
(* The profit guard of one SKU (crawler/commerce/profit_guard/engine.py):  *)
(* price recommendations, their approval, and their application at the     *)
(* seller's API.  Each tool call runs in a thread of its own with an       *)
(* engine of its own (tools/commerce_monitor.py); they share the SQLite    *)
(* store, so a step here lasts to the next call of the store or provider.  *)
(***************************************************************************)
EXTENDS PriceCalculator

CONSTANTS
    Caller,      \* tool calls under way at a time
    MaxRec,      \* bound: recommendations made
    Profile,     \* cost profiles an owner may configure
    Quote,       \* pairs of a current price and a market price (0: none is given)
    Cooldown,    \* CostProfile.cooldown_seconds
    Expiry,      \* ProfitGuardEngine.default_expiry_hours
    BackoffCap,  \* the 3600 s a backoff is limited to
    MaxTime,     \* bound: the last instant of the clock
    MaxCrash,    \* bound: stops of the server
    NoRec        \* "no recommendation"

Rec == 1..MaxRec
Status == {"none", "pending", "approved", "rejected", "expired", "applied", "failed"}
Action == {"CREATED", "APPROVED", "REJECTED", "APPLIED", "APPLY_FAILED", "EXPIRED"}
Label == {"idle", "look", "insert", "expire", "approve", "reject", "read", "profile", "backoff",
          "call", "penalise", "fail", "clear", "applied", "log", "list"}

ASSUME ProfitGuardAssumption ==
    /\ MaxRec \in Nat /\ MaxTime \in Nat /\ MaxCrash \in Nat
    /\ Cooldown \in Nat /\ Expiry \in Nat /\ BackoffCap \in Nat
    /\ Quote \subseteq (Nat \ {0}) \X Nat
    /\ \A p \in Profile : IsProfile(p)
    /\ NoRec \notin Rec

VARIABLES
    clock,
    profile,    \* the row of profit_guard_profiles
    status,     \* price_recommendations.status; "none": no such row
    row,        \* its other columns; spare is 100 times the profit beyond the margin
    backoff,    \* the row of seller_provider_backoff
    audit,      \* pricing_audit_logs: recommendation and action
    sold,       \* recommendations whose price the shop was given
    pc,         \* where each tool call stands
    arg,        \* the recommendation it is about
    offer,      \* the recommendation it is making, before it has an id
    seen,       \* the time and the failure count it has read
    todo,       \* the expired recommendations list_pending_approvals has to mark
    entry,      \* the audit entry to be written, and where the call goes on
    told,       \* how many calls were told that they decided (history variable)
    crashes

store == <<profile, status, row, backoff, audit>>
call  == <<pc, arg, offer, seen, todo, entry>>
vars  == <<clock, store, sold, call, told, crashes>>

NoRow == [price |-> 0, quote |-> <<0, 0>>, created |-> 0, spare |-> 0]
NoEntry == <<"CREATED", "idle">>
NotRead == [now |-> 0, count |-> 0]

\* The state of the calls when none is under way.
NoCalls == <<[c \in Caller |-> "idle"], [c \in Caller |-> NoRec], [c \in Caller |-> NoRow],
             [c \in Caller |-> NotRead], [c \in Caller |-> {}], [c \in Caller |-> NoEntry]>>

Init ==
    /\ clock = 0
    /\ profile \in Profile
    /\ status = [r \in Rec |-> "none"] /\ row = [r \in Rec |-> NoRow]
    /\ backoff = [until |-> 0, count |-> 0]
    /\ audit = {} /\ sold = {}
    /\ pc = NoCalls[1] /\ arg = NoCalls[2] /\ offer = NoCalls[3]
    /\ seen = NoCalls[4] /\ todo = NoCalls[5] /\ entry = NoCalls[6]
    /\ told = [r \in Rec |-> 0]
    /\ crashes = 0

Existing == {r \in Rec : status[r] # "none"}
Expired(r, now) == row[r].created + Expiry <= now

\* The call goes on at label; it returns when that is "idle".
Goto(c, label) ==
    /\ pc' = [pc EXCEPT ![c] = label]
    /\ arg' = IF label = "idle" THEN [arg EXCEPT ![c] = NoRec] ELSE arg
    /\ seen' = IF label = "idle" THEN [seen EXCEPT ![c] = NotRead] ELSE seen

\* A call about recommendation r begins, at label.
Begin(c, r, label) ==
    /\ pc[c] = "idle"
    /\ pc' = [pc EXCEPT ![c] = label]
    /\ arg' = [arg EXCEPT ![c] = r]
    /\ UNCHANGED seen

\* The call writes an audit entry about r next and goes on at label.
LogAbout(c, r, action, label) ==
    /\ pc' = [pc EXCEPT ![c] = "log"]
    /\ arg' = [arg EXCEPT ![c] = r]
    /\ entry' = [entry EXCEPT ![c] = <<action, label>>]
    /\ UNCHANGED seen

Log(c, action, label) == LogAbout(c, arg[c], action, label)

\* update_recommendation_status with an expected status, and without one.
Set(r, new) == status' = [status EXCEPT ![r] = new]
CompareAndSet(r, old, new) == IF status[r] = old THEN Set(r, new) ELSE UNCHANGED status

Tick == /\ clock < MaxTime
        /\ clock' = clock + 1
        /\ UNCHANGED <<store, sold, call, told, crashes>>

\* record_audit_log.
WriteAudit(c) ==
    /\ pc[c] = "log"
    /\ audit' = audit \cup {<<arg[c], entry[c][1]>>}
    /\ Goto(c, entry[c][2])
    /\ entry' = [entry EXCEPT ![c] = NoEntry]
    /\ UNCHANGED <<clock, profile, status, row, backoff, sold, offer, todo,
                   told, crashes>>

\* configure_sku: the row is replaced.
Configure ==
    /\ profile' \in Profile
    /\ UNCHANGED <<clock, status, row, backoff, audit, sold, call, told, crashes>>

-----------------------------------------------------------------------------
(* generate_recommendation.                                                *)

\* The profile and the time are read, and the price worked out from them.
Generate(c) ==
    /\ pc[c] = "idle"
    /\ \E quote \in Quote :
          LET price == Recommended(profile, quote[1], quote[2])
          IN offer' = [offer EXCEPT ![c] =
                 [price |-> price, quote |-> quote, created |-> clock,
                  spare |-> Profit(profile, price) - price * profile.margin]]
    /\ Goto(c, "look")
    /\ UNCHANGED <<clock, store, sold, todo, entry, told, crashes>>

Latest == {r \in Existing : \A s \in Existing : row[s].created <= row[r].created}

\* Within the cooldown an offer on the same data is not repeated.
Look(c) ==
    /\ pc[c] = "look"
    /\ \/ /\ Latest = {}
          /\ Goto(c, "insert") /\ UNCHANGED offer
       \/ \E r \in Latest :
             LET reused == /\ offer[c].created < row[r].created + Cooldown
                           /\ offer[c].quote = row[r].quote
             IN /\ Goto(c, IF reused THEN "idle" ELSE "insert")
                /\ offer' = IF reused THEN [offer EXCEPT ![c] = NoRow] ELSE offer
    /\ UNCHANGED <<clock, store, sold, todo, entry, told, crashes>>

\* save_recommendation, under the next id.
Insert(c) ==
    /\ pc[c] = "insert"
    /\ \E r \in Rec \ Existing :
          /\ \A s \in Rec : s < r => s \in Existing
          /\ Set(r, "pending")
          /\ row' = [row EXCEPT ![r] = offer[c]]
          /\ LogAbout(c, r, "CREATED", "idle")
    /\ offer' = [offer EXCEPT ![c] = NoRow]
    /\ UNCHANGED <<clock, profile, backoff, audit, sold, todo, told, crashes>>

-----------------------------------------------------------------------------
(* The decision: approve_price_change, reject_price_change and the expiry. *)

\* approve_price_change reads the row: an expired one is marked, without an
\* audit entry, and only a pending one goes on.
Approve(c) ==
    /\ \E r \in Existing :
          /\ Expired(r, clock) \/ status[r] = "pending"
          /\ Begin(c, r, IF Expired(r, clock) THEN "expire" ELSE "approve")
    /\ UNCHANGED <<clock, store, sold, offer, todo, entry, told, crashes>>

\* Mutant: the name of the status is written instead of its value.
MarkExpiredByName(c) ==
    /\ pc[c] = "expire"
    /\ CompareAndSet(arg[c], "pending", "EXPIRED")
    /\ Goto(c, "idle")
    /\ UNCHANGED <<clock, profile, row, backoff, audit, sold, offer, todo,
                   entry, told, crashes>>

\* The approval of an expired row marks it, if it is still pending.
MarkExpired(c) ==
    /\ pc[c] = "expire"
    /\ CompareAndSet(arg[c], "pending", "expired")
    /\ Goto(c, "idle")
    /\ UNCHANGED <<clock, profile, row, backoff, audit, sold, offer, todo,
                   entry, told, crashes>>

Won(c) == told' = [told EXCEPT ![arg[c]] = @ + 1]

\* Mutant: the status is updated without an expected one.
SetApprovedBlindly(c) ==
    /\ pc[c] = "approve"
    /\ Set(arg[c], "approved") /\ Won(c)
    /\ Log(c, "APPROVED", "read")
    /\ UNCHANGED <<clock, profile, row, backoff, audit, sold, offer, todo, crashes>>

\* PENDING to APPROVED, if it still is; then apply_price_change, or not.
SetApproved(c) ==
    /\ pc[c] = "approve"
    /\ CompareAndSet(arg[c], "pending", "approved")
    /\ \/ /\ status[arg[c]] = "pending"
          /\ Won(c)
          /\ \E label \in {"read", "idle"} : Log(c, "APPROVED", label)
       \/ /\ status[arg[c]] # "pending"
          /\ Goto(c, "idle") /\ UNCHANGED <<entry, told>>
    /\ UNCHANGED <<clock, profile, row, backoff, audit, sold, offer, todo, crashes>>

\* reject_price_change: expiry is not looked at.
Reject(c) ==
    /\ \E r \in Existing : status[r] = "pending" /\ Begin(c, r, "reject")
    /\ UNCHANGED <<clock, store, sold, offer, todo, entry, told, crashes>>

\* Mutant: a rejection is not audited.
SetRejectedUnlogged(c) ==
    /\ pc[c] = "reject"
    /\ CompareAndSet(arg[c], "pending", "rejected")
    /\ IF status[arg[c]] = "pending" THEN Won(c) ELSE UNCHANGED told
    /\ Goto(c, "idle")
    /\ UNCHANGED <<clock, profile, row, backoff, audit, sold, offer, todo,
                   entry, crashes>>

SetRejected(c) ==
    /\ pc[c] = "reject"
    /\ CompareAndSet(arg[c], "pending", "rejected")
    /\ \/ status[arg[c]] = "pending" /\ Won(c) /\ Log(c, "REJECTED", "idle")
       \/ status[arg[c]] # "pending" /\ Goto(c, "idle") /\ UNCHANGED <<entry, told>>
    /\ UNCHANGED <<clock, profile, row, backoff, audit, sold, offer, todo, crashes>>

\* list_pending_approvals: the pending rows and the time are read once.
ListPending(c) ==
    /\ pc[c] = "idle"
    /\ LET expired == {r \in Rec : status[r] = "pending" /\ Expired(r, clock)}
       IN expired # {} /\ todo' = [todo EXCEPT ![c] = expired]
    /\ Goto(c, "list")
    /\ UNCHANGED <<clock, store, sold, offer, entry, told, crashes>>

\* Its next expired row; audited as expired even if another call was faster.
ExpireListed(c) ==
    /\ pc[c] = "list"
    /\ \/ /\ \E r \in todo[c] :
                /\ CompareAndSet(r, "pending", "expired")
                /\ todo' = [todo EXCEPT ![c] = @ \ {r}]
                /\ LogAbout(c, r, "EXPIRED", "list")
       \/ /\ todo[c] = {}
          /\ Goto(c, "idle") /\ UNCHANGED <<status, todo, entry>>
    /\ UNCHANGED <<clock, profile, row, backoff, audit, sold, offer, told, crashes>>

-----------------------------------------------------------------------------
(* apply_price_change.                                                     *)

Apply(c) ==
    /\ \E r \in Existing : Begin(c, r, "read")
    /\ UNCHANGED <<clock, store, sold, offer, todo, entry, told, crashes>>

\* Mutant: only a row already applied is turned away.
ReadRowLoosely(c) ==
    /\ pc[c] = "read"
    /\ Goto(c, IF status[arg[c]] # "applied" THEN "profile" ELSE "idle")
    /\ UNCHANGED <<clock, store, sold, offer, todo, entry, told, crashes>>

ReadRow(c) ==
    /\ pc[c] = "read"
    /\ Goto(c, IF status[arg[c]] = "approved" THEN "profile" ELSE "idle")
    /\ UNCHANGED <<clock, store, sold, offer, todo, entry, told, crashes>>

\* Without a registered provider and an authorization the row fails.
ReadProfile(c) ==
    /\ pc[c] = "profile"
    /\ Goto(c, IF profile.linked THEN "backoff" ELSE "fail")
    /\ UNCHANGED <<clock, store, sold, offer, todo, entry, told, crashes>>

ReadBackoff(c) ==
    /\ pc[c] = "backoff"
    /\ \/ clock < backoff.until /\ Goto(c, "idle")
       \/ /\ clock >= backoff.until
          /\ pc' = [pc EXCEPT ![c] = "call"]
          /\ seen' = [seen EXCEPT ![c] = [now |-> clock, count |-> backoff.count]]
          /\ UNCHANGED arg
    /\ UNCHANGED <<clock, store, sold, offer, todo, entry, told, crashes>>

\* Mutant: an answer without success counts as one.
UpdatePriceUnchecked(c) ==
    /\ pc[c] = "call"
    /\ \/ sold' = sold \cup {arg[c]} /\ Goto(c, "clear")
       \/ UNCHANGED sold /\ Goto(c, "clear")
    /\ UNCHANGED <<clock, store, offer, todo, entry, told, crashes>>

\* The provider answers: it has changed the price, it has refused, or the call
\* raises, and whether the price was changed is not known.
UpdatePrice(c) ==
    /\ pc[c] = "call"
    /\ \/ sold' = sold \cup {arg[c]} /\ Goto(c, "clear")
       \/ UNCHANGED sold /\ Goto(c, "fail")
       \/ sold' \in {sold, sold \cup {arg[c]}} /\ Goto(c, "penalise")
    /\ UNCHANGED <<clock, store, offer, todo, entry, told, crashes>>

\* The seconds a provider is left alone: 2 ** failures, limited to the cap.
Duration(count) == IF 2 ^ count \in 0..BackoffCap THEN 2 ^ count ELSE BackoffCap

\* record_provider_backoff: from the count and the time read before the call.
Penalise(c) ==
    /\ pc[c] = "penalise"
    /\ LET count == seen[c].count + 1
       IN backoff' = [until |-> seen[c].now + Duration(count), count |-> count]
    /\ Goto(c, "fail")
    /\ UNCHANGED <<clock, profile, status, row, audit, sold, offer, todo,
                   entry, told, crashes>>

\* _record_apply_failure: FAILED, whatever the status is by now.
Fail(c) ==
    /\ pc[c] = "fail"
    /\ Set(arg[c], "failed")
    /\ Log(c, "APPLY_FAILED", "idle")
    /\ UNCHANGED <<clock, profile, row, backoff, audit, sold, offer, todo,
                   told, crashes>>

ClearBackoff(c) ==
    /\ pc[c] = "clear"
    /\ backoff' = [until |-> 0, count |-> 0]
    /\ Goto(c, "applied")
    /\ UNCHANGED <<clock, profile, status, row, audit, sold, offer, todo,
                   entry, told, crashes>>

\* APPROVED to APPLIED; whether it took effect is not looked at.
SetApplied(c) ==
    /\ pc[c] = "applied"
    /\ CompareAndSet(arg[c], "approved", "applied")
    /\ Log(c, "APPLIED", "idle")
    /\ UNCHANGED <<clock, profile, row, backoff, audit, sold, offer, todo,
                   told, crashes>>

-----------------------------------------------------------------------------
\* The server stops: the calls are lost, the store is not.
Stop ==
    /\ crashes < MaxCrash
    /\ crashes' = crashes + 1
    /\ pc' = NoCalls[1] /\ arg' = NoCalls[2] /\ offer' = NoCalls[3]
    /\ seen' = NoCalls[4] /\ todo' = NoCalls[5] /\ entry' = NoCalls[6]
    /\ UNCHANGED <<clock, store, sold, told>>

Step(c) ==
    \/ Generate(c) \/ Look(c) \/ Insert(c) \/ WriteAudit(c)
    \/ Approve(c) \/ MarkExpired(c) \/ SetApproved(c)
    \/ Reject(c) \/ SetRejected(c) \/ ListPending(c) \/ ExpireListed(c)
    \/ Apply(c) \/ ReadRow(c) \/ ReadProfile(c) \/ ReadBackoff(c) \/ UpdatePrice(c)
    \/ Penalise(c) \/ Fail(c) \/ ClearBackoff(c) \/ SetApplied(c)

Next == Tick \/ Configure \/ Stop \/ \E c \in Caller : Step(c)

Spec == Init /\ [][Next]_vars

-----------------------------------------------------------------------------
RowType == [price : Int, quote : Nat \X Nat, created : Nat, spare : Int]

\* Every variable has its type.
TypeOK ==
    /\ clock \in Nat /\ crashes \in Nat
    /\ profile \in Profile
    /\ status \in [Rec -> Status] /\ row \in [Rec -> RowType]
    /\ backoff \in [until : Nat, count : Nat]
    /\ audit \subseteq (Rec \X Action) /\ sold \subseteq Rec
    /\ pc \in [Caller -> Label] /\ arg \in [Caller -> Rec \cup {NoRec}]
    /\ offer \in [Caller -> RowType]
    /\ seen \in [Caller -> [now : Nat, count : Nat]]
    /\ todo \in [Caller -> SUBSET Rec]
    /\ entry \in [Caller -> Action \X Label]
    /\ told \in [Rec -> Nat]

\* Every recommended price leaves the profile's margin after fees: "Never
\* recommends a price below floor_price" (calculator.py).
Profitable == \A r \in Existing : row[r].spare >= 0

\* However the calls of several approvers interleave, one of them at most is
\* told that it approved or rejected a recommendation.
DecidedOnce == \A r \in Rec : told[r] <= 1

\* A row marked or audited as applied was given to the shop.
AppliedIsSold ==
    \A r \in Rec : status[r] = "applied" \/ <<r, "APPLIED">> \in audit => r \in sold

Verdict == [approved |-> "APPROVED", applied |-> "APPROVED", failed |-> "APPROVED",
            rejected |-> "REJECTED"]

\* Unless the server stopped, each decision is in the audit trail, or the call
\* that took it is about to write it there.
DecisionsAudited ==
    crashes = 0 =>
        \A r \in Rec : status[r] \in DOMAIN Verdict =>
            \/ <<r, Verdict[status[r]]>> \in audit
            \/ \E c \in Caller : pc[c] = "log" /\ arg[c] = r /\ entry[c][1] = Verdict[status[r]]

Moves == {<<"none", "pending">>, <<"pending", "approved">>, <<"pending", "rejected">>,
          <<"pending", "expired">>, <<"approved", "applied">>, <<"approved", "failed">>,
          <<"applied", "failed">>}

\* A row's status only ever moves forward; FAILED, alone, may replace APPLIED.
StatusMoves ==
    [][\A r \in Rec : status'[r] = status[r] \/ <<status[r], status'[r]>> \in Moves]_vars

Decision(r) ==
    CASE status[r] \in {"none", "pending"} -> "open"
      [] status[r] \in {"rejected", "expired"} -> "refused"
      [] OTHER -> "approved"

Approval == INSTANCE ApprovedPrice WITH decision <- [r \in Rec |-> Decision(r)]

\* The shop is only given prices of approved recommendations, and what was once
\* decided stays decided: the guard implements ApprovedPrice.
ApprovalSpec == Approval!Spec
=============================================================================
