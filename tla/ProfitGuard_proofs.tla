------------------------- MODULE ProfitGuard_proofs -------------------------
(***************************************************************************)
(* Theorems about PriceCalculator, for every profile and price, and about  *)
(* ProfitGuard, for every number of callers, recommendations and stops.    *)
(***************************************************************************)
EXTENDS ProfitGuard, TLAPS

-----------------------------------------------------------------------------
(* The calculator.                                                         *)

\* CeilDiv rounds upwards.
LEMMA CeilDivCovers ==
    ASSUME NEW a \in Nat, NEW b \in Nat \ {0}
    PROVE  CeilDiv(a, b) \in Nat /\ b * CeilDiv(a, b) >= a
<1> DEFINE q == (a + b - 1) \div b
<1>1. /\ q \in Int
      /\ a + b - 1 = b * q + ((a + b - 1) % b)
      /\ (a + b - 1) % b \in 0..(b - 1)
  BY Z3
<1>2. b * q >= a
  BY <1>1, Z3
<1>3. q >= 0
  BY Z3
<1>4. QED
  BY <1>1, <1>2, <1>3 DEF CeilDiv

\* Selling at the floor leaves the margin.
LEMMA FloorKeepsMargin ==
    ASSUME NEW p, IsProfile(p)
    PROVE  FloorPrice(p) \in Nat /\ FloorPrice(p) * Kept(p) >= 100 * p.fixed
<1>1. Kept(p) \in Nat \ {0} /\ p.fixed \in Nat
  BY DEF IsProfile, ProfileRange, Kept
<1> DEFINE d == Kept(p) * 10
           q == CeilDiv(100 * p.fixed, d)
<1>2. d \in Nat \ {0} /\ 100 * p.fixed \in Nat
  BY <1>1
<1>3. q \in Nat /\ d * q >= 100 * p.fixed
  BY <1>2, CeilDivCovers
<1>4. FloorPrice(p) = 10 * q
  BY DEF FloorPrice, RoundUp, Unit
<1>5. (10 * q) * Kept(p) = d * q
  BY <1>1, <1>3, Z3
<1>6. QED
  BY <1>3, <1>4, <1>5

\* Rounding keeps to the integers.
LEMMA RoundType ==
    ASSUME NEW n \in Nat, NEW d \in Nat \ {0}
    PROVE  RoundUp(n, d) \in Int /\ RoundHalf(n, d) \in Int
<1>1. d * 10 \in Nat \ {0} /\ 2 * d * 10 \in Nat \ {0} /\ 2 * n + d * 10 \in Int
  OBVIOUS
<1>2. CeilDiv(n, d * 10) \in Nat
  BY <1>1, CeilDivCovers
<1>3. ((2 * n + d * 10) \div (2 * d * 10)) \in Int
  BY <1>1
<1>4. QED
  BY <1>2, <1>3 DEF RoundUp, RoundHalf, Unit

\* Whatever the prices are, a recommended one is not below the floor.
THEOREM NeverBelowFloor ==
    ASSUME NEW p, IsProfile(p), NEW current \in Nat, NEW market \in Nat
    PROVE  /\ Recommended(p, current, market) \in Int
           /\ Recommended(p, current, market) >= FloorPrice(p)
<1>1. FloorPrice(p) \in Nat
  BY FloorKeepsMargin
<1>2. p.step \in 1..100
  BY DEF IsProfile, ProfileRange
<1>3. current * (100 - p.step) \in Nat /\ current * (100 + p.step) \in Nat
  BY <1>2, Z3
<1>4. /\ RoundHalf(market, 1) \in Int
      /\ RoundHalf(current * (100 + p.step), 100) \in Int
      /\ RoundUp(current * (100 - p.step), 100) \in Int
  BY <1>3, RoundType
<1>5. Target(p, current, market) \in Int
  BY <1>1, <1>4 DEF Target
<1>6. QED
  BY <1>1, <1>5 DEF Recommended

\* So a sale at the recommended price leaves the margin after all fees.
THEOREM RecommendedIsProfitable ==
    ASSUME NEW p, IsProfile(p), NEW current \in Nat, NEW market \in Nat
    PROVE  LET price == Recommended(p, current, market)
           IN Profit(p, price) - price * p.margin \in Nat
<1> DEFINE price == Recommended(p, current, market)
<1>1. price \in Int /\ FloorPrice(p) \in Nat /\ price >= FloorPrice(p)
  BY NeverBelowFloor, FloorKeepsMargin
<1>2. Kept(p) \in Nat \ {0} /\ p.fixed \in Nat /\ p.margin \in Int /\ p.rate \in Int
  BY DEF IsProfile, ProfileRange, Kept
<1>3. FloorPrice(p) * Kept(p) >= 100 * p.fixed
  BY FloorKeepsMargin
<1> HIDE DEF price
<1>4. price * Kept(p) >= FloorPrice(p) * Kept(p)
  BY <1>1, <1>2, Z3
<1>5. price * Kept(p) >= 100 * p.fixed
  BY <1>1, <1>2, <1>3, <1>4, Z3
<1>6. Profit(p, price) - price * p.margin = price * Kept(p) - 100 * p.fixed
  BY <1>1, <1>2, Z3 DEF Profit, Retained, Kept
<1>7. Profit(p, price) - price * p.margin \in Nat
  BY <1>1, <1>2, <1>5, <1>6, Z3
<1>8. QED
  BY <1>7 DEF price

\* CeilDiv rounds no further than it must.
LEMMA CeilDivLeast ==
    ASSUME NEW a \in Nat, NEW b \in Nat \ {0}, NEW n \in Nat, b * n >= a
    PROVE  CeilDiv(a, b) <= n
<1> DEFINE q == (a + b - 1) \div b
<1>1. /\ q \in Int
      /\ a + b - 1 = b * q + ((a + b - 1) % b)
      /\ (a + b - 1) % b \in 0..(b - 1)
  BY Z3
<1> HIDE DEF q
<1>2. b * q <= a + b - 1
  BY <1>1, Z3
<1>3. b * q < b * n + b
  BY <1>1, <1>2, Z3
<1>4. b * n + b = b * (n + 1)
  BY Z3
<1>5. b * q < b * (n + 1)
  BY <1>3, <1>4
<1>6. q < n + 1
  BY <1>1, <1>5, Z3
<1>7. QED
  BY <1>1, <1>6 DEF CeilDiv, q

\* The guard asks for no more than it needs: any whole amount that leaves the
\* margin is at least the floor.
THEOREM FloorIsLeast ==
    ASSUME NEW p, IsProfile(p), NEW n \in Nat, (Unit * n) * Kept(p) >= 100 * p.fixed
    PROVE  FloorPrice(p) <= Unit * n
<1>1. Kept(p) \in Nat \ {0} /\ p.fixed \in Nat
  BY DEF IsProfile, ProfileRange, Kept
<1>2. PICK d : d = Kept(p) * Unit
  OBVIOUS
<1>3. d \in Nat \ {0} /\ 100 * p.fixed \in Nat
  BY <1>1, <1>2 DEF Unit
<1>4. d * n = (Unit * n) * Kept(p)
  BY <1>1, <1>2, Z3 DEF Unit
<1>5. CeilDiv(100 * p.fixed, d) \in Nat /\ CeilDiv(100 * p.fixed, d) <= n
  BY <1>3, <1>4, CeilDivLeast, CeilDivCovers
<1>6. FloorPrice(p) = Unit * CeilDiv(100 * p.fixed, d)
  BY <1>2 DEF FloorPrice, RoundUp
<1>7. QED
  BY <1>5, <1>6 DEF Unit

\* Rounding to the nearest whole amount moves a price by half a unit at most.
LEMMA RoundHalfNear ==
    ASSUME NEW n \in Nat, NEW d \in Nat \ {0}
    PROVE  /\ RoundHalf(n, d) \in Int
           /\ d * RoundHalf(n, d) <= n + 5 * d /\ d * RoundHalf(n, d) >= n - 5 * d
<1> DEFINE b == 2 * d * 10
           a == 2 * n + d * 10
           q == a \div b
<1>1. b \in Nat \ {0} /\ a \in Nat
  OBVIOUS
<1>2. q \in Int /\ a = b * q + (a % b) /\ a % b \in 0..(b - 1)
  BY <1>1, Z3
<1>3. RoundHalf(n, d) = 10 * q
  BY DEF RoundHalf, Unit
<1> HIDE DEF q
<1>4. b * q = 2 * (d * (10 * q))
  BY <1>2, Z3
<1>5. b * q <= a /\ b * q >= a - b + 1
  BY <1>1, <1>2
<1>6. d * (10 * q) \in Int
  BY <1>2
<1>7. d * (10 * q) <= n + 5 * d /\ d * (10 * q) >= n - 5 * d
  BY <1>4, <1>5, <1>6
<1>8. QED
  BY <1>2, <1>3, <1>7

\* One recommendation moves the price by p.step percent at most, up to the rounding
\* to whole amounts and unless the floor is higher.  Only a market below the floor is
\* excepted: there the calculator goes down to the floor in one step.
THEOREM StepRespected ==
    ASSUME NEW p, IsProfile(p), NEW current \in Nat, NEW market \in Nat,
           market = 0 \/ market >= FloorPrice(p)
    PROVE  LET price == Recommended(p, current, market)
           IN /\ 100 * price >= current * (100 - p.step) - 50 * Unit
              /\ price = FloorPrice(p) \/ 100 * price <= current * (100 + p.step) + 100 * Unit
<1>1. PICK floor : floor = FloorPrice(p)
  OBVIOUS
<1>2. PICK down : down = current * (100 - p.step)
  OBVIOUS
<1>3. PICK up : up = current * (100 + p.step)
  OBVIOUS
<1>4. p.step \in 1..100 /\ floor \in Nat
  BY <1>1, FloorKeepsMargin DEF IsProfile, ProfileRange
<1>5. down \in Nat /\ up \in Nat
  BY <1>2, <1>3, <1>4, Z3
<1>6. down <= 100 * current /\ 100 * current <= up
  <2>1. current * p.step \in Nat
    BY <1>4
  <2>2. down = 100 * current - current * p.step /\ up = 100 * current + current * p.step
    BY <1>2, <1>3, <1>4, Z3
  <2>3. QED
    BY <2>1, <2>2
<1>7. PICK half : half = RoundHalf(up, 100)
  OBVIOUS
<1>8. half \in Int /\ 100 * half <= up + 500 /\ 100 * half >= up - 500
  BY <1>5, <1>7, RoundHalfNear
<1>9. PICK near : near = RoundHalf(market, 1)
  OBVIOUS
<1>10. near \in Int /\ near <= market + 5 /\ near >= market - 5
  BY <1>9, RoundHalfNear
<1>11. PICK above : above = RoundUp(down, 100)
  OBVIOUS
<1>12. above \in Int /\ 100 * above >= down /\ 100 * above <= down + 1000
  <2>1. PICK q : q = CeilDiv(down, 1000)
    OBVIOUS
  <2>2. q \in Nat /\ 1000 * q >= down
    BY <1>5, <2>1, CeilDivCovers
  <2>3. above = 10 * q
    BY <1>11, <2>1 DEF RoundUp, Unit
  <2>4. 1000 * q <= down + 999
    <3>1. 1000 * ((down + 999) \div 1000) <= down + 999
      BY <1>5
    <3>2. QED
      BY <2>1, <3>1, <1>5 DEF CeilDiv
  <2>5. QED
    BY <2>2, <2>3, <2>4, <1>5
<1>13. PICK target : target = Target(p, current, market)
  OBVIOUS
<1>14. target = IF market = 0 \/ market = current
                THEN IF current < floor THEN floor ELSE current
                ELSE IF market > current
                THEN IF 100 * market <= up THEN near ELSE half
                ELSE IF market < floor THEN floor
                ELSE IF 100 * market < down
                THEN IF floor > above THEN floor ELSE above
                ELSE near
  BY <1>1, <1>2, <1>3, <1>7, <1>9, <1>11, <1>13 DEF Target
<1>15. Recommended(p, current, market) = IF target < floor THEN floor ELSE target
  BY <1>1, <1>13 DEF Recommended
<1> DEFINE price == Recommended(p, current, market)
<1>16. target \in Int /\ 100 * target >= down - 500
  BY <1>4, <1>5, <1>6, <1>8, <1>10, <1>12, <1>14, <1>1
<1>17. target = floor \/ 100 * target <= up + 1000
  BY <1>4, <1>5, <1>6, <1>8, <1>10, <1>12, <1>14, <1>1
<1>18. QED
  BY <1>1, <1>2, <1>3, <1>4, <1>15, <1>16, <1>17 DEF Unit

-----------------------------------------------------------------------------
(* The inductive invariant.  A call that has passed apply_price_change's    *)
(* look at the status acts on it much later, so what makes that look good   *)
(* enough is that an approved recommendation never becomes undecided or     *)
(* refused again; and that in turn rests on the expected status of every    *)
(* other update.                                                            *)

Sellable == {"approved", "applied", "failed"}

Types ==
    /\ clock \in Nat /\ crashes \in Nat /\ profile \in Profile
    /\ status \in [Rec -> Status] /\ row \in [Rec -> RowType]
    /\ audit \subseteq (Rec \X Action) /\ sold \subseteq Rec
    /\ pc \in [Caller -> Label] /\ arg \in [Caller -> Rec \cup {NoRec}]
    /\ offer \in [Caller -> RowType] /\ todo \in [Caller -> SUBSET Rec]
    /\ entry \in [Caller -> Action \X {"idle", "read", "list"}]
    /\ told \in [Rec -> Nat]

\* Where a call is tells what is so of the recommendation it is about.
Located ==
    \A c \in Caller :
        /\ pc[c] \notin {"idle", "look", "insert", "list"} => arg[c] \in Rec
        /\ pc[c] \in {"profile", "backoff", "call", "penalise", "fail", "clear", "applied"}
              => status[arg[c]] \in Sellable
        /\ pc[c] \in {"clear", "applied"} => arg[c] \in sold
        /\ pc[c] = "log" /\ entry[c][1] = "APPLIED" => arg[c] \in sold

Paying ==
    /\ \A r \in Rec : status[r] # "none" => row[r].spare \in Nat
    /\ \A c \in Caller : pc[c] \in {"look", "insert"} => offer[c].spare \in Nat

SoldIsApproved == \A r \in sold : status[r] \in Sellable

ToldOnce == \A r \in Rec : IF status[r] \in {"none", "pending"} THEN told[r] = 0 ELSE told[r] <= 1

Inv == Types /\ Located /\ Paying /\ SoldIsApproved /\ AppliedIsSold /\ ToldOnce /\ DecisionsAudited

\* A new offer has the type of a row and leaves the margin.
LEMMA OfferType ==
    ASSUME profile \in Profile, clock \in Nat, NEW quote \in Quote
    PROVE  LET price == Recommended(profile, quote[1], quote[2])
               row1  == [price |-> price, quote |-> quote, created |-> clock,
                         spare |-> Profit(profile, price) - price * profile.margin]
           IN row1 \in RowType /\ row1.spare \in Nat
<1>1. IsProfile(profile) /\ quote[1] \in Nat /\ quote[2] \in Nat /\ quote \in Nat \X Nat
  BY ProfitGuardAssumption
<1>2. QED
  BY <1>1, NeverBelowFloor, RecommendedIsProfitable DEF RowType

\* The recommendation a call is about, and what it writes to the audit trail.
LEMMA CallType ==
    ASSUME Inv, NEW c \in Caller
    PROVE  /\ pc[c] \notin {"idle", "look", "insert", "list"} => arg[c] \in Rec
           /\ entry[c][1] \in Action
           /\ entry[c][2] \in {"idle", "read", "list"}
BY DEF Inv, Types, Located

\* An update with an expected status leaves the others as they are.
LEMMA CompareAndSetMoves ==
    ASSUME Inv, NEW r \in Rec, NEW old \in Status, NEW new \in Status, CompareAndSet(r, old, new)
    PROVE  /\ status' \in [Rec -> Status]
           /\ \A s \in Rec : status'[s] = IF s = r /\ status[s] = old THEN new ELSE status[s]
BY DEF CompareAndSet, Set, Inv, Types

\* Going on at a label moves this call only.
LEMMA GotoMoves ==
    ASSUME Inv, NEW c \in Caller, NEW label \in Label, Goto(c, label)
    PROVE  /\ pc' \in [Caller -> Label] /\ arg' \in [Caller -> Rec \cup {NoRec}]
           /\ \A d \in Caller : /\ pc'[d] = IF d = c THEN label ELSE pc[d]
                               /\ arg'[d] = IF d = c /\ label = "idle" THEN NoRec ELSE arg[d]
BY DEF Goto, Inv, Types

\* So does writing an audit entry.
LEMMA LogMoves ==
    ASSUME Inv, NEW c \in Caller, NEW r \in Rec, NEW action \in Action,
           NEW label \in {"idle", "read", "list"}, LogAbout(c, r, action, label)
    PROVE  /\ pc' \in [Caller -> Label] /\ arg' \in [Caller -> Rec \cup {NoRec}]
           /\ entry' \in [Caller -> Action \X {"idle", "read", "list"}]
           /\ \A d \in Caller :
                  /\ pc'[d] = IF d = c THEN "log" ELSE pc[d]
                  /\ arg'[d] = IF d = c THEN r ELSE arg[d]
                  /\ entry'[d] = IF d = c THEN <<action, label>> ELSE entry[d]
BY DEF LogAbout, Inv, Types, Label

\* The row of no recommendation, and of none made yet, has its type.
LEMMA NoRowType == NoRow \in RowType
BY DEF NoRow, RowType

-----------------------------------------------------------------------------
(* What one call's step does, whichever it is.                             *)

\* It sees to its own business.
LEMMA OthersStay ==
    ASSUME Inv, NEW c \in Caller, Step(c)
    PROVE  \A d \in Caller \ {c} : /\ pc'[d] = pc[d] /\ arg'[d] = arg[d]
                                   /\ entry'[d] = entry[d] /\ offer'[d] = offer[d]
<1>1. CASE Generate(c) \/ Look(c) \/ Insert(c) \/ WriteAudit(c)
  BY <1>1 DEF Generate, Look, Insert, WriteAudit, Goto, LogAbout, Inv, Types
<1>2. CASE Approve(c) \/ MarkExpired(c) \/ SetApproved(c)
  BY <1>2 DEF Approve, MarkExpired, SetApproved, Begin, Goto, Log, LogAbout, Inv, Types
<1>3. CASE Reject(c) \/ SetRejected(c) \/ ListPending(c) \/ ExpireListed(c)
  BY <1>3 DEF Reject, SetRejected, ListPending, ExpireListed, Begin, Goto, Log, LogAbout, Inv, Types
<1>4. CASE Apply(c) \/ ReadRow(c) \/ ReadProfile(c) \/ ReadBackoff(c) \/ UpdatePrice(c)
  BY <1>4 DEF Apply, ReadRow, ReadProfile, ReadBackoff, UpdatePrice, Begin, Goto, Inv, Types
<1>5. CASE Penalise(c) \/ Fail(c) \/ ClearBackoff(c) \/ SetApplied(c)
  BY <1>5 DEF Penalise, Fail, ClearBackoff, SetApplied, Goto, Log, LogAbout, Inv, Types
<1>6. QED
  BY <1>1, <1>2, <1>3, <1>4, <1>5 DEF Step

Undisturbed == UNCHANGED status /\ UNCHANGED told /\ UNCHANGED row

\* Few steps change a status; the others leave the rows alone.
LEMMA StatusSteps ==
    ASSUME NEW c \in Caller, Step(c)
    PROVE  \/ Undisturbed \/ Insert(c) \/ MarkExpired(c) \/ SetApproved(c)
           \/ SetRejected(c) \/ ExpireListed(c) \/ Fail(c) \/ SetApplied(c)
<1>1. CASE Generate(c) \/ Look(c) \/ WriteAudit(c) \/ Approve(c) \/ Reject(c) \/ ListPending(c)
  BY <1>1 DEF Generate, Look, WriteAudit, Approve, Reject, ListPending, store, Undisturbed
<1>2. CASE Apply(c) \/ ReadRow(c) \/ ReadProfile(c) \/ ReadBackoff(c) \/ UpdatePrice(c)
  BY <1>2 DEF Apply, ReadRow, ReadProfile, ReadBackoff, UpdatePrice, store, Undisturbed
<1>3. CASE Penalise(c) \/ ClearBackoff(c)
  BY <1>3 DEF Penalise, ClearBackoff, Undisturbed
<1>4. QED
  BY <1>1, <1>2, <1>3 DEF Step

Unsold == UNCHANGED sold

\* Only the provider's answer gives the shop a price.
LEMMA SoldSteps ==
    ASSUME NEW c \in Caller, Step(c)
    PROVE  Unsold \/ UpdatePrice(c)
<1>1. CASE Generate(c) \/ Look(c) \/ Insert(c) \/ WriteAudit(c) \/ Approve(c) \/ MarkExpired(c)
  BY <1>1 DEF Generate, Look, Insert, WriteAudit, Approve, MarkExpired, Unsold
<1>2. CASE SetApproved(c) \/ Reject(c) \/ SetRejected(c) \/ ListPending(c) \/ ExpireListed(c)
  BY <1>2 DEF SetApproved, Reject, SetRejected, ListPending, ExpireListed, Unsold
<1>3. CASE Apply(c) \/ ReadRow(c) \/ ReadProfile(c) \/ ReadBackoff(c)
  BY <1>3 DEF Apply, ReadRow, ReadProfile, ReadBackoff, Unsold
<1>4. CASE Penalise(c) \/ Fail(c) \/ ClearBackoff(c) \/ SetApplied(c)
  BY <1>4 DEF Penalise, Fail, ClearBackoff, SetApplied, Unsold
<1>5. QED
  BY <1>1, <1>2, <1>3, <1>4 DEF Step

\* A status changes along Moves, and FAILED is only written over Sellable.
LEMMA StepMoves ==
    ASSUME Inv, NEW c \in Caller, Step(c)
    PROVE  /\ status' \in [Rec -> Status]
           /\ \A r \in Rec : status'[r] = status[r] \/ <<status[r], status'[r]>> \in Moves
<1>1. status \in [Rec -> Status]
  BY DEF Inv, Types
<1>2. CASE Undisturbed
  BY <1>1, <1>2 DEF Undisturbed
<1>3. CASE Insert(c)
  BY <1>1, <1>3 DEF Insert, Existing, Set, Moves, Status
<1>4. CASE MarkExpired(c)
  BY <1>4, CallType, CompareAndSetMoves DEF MarkExpired, Moves, Status
<1>5. CASE SetApproved(c)
  BY <1>5, CallType, CompareAndSetMoves DEF SetApproved, Moves, Status
<1>6. CASE SetRejected(c)
  BY <1>6, CallType, CompareAndSetMoves DEF SetRejected, Moves, Status
<1>7. CASE ExpireListed(c)
  <2>1. \A r \in todo[c] : r \in Rec
    BY DEF Inv, Types
  <2>2. QED
    BY <1>1, <1>7, <2>1, CompareAndSetMoves DEF ExpireListed, Moves, Status
<1>8. CASE Fail(c)
  <2>1. arg[c] \in Rec /\ status[arg[c]] \in Sellable
    BY <1>8, CallType DEF Fail, Inv, Located
  <2>2. QED
    BY <1>1, <1>8, <2>1 DEF Fail, Set, Moves, Status, Sellable
<1>9. CASE SetApplied(c)
  BY <1>9, CallType, CompareAndSetMoves DEF SetApplied, Moves, Status
<1>10. QED
  BY <1>2, <1>3, <1>4, <1>5, <1>6, <1>7, <1>8, <1>9, StatusSteps

\* What is approved stays so, and what was sold stays sold.
LEMMA StaySellable ==
    ASSUME Inv, NEW c \in Caller, Step(c)
    PROVE  /\ \A r \in Rec : status[r] \in Sellable => status'[r] \in Sellable
           /\ sold \subseteq sold'
<1>1. \A r \in Rec : status[r] \in Sellable => status'[r] \in Sellable
  BY StepMoves DEF Moves, Sellable
<1>2. sold \subseteq sold'
  BY SoldSteps DEF UpdatePrice, Unsold
<1>3. QED
  BY <1>1, <1>2

\* It goes on at a label.
LEMMA PcType ==
    ASSUME Inv, NEW c \in Caller, Step(c)
    PROVE  pc' \in [Caller -> Label]
<1>1. CASE Generate(c) \/ Look(c) \/ Insert(c) \/ WriteAudit(c)
  BY <1>1 DEF Generate, Look, Insert, WriteAudit, Goto, LogAbout, Inv, Types, Label
<1>2. CASE Approve(c) \/ MarkExpired(c) \/ SetApproved(c)
  BY <1>2 DEF Approve, MarkExpired, SetApproved, Begin, Goto, Log, LogAbout, Inv, Types, Label
<1>3. CASE Reject(c) \/ SetRejected(c) \/ ListPending(c) \/ ExpireListed(c)
  BY <1>3 DEF Reject, SetRejected, ListPending, ExpireListed, Begin, Goto, Log, LogAbout, Inv,
              Types, Label
<1>4. CASE Apply(c) \/ ReadRow(c) \/ ReadProfile(c) \/ ReadBackoff(c) \/ UpdatePrice(c)
  BY <1>4 DEF Apply, ReadRow, ReadProfile, ReadBackoff, UpdatePrice, Begin, Goto, Inv, Types, Label
<1>5. CASE Penalise(c) \/ Fail(c) \/ ClearBackoff(c) \/ SetApplied(c)
  BY <1>5 DEF Penalise, Fail, ClearBackoff, SetApplied, Goto, Log, LogAbout, Inv, Types, Label
<1>6. QED
  BY <1>1, <1>2, <1>3, <1>4, <1>5 DEF Step

\* The types of the other variables.
LEMMA ArgType ==
    ASSUME Inv, NEW c \in Caller, Step(c)
    PROVE  arg' \in [Caller -> Rec \cup {NoRec}]
<1>1. CASE Generate(c) \/ Look(c) \/ Insert(c) \/ WriteAudit(c)
  BY <1>1, CallType DEF Generate, Look, Insert, WriteAudit, Goto, LogAbout, Inv, Types, Existing
<1>2. CASE Approve(c) \/ MarkExpired(c) \/ SetApproved(c)
  BY <1>2, CallType DEF Approve, MarkExpired, SetApproved, Begin, Goto, Log, LogAbout, Inv, Types,
                        Existing
<1>3. CASE Reject(c) \/ SetRejected(c) \/ ListPending(c) \/ ExpireListed(c)
  BY <1>3, CallType DEF Reject, SetRejected, ListPending, ExpireListed, Begin, Goto, Log,
                        LogAbout, Inv, Types, Existing
<1>4. CASE Apply(c) \/ ReadRow(c) \/ ReadProfile(c) \/ ReadBackoff(c) \/ UpdatePrice(c)
  BY <1>4, CallType DEF Apply, ReadRow, ReadProfile, ReadBackoff, UpdatePrice, Begin, Goto, Inv,
                        Types, Existing
<1>5. CASE Penalise(c) \/ Fail(c) \/ ClearBackoff(c) \/ SetApplied(c)
  BY <1>5, CallType DEF Penalise, Fail, ClearBackoff, SetApplied, Goto, Log, LogAbout, Inv, Types,
                        Existing
<1>6. QED
  BY <1>1, <1>2, <1>3, <1>4, <1>5 DEF Step

LEMMA EntryType ==
    ASSUME Inv, NEW c \in Caller, Step(c)
    PROVE  entry' \in [Caller -> Action \X {"idle", "read", "list"}]
<1>1. CASE Generate(c) \/ Look(c) \/ Insert(c) \/ WriteAudit(c)
  BY <1>1 DEF Generate, Look, Insert, WriteAudit, Goto, LogAbout, Inv, Types, NoEntry, Action,
              call, store
<1>2. CASE Approve(c) \/ MarkExpired(c) \/ SetApproved(c)
  BY <1>2 DEF Approve, MarkExpired, SetApproved, Begin, Goto, Log, LogAbout, Inv, Types, NoEntry,
              Action, call, store
<1>3. CASE Reject(c) \/ SetRejected(c) \/ ListPending(c) \/ ExpireListed(c)
  BY <1>3 DEF Reject, SetRejected, ListPending, ExpireListed, Begin, Goto, Log, LogAbout, Inv,
              Types, NoEntry, Action, call, store
<1>4. CASE Apply(c) \/ ReadRow(c) \/ ReadProfile(c) \/ ReadBackoff(c) \/ UpdatePrice(c)
  BY <1>4 DEF Apply, ReadRow, ReadProfile, ReadBackoff, UpdatePrice, Begin, Goto, Inv, Types,
              NoEntry, Action, call, store
<1>5. CASE Penalise(c) \/ Fail(c) \/ ClearBackoff(c) \/ SetApplied(c)
  BY <1>5 DEF Penalise, Fail, ClearBackoff, SetApplied, Goto, Log, LogAbout, Inv, Types, NoEntry,
              Action, call, store
<1>6. QED
  BY <1>1, <1>2, <1>3, <1>4, <1>5 DEF Step

LEMMA OfferStays ==
    ASSUME Inv, NEW c \in Caller, Step(c)
    PROVE  offer' \in [Caller -> RowType]
<1>0. /\ offer \in [Caller -> RowType] /\ NoRow \in RowType
      /\ profile \in Profile /\ clock \in Nat
  BY NoRowType DEF Inv, Types
<1>1. CASE Generate(c)
  BY <1>0, <1>1, OfferType DEF Generate
<1>2. CASE Look(c) \/ Insert(c)
  BY <1>0, <1>2 DEF Look, Insert
<1>3. CASE offer' = offer
  BY <1>0, <1>3
<1>4. Generate(c) \/ Look(c) \/ Insert(c) \/ offer' = offer
  BY DEF Step, WriteAudit, Approve, MarkExpired, SetApproved, Reject, SetRejected, ListPending,
         ExpireListed, Apply, ReadRow, ReadProfile, ReadBackoff, UpdatePrice, Penalise, Fail,
         ClearBackoff, SetApplied
<1>5. QED
  BY <1>1, <1>2, <1>3, <1>4

LEMMA RestType ==
    ASSUME Inv, NEW c \in Caller, Step(c)
    PROVE  /\ clock' = clock /\ crashes' = crashes /\ profile' = profile
           /\ row' \in [Rec -> RowType] /\ told' \in [Rec -> Nat]
           /\ audit' \subseteq (Rec \X Action) /\ sold' \subseteq Rec
           /\ todo' \in [Caller -> SUBSET Rec]
<1>1. CASE Generate(c) \/ Look(c) \/ Insert(c) \/ WriteAudit(c)
  BY <1>1, CallType DEF Generate, Look, Insert, WriteAudit, Goto, LogAbout, Inv, Types, Won,
                        store, Set, Existing
<1>2. CASE Approve(c) \/ MarkExpired(c) \/ SetApproved(c)
  BY <1>2, CallType DEF Approve, MarkExpired, SetApproved, Begin, Goto, Log, LogAbout, Inv, Types,
                        Won, store, Set, Existing
<1>3. CASE Reject(c) \/ SetRejected(c) \/ ListPending(c) \/ ExpireListed(c)
  <2>1. todo' \in [Caller -> SUBSET Rec]
    BY <1>3 DEF Reject, SetRejected, ListPending, ExpireListed, Inv, Types
  <2>2. QED
    BY <1>3, <2>1, CallType DEF Reject, SetRejected, ListPending, ExpireListed, Inv, Types, Won,
                                store
<1>4. CASE Apply(c) \/ ReadRow(c) \/ ReadProfile(c) \/ ReadBackoff(c) \/ UpdatePrice(c)
  BY <1>4, CallType DEF Apply, ReadRow, ReadProfile, ReadBackoff, UpdatePrice, Begin, Goto, Inv,
                        Types, Won, store, Set, Existing
<1>5. CASE Penalise(c) \/ Fail(c) \/ ClearBackoff(c) \/ SetApplied(c)
  BY <1>5, CallType DEF Penalise, Fail, ClearBackoff, SetApplied, Goto, Log, LogAbout, Inv, Types,
                        Won, store, Set, Existing
<1>6. QED
  BY <1>1, <1>2, <1>3, <1>4, <1>5 DEF Step

\* Every step of a call keeps the types.
LEMMA TypesStep ==
    ASSUME Inv, NEW c \in Caller, Step(c)
    PROVE  Types'
<1>1. clock \in Nat /\ crashes \in Nat /\ profile \in Profile
  BY DEF Inv, Types
<1>2. QED
  BY <1>1, StepMoves, PcType, ArgType, EntryType, OfferStays, RestType DEF Types

\* A step changes one status at most.
LEMMA OneStatus ==
    ASSUME Inv, NEW c \in Caller, Step(c)
    PROVE  \E s \in Rec \cup {NoRec} : \A r \in Rec \ {s} : status'[r] = status[r]
<1>1. CASE Undisturbed
  BY <1>1 DEF Undisturbed
<1>2. CASE Insert(c)
  BY <1>2 DEF Insert, Set, Inv, Types
<1>3. CASE MarkExpired(c) \/ SetApproved(c) \/ SetRejected(c) \/ SetApplied(c) \/ Fail(c)
  <2>1. \A r \in Rec \ {arg[c]} : status'[r] = status[r]
    BY <1>3 DEF MarkExpired, SetApproved, SetRejected, SetApplied, Fail, CompareAndSet, Set,
       Inv, Types
  <2>2. QED
    BY <2>1 DEF Inv, Types
<1>4. CASE ExpireListed(c)
  BY <1>4 DEF ExpireListed, CompareAndSet, Set, Inv, Types
<1>5. QED
  BY <1>1, <1>2, <1>3, <1>4, StatusSteps

-----------------------------------------------------------------------------
(* The parts of the invariant, under a step of a call.                     *)

\* The call itself is where Located says.
LEMMA SelfLocated ==
    ASSUME Inv, NEW c \in Caller, Step(c)
    PROVE  /\ pc'[c] \notin {"idle", "look", "insert", "list"} => arg'[c] \in Rec
           /\ pc'[c] \in {"profile", "backoff", "call", "penalise", "fail", "clear", "applied"}
                 => status'[arg'[c]] \in Sellable
           /\ pc'[c] \in {"clear", "applied"} => arg'[c] \in sold'
           /\ pc'[c] = "log" /\ entry'[c][1] = "APPLIED" => arg'[c] \in sold'
<1> USE DEF Inv, Types, Located
<1>1. CASE Generate(c) \/ Look(c) \/ Insert(c) \/ ListPending(c)
  BY <1>1 DEF Generate, Look, Insert, ListPending, Existing, Goto, LogAbout
<1>2. CASE WriteAudit(c)
  BY <1>2, CallType DEF WriteAudit, Goto
<1>3. CASE Approve(c) \/ Reject(c) \/ Apply(c)
  BY <1>3 DEF Approve, Reject, Apply, Begin, Existing
<1>4. CASE MarkExpired(c) \/ SetApproved(c) \/ SetRejected(c)
  BY <1>4, CallType DEF MarkExpired, SetApproved, SetRejected, Goto, Log, LogAbout
<1>5. CASE ExpireListed(c)
  BY <1>5 DEF ExpireListed, Goto, LogAbout
<1>6. CASE ReadRow(c) \/ ReadProfile(c) \/ ReadBackoff(c)
  BY <1>6, CallType DEF ReadRow, ReadProfile, ReadBackoff, Goto, store, Sellable
<1>7. CASE UpdatePrice(c)
  BY <1>7, CallType DEF UpdatePrice, Goto, store
<1>8. CASE Penalise(c) \/ ClearBackoff(c)
  BY <1>8, CallType DEF Penalise, ClearBackoff, Goto
<1>9. CASE Fail(c) \/ SetApplied(c)
  BY <1>9, CallType DEF Fail, SetApplied, Log, LogAbout
<1>10. QED
  BY <1>1, <1>2, <1>3, <1>4, <1>5, <1>6, <1>7, <1>8, <1>9 DEF Step

\* The other calls stay there, too: what they rely on is stable.
LEMMA LocatedStep ==
    ASSUME Inv, NEW c \in Caller, Step(c)
    PROVE  Located'
<1> SUFFICES ASSUME NEW d \in Caller
             PROVE  /\ pc'[d] \notin {"idle", "look", "insert", "list"} => arg'[d] \in Rec
                    /\ pc'[d] \in {"profile", "backoff", "call", "penalise", "fail", "clear",
                                   "applied"} => status'[arg'[d]] \in Sellable
                    /\ pc'[d] \in {"clear", "applied"} => arg'[d] \in sold'
                    /\ pc'[d] = "log" /\ entry'[d][1] = "APPLIED" => arg'[d] \in sold'
  BY DEF Located
<1>1. CASE d = c
  BY <1>1, SelfLocated
<1>2. CASE d # c
  BY <1>2, OthersStay, StaySellable DEF Inv, Located
<1>3. QED
  BY <1>1, <1>2

\* Rows leave the margin, from the moment their price is worked out.
LEMMA PayingStep ==
    ASSUME Inv, NEW c \in Caller, Step(c)
    PROVE  Paying'
<1>1. \A d \in Caller \ {c} : pc'[d] \in {"look", "insert"} => offer'[d].spare \in Nat
  BY OthersStay DEF Inv, Paying
<1>2. CASE Generate(c)
  <2>1. PICK quote \in Quote :
            LET price == Recommended(profile, quote[1], quote[2])
            IN offer' = [offer EXCEPT ![c] =
                   [price |-> price, quote |-> quote, created |-> clock,
                    spare |-> Profit(profile, price) - price * profile.margin]]
    BY <1>2 DEF Generate
  <2>2. offer'[c].spare \in Nat
    BY <2>1, OfferType DEF Inv, Types
  <2>3. QED
    BY <1>1, <1>2, <2>2 DEF Generate, store, Inv, Paying
<1>3. CASE Look(c)
  BY <1>1, <1>3 DEF Look, Goto, store, Inv, Types, Paying
<1>4. CASE Insert(c)
  BY <1>1, <1>4 DEF Insert, LogAbout, Set, Existing, Inv, Types, Paying
<1>5. CASE ~(Generate(c) \/ Look(c) \/ Insert(c))
  <2>1. pc'[c] \notin {"look", "insert"}
    BY <1>5, CallType DEF Step, WriteAudit, Approve, MarkExpired, SetApproved, Reject, SetRejected,
       ListPending, ExpireListed, Apply, ReadRow, ReadProfile, ReadBackoff, UpdatePrice, Penalise,
       Fail, ClearBackoff, SetApplied, Begin, Goto, Log, LogAbout, Inv, Types
  <2>2. UNCHANGED row
    BY <1>5 DEF Step, WriteAudit, Approve, MarkExpired, SetApproved, Reject, SetRejected,
       ListPending, ExpireListed, Apply, ReadRow, ReadProfile, ReadBackoff, UpdatePrice, Penalise,
       Fail, ClearBackoff, SetApplied, store
  <2>3. \A r \in Rec : status'[r] # "none" => status[r] # "none"
    <3>1. CASE UNCHANGED status
      BY <3>1
    <3>2. QED
      BY <1>5, StatusSteps, CallType, CompareAndSetMoves, StepMoves DEF Fail, Set, Undisturbed, 
         MarkExpired, SetApproved, SetRejected, ExpireListed, SetApplied, Inv, Types, Located,
         Sellable, Status
  <2>4. QED
    BY <1>1, <2>1, <2>2, <2>3 DEF Inv, Paying
<1>6. QED
  BY <1>2, <1>3, <1>4, <1>5

\* Only approved recommendations are sold.
LEMMA SoldStep ==
    ASSUME Inv, NEW c \in Caller, Step(c)
    PROVE  SoldIsApproved'
<1>1. CASE UpdatePrice(c)
  BY <1>1, CallType DEF UpdatePrice, store, Inv, Located, SoldIsApproved, Sellable
<1>2. CASE Unsold
  BY <1>2, StaySellable DEF Inv, Types, SoldIsApproved, Unsold
<1>3. QED
  BY <1>1, <1>2, SoldSteps

\* Only sold ones are marked or audited as applied.
LEMMA AppliedStep ==
    ASSUME Inv, NEW c \in Caller, Step(c)
    PROVE  AppliedIsSold'
<1>1. \A r \in Rec : status'[r] = "applied" => r \in sold'
  <2>1. CASE SetApplied(c)
    <3>1. arg[c] \in Rec /\ arg[c] \in sold /\ sold' = sold
      BY <2>1, CallType DEF SetApplied, Inv, Located
    <3>2. \A r \in Rec : r # arg[c] => status'[r] = status[r]
      BY <2>1, <3>1, CompareAndSetMoves DEF SetApplied, Status
    <3>3. QED
      BY <3>1, <3>2 DEF Inv, AppliedIsSold
  <2>2. CASE Undisturbed
    BY <2>2, StaySellable DEF Undisturbed, Inv, AppliedIsSold
  <2>3. CASE Insert(c) \/ Fail(c)
    BY <2>3, StaySellable DEF Insert, Fail, Set, Inv, Types, AppliedIsSold
  <2>4. CASE MarkExpired(c) \/ SetApproved(c) \/ SetRejected(c) \/ ExpireListed(c)
    <3>1. \A r \in Rec : status'[r] = "applied" => status[r] = "applied"
      <4>1. CASE MarkExpired(c)
        BY <4>1, CallType, CompareAndSetMoves DEF MarkExpired, Status
      <4>2. CASE SetApproved(c)
        BY <4>2, CallType, CompareAndSetMoves DEF SetApproved, Status
      <4>3. CASE SetRejected(c)
        BY <4>3, CallType, CompareAndSetMoves DEF SetRejected, Status
      <4>4. CASE ExpireListed(c)
        <5>1. \A r \in todo[c] : r \in Rec
          BY DEF Inv, Types
        <5>2. QED
          BY <4>4, <5>1, CompareAndSetMoves DEF ExpireListed, Status
      <4>5. QED
        BY <2>4, <4>1, <4>2, <4>3, <4>4
    <3>2. QED
      BY <3>1, StaySellable DEF Inv, AppliedIsSold
  <2>5. QED
    BY <2>1, <2>2, <2>3, <2>4, StatusSteps
<1>2. \A r \in Rec : <<r, "APPLIED">> \in audit' => r \in sold'
  <2>1. CASE WriteAudit(c)
    BY <2>1, CallType, StaySellable DEF WriteAudit, Inv, Located, AppliedIsSold
  <2>2. CASE UNCHANGED audit
    BY <2>2, StaySellable DEF Inv, AppliedIsSold
  <2>3. WriteAudit(c) \/ UNCHANGED audit
    BY DEF Step, Generate, Look, Insert, Approve, MarkExpired, SetApproved, Reject, SetRejected,
       ListPending, ExpireListed, Apply, ReadRow, ReadProfile, ReadBackoff, UpdatePrice, Penalise,
       Fail, ClearBackoff, SetApplied, store
  <2>4. QED
    BY <2>1, <2>2, <2>3
<1>3. QED
  BY <1>1, <1>2 DEF AppliedIsSold

\* A decision is told to one call, and only while there is none.
LEMMA ToldStep ==
    ASSUME Inv, NEW c \in Caller, Step(c)
    PROVE  ToldOnce'
<1> SUFFICES ASSUME NEW r \in Rec
             PROVE  IF status'[r] \in {"none", "pending"} THEN told'[r] = 0 ELSE told'[r] <= 1
  BY DEF ToldOnce
<1>1. /\ told[r] \in Nat /\ status[r] \in Status
      /\ IF status[r] \in {"none", "pending"} THEN told[r] = 0 ELSE told[r] <= 1
  BY DEF Inv, Types, ToldOnce
<1>2. status'[r] \in {"none", "pending"} => status[r] \in {"none", "pending"}
  BY StepMoves DEF Moves
<1>3. CASE told' = told
  BY <1>1, <1>2, <1>3
<1>4. CASE told' # told
  <2>1. /\ SetApproved(c) \/ SetRejected(c)
        /\ status[arg[c]] = "pending" /\ Won(c)
    <3>1. SetApproved(c) \/ SetRejected(c)
      BY <1>4, StatusSteps DEF Undisturbed, Insert, MarkExpired, ExpireListed, Fail, SetApplied
    <3>2. QED
      BY <1>4, <3>1 DEF SetApproved, SetRejected
  <2>2. arg[c] \in Rec
    BY <2>1, CallType DEF SetApproved, SetRejected
  <2>3. status'[arg[c]] \in {"approved", "rejected"}
    BY <2>1, <2>2, CompareAndSetMoves DEF SetApproved, SetRejected, Status
  <2>4. told'[r] = IF r = arg[c] THEN told[r] + 1 ELSE told[r]
    BY <2>1, <2>2 DEF Won, Inv, Types
  <2>5. QED
    BY <1>1, <1>2, <2>1, <2>2, <2>3, <2>4
<1>5. QED
  BY <1>3, <1>4

\* The call that decides holds the entry until it has written it.
LEMMA AuditedStep ==
    ASSUME Inv, NEW c \in Caller, Step(c)
    PROVE  DecisionsAudited'
<1> DEFINE Holds(d, r, what) == pc[d] = "log" /\ arg[d] = r /\ entry[d][1] = what
           Known(r, what) == <<r, what>> \in audit \/ \E d \in Caller : Holds(d, r, what)
<1>1. \A r \in Rec, what \in Action : Known(r, what) => Known(r, what)'
  <2> SUFFICES ASSUME NEW r \in Rec, NEW what \in Action, Known(r, what)
               PROVE  Known(r, what)'
    OBVIOUS
  <2>1. audit \subseteq audit'
    BY DEF Step, Generate, Look, Insert, WriteAudit, Approve, MarkExpired, SetApproved, Reject,
       SetRejected, ListPending, ExpireListed, Apply, ReadRow, ReadProfile, ReadBackoff,
       UpdatePrice, Penalise, Fail, ClearBackoff, SetApplied, store
  <2>2. CASE <<r, what>> \in audit
    BY <2>1, <2>2
  <2>3. CASE \E d \in Caller \ {c} : Holds(d, r, what)
    BY <2>3, OthersStay
  <2>4. CASE Holds(c, r, what)
    <3>1. WriteAudit(c)
      BY <2>4 DEF Step, Generate, Look, Insert, Approve, MarkExpired, SetApproved, Reject,
         SetRejected, ListPending, ExpireListed, Apply, ReadRow, ReadProfile, ReadBackoff,
         UpdatePrice, Penalise, Fail, ClearBackoff, SetApplied, Begin
    <3>2. QED
      BY <2>4, <3>1 DEF WriteAudit
  <2>5. QED
    BY <2>2, <2>3, <2>4
<1>2. ASSUME NEW r \in Rec, crashes' = 0, status'[r] \in DOMAIN Verdict,
             NEW what \in Action, what = Verdict[status'[r]]
      PROVE  Known(r, what)'
  <2>1. crashes = 0
    BY <1>2, RestType
  <2>2. CASE status[r] \in DOMAIN Verdict
    <3>1. what = Verdict[status[r]]
      BY <1>2, <2>2, StepMoves DEF Moves, Verdict
    <3>2. Known(r, what)
      BY <2>1, <2>2, <3>1 DEF Inv, DecisionsAudited
    <3>3. QED
      BY <1>1, <3>1, <3>2
  <2>3. CASE status[r] \notin DOMAIN Verdict
    <3>1. status[r] = "pending" /\ status'[r] \in {"approved", "rejected"}
      BY <1>2, <2>3, StepMoves DEF Moves, Verdict
    <3>2. \/ SetApproved(c) /\ status'[r] = "approved" /\ r = arg[c] /\ status[arg[c]] = "pending"
          \/ SetRejected(c) /\ status'[r] = "rejected" /\ r = arg[c] /\ status[arg[c]] = "pending"
      <4>1. ~Undisturbed /\ ~Insert(c) /\ ~Fail(c)
        BY <3>1 DEF Undisturbed, Insert, Fail, Existing, Set, Inv, Types
      <4>2. ~MarkExpired(c)
        BY <3>1, CallType, CompareAndSetMoves DEF MarkExpired, Status
      <4>3. ~ExpireListed(c)
        <5>1. \A s \in todo[c] : s \in Rec
          BY DEF Inv, Types
        <5>2. QED
          BY <3>1, <5>1, CompareAndSetMoves DEF ExpireListed, Status
      <4>4. ~SetApplied(c)
        BY <3>1, CallType, CompareAndSetMoves DEF SetApplied, Status
      <4>5. CASE SetApproved(c)
        BY <3>1, <4>5, CallType, CompareAndSetMoves DEF SetApproved, Status
      <4>6. CASE SetRejected(c)
        BY <3>1, <4>6, CallType, CompareAndSetMoves DEF SetRejected, Status
      <4>7. QED
        BY <4>1, <4>2, <4>3, <4>4, <4>5, <4>6, StatusSteps
    <3>3. LogAbout(c, r, what, "idle") \/ LogAbout(c, r, what, "read")
      BY <1>2, <3>1, <3>2 DEF SetApproved, SetRejected, Log, Verdict
    <3>4. Holds(c, r, what)'
      BY <3>3 DEF LogAbout, Inv, Types
    <3>5. QED
      BY <3>4
  <2>4. QED
    BY <2>2, <2>3
<1>3. \A s \in DOMAIN Verdict : Verdict[s] \in Action
  BY DEF Verdict, Action
<1>4. ASSUME NEW r \in Rec, crashes' = 0, status'[r] \in DOMAIN Verdict
      PROVE  \/ <<r, Verdict[status'[r]]>> \in audit'
             \/ \E d \in Caller : pc'[d] = "log" /\ arg'[d] = r /\ entry'[d][1] = Verdict[status'[r]]
  BY <1>2, <1>3, <1>4
<1>5. QED
  BY <1>4 DEF DecisionsAudited

-----------------------------------------------------------------------------
(* The theorems.                                                           *)

LEMMA InitInv == Init => Inv
<1> SUFFICES ASSUME Init PROVE Inv
  OBVIOUS
<1> USE DEF Init
<1>1. Types
  BY NoRowType DEF Types, NoCalls, NoEntry, Action, Label, Status
<1>2. Located /\ SoldIsApproved /\ AppliedIsSold
  BY DEF Located, SoldIsApproved, AppliedIsSold, NoCalls
<1>3. Paying /\ ToldOnce /\ DecisionsAudited
  BY DEF Paying, ToldOnce, DecisionsAudited, NoCalls, Verdict
<1>4. QED
  BY <1>1, <1>2, <1>3 DEF Inv

LEMMA NextInv == Inv /\ [Next]_vars => Inv'
<1> SUFFICES ASSUME Inv, [Next]_vars PROVE Inv'
  OBVIOUS
<1>1. ASSUME NEW c \in Caller, Step(c) PROVE Inv'
  BY <1>1, TypesStep, LocatedStep, PayingStep, SoldStep, AppliedStep, ToldStep, AuditedStep
     DEF Inv
<1>2. CASE Tick \/ Configure \/ UNCHANGED vars
  <2>1. /\ clock' \in Nat /\ profile' \in Profile
        /\ UNCHANGED <<status, row, audit, sold, call, told, crashes>>
    BY <1>2 DEF Tick, Configure, vars, store, Inv, Types
  <2>2. QED
    BY <2>1 DEF Inv, Types, Located, Paying, SoldIsApproved, AppliedIsSold, ToldOnce,
       DecisionsAudited, call
<1>3. CASE Stop
  <2>1. Types'
    BY <1>3, NoRowType DEF Stop, NoCalls, NoEntry, store, Inv, Types, Action, Label
  <2>2. Located' /\ Paying'
    BY <1>3 DEF Stop, NoCalls, store, Inv, Located, Paying
  <2>3. SoldIsApproved' /\ AppliedIsSold' /\ ToldOnce'
    BY <1>3 DEF Stop, store, Inv, SoldIsApproved, AppliedIsSold, ToldOnce
  <2>4. DecisionsAudited'
    BY <1>3 DEF Stop, DecisionsAudited, Inv, Types
  <2>5. QED
    BY <2>1, <2>2, <2>3, <2>4 DEF Inv
<1>4. QED
  BY <1>1, <1>2, <1>3 DEF Next

LEMMA Invariance == Spec => []Inv
BY InitInv, NextInv, PTL DEF Spec

\* However many approvers interleave, one of them at most decides on a
\* recommendation.
THEOREM DecidedOnceCorrect == Spec => []DecidedOnce
<1>1. Inv => DecidedOnce
  BY DEF Inv, Types, ToldOnce, DecidedOnce
<1>2. QED
  BY <1>1, Invariance, PTL

\* What is marked or audited as applied was given to the shop, though the
\* statement that marks it comes long after the provider's answer.
THEOREM AppliedIsSoldCorrect == Spec => []AppliedIsSold
<1>1. Inv => AppliedIsSold
  BY DEF Inv
<1>2. QED
  BY <1>1, Invariance, PTL

\* Every recommended price leaves the profile's margin after all fees.
THEOREM ProfitableCorrect == Spec => []Profitable
<1>1. Inv => Profitable
  BY DEF Inv, Paying, Profitable, Existing
<1>2. QED
  BY <1>1, Invariance, PTL

\* While the server has not stopped, every decision is in the audit trail, or the
\* call that took it is about to write it there.
THEOREM DecisionsAuditedCorrect == Spec => []DecisionsAudited
<1>1. Inv => DecisionsAudited
  BY DEF Inv
<1>2. QED
  BY <1>1, Invariance, PTL

-----------------------------------------------------------------------------
(* The backoff.                                                            *)

\* The failures a call has counted lie in the past, so the time up to which a
\* provider is left alone is never further away than the cap.
BackedOff ==
    /\ backoff \in [until : Nat, count : Nat] /\ backoff.until <= clock + BackoffCap
    /\ seen \in [Caller -> [now : Nat, count : Nat]]
    /\ \A c \in Caller : seen[c].now <= clock

LEMMA DurationBounded ==
    ASSUME NEW n
    PROVE  Duration(n) \in 0..BackoffCap
BY ProfitGuardAssumption DEF Duration

\* A call's step keeps the clock, and its own times in the past.
LEMMA SeenStep ==
    ASSUME Inv, BackedOff, NEW c \in Caller, Step(c)
    PROVE  /\ seen' \in [Caller -> [now : Nat, count : Nat]]
           /\ \A d \in Caller : seen'[d].now <= clock
<1> USE DEF Inv, Types, BackedOff
<1>1. NotRead \in [now : Nat, count : Nat] /\ NotRead.now <= clock
  BY DEF NotRead
<1>2. PICK new : new = [now |-> clock, count |-> backoff.count]
  OBVIOUS
<1>3. new \in [now : Nat, count : Nat] /\ new.now <= clock
  BY <1>2
<1>4. seen' = [seen EXCEPT ![c] = new] \/ seen' = [seen EXCEPT ![c] = NotRead] \/ seen' = seen
  BY <1>2 DEF Step, Generate, Look, Insert, WriteAudit, Approve, MarkExpired, SetApproved, Reject,
         SetRejected, ListPending, ExpireListed, Apply, ReadRow, ReadProfile, ReadBackoff,
         UpdatePrice, Penalise, Fail, ClearBackoff, SetApplied, Begin, Goto, Log, LogAbout
<1>5. ASSUME NEW times \in [now : Nat, count : Nat], times.now <= clock,
             seen' = [seen EXCEPT ![c] = times]
      PROVE  /\ seen' \in [Caller -> [now : Nat, count : Nat]]
             /\ \A d \in Caller : seen'[d].now <= clock
  BY <1>5
<1>6. QED
  BY <1>1, <1>3, <1>4, <1>5

LEMMA BackedOffStep ==
    ASSUME Inv, BackedOff, [Next]_vars
    PROVE  BackedOff'
<1> USE DEF Inv, Types, BackedOff
<1>1. ASSUME NEW c \in Caller, Step(c) PROVE BackedOff'
  <2>1. clock' = clock
    BY <1>1, RestType
  <2>2. CASE Penalise(c)
    <3>1. PICK n : n = seen[c].count + 1
      OBVIOUS
    <3>2. backoff' = [until |-> seen[c].now + Duration(n), count |-> n]
      BY <2>2, <3>1 DEF Penalise
    <3>3. n \in Nat /\ seen[c].now \in Nat /\ seen[c].now <= clock
      BY <3>1
    <3>4. Duration(n) \in 0..BackoffCap /\ BackoffCap \in Nat
      BY DurationBounded, ProfitGuardAssumption
    <3>5. QED
      BY <1>1, <2>1, <3>2, <3>3, <3>4, SeenStep
  <2>3. CASE ClearBackoff(c)
    BY <1>1, <2>1, <2>3, SeenStep, ProfitGuardAssumption DEF ClearBackoff
  <2>4. CASE UNCHANGED backoff
    BY <1>1, <2>1, <2>4, SeenStep
  <2>5. QED
    BY <1>1, <2>2, <2>3, <2>4
       DEF Step, Generate, Look, Insert, WriteAudit, Approve, MarkExpired, SetApproved, Reject,
           SetRejected, ListPending, ExpireListed, Apply, ReadRow, ReadProfile, ReadBackoff,
           UpdatePrice, Fail, SetApplied, store
<1>2. CASE Tick \/ Configure \/ UNCHANGED vars
  <2>1. /\ clock' \in {clock, clock + 1} /\ UNCHANGED <<backoff, seen>>
    BY <1>2 DEF Tick, Configure, vars, store, call
  <2>2. QED
    BY <2>1, ProfitGuardAssumption
<1>3. CASE Stop
  <2>1. seen' = [c \in Caller |-> NotRead] /\ UNCHANGED <<clock, backoff>>
    BY <1>3 DEF Stop, NoCalls, store
  <2>2. QED
    BY <2>1 DEF NotRead
<1>4. QED
  BY <1>1, <1>2, <1>3 DEF Next

LEMMA BackedOffAlways == Spec => []BackedOff
<1>1. Init => BackedOff
  BY ProfitGuardAssumption DEF Init, BackedOff, NoCalls, NotRead
<1>2. QED
  BY <1>1, BackedOffStep, Invariance, PTL DEF Spec

\* Every variable keeps its type.
THEOREM TypeCorrect == Spec => []TypeOK
<1>1. Inv /\ BackedOff => TypeOK
  BY DEF Inv, Types, BackedOff, TypeOK, Label
<1>2. QED
  BY <1>1, Invariance, BackedOffAlways, PTL

\* However often the provider failed, and whichever of the racing calls counts its
\* failure last, a price can be applied again after BackoffCap.
THEOREM BackoffBounded == Spec => [](backoff.until <= clock + BackoffCap)
<1>1. BackedOff => backoff.until <= clock + BackoffCap
  BY DEF BackedOff
<1>2. QED
  BY <1>1, BackedOffAlways, PTL

\* No step takes a row's status back.
THEOREM StatusOnlyMoves == Spec => StatusMoves
<1>1. Inv /\ [Next]_vars =>
          [\A r \in Rec : status'[r] = status[r] \/ <<status[r], status'[r]>> \in Moves]_vars
  BY StepMoves DEF Next, Tick, Configure, Stop, store, vars
<1>2. QED
  BY <1>1, Invariance, PTL DEF Spec, StatusMoves

\* The guard implements ApprovedPrice: the shop is given the prices of approved
\* recommendations only, and a decision is never revised.
THEOREM GuardImplementsApproval == Spec => ApprovalSpec
<1> DEFINE decision == [r \in Rec |-> Decision(r)]
<1>1. Init => Approval!Init
  BY DEF Init, Approval!Init, Decision
<1>2. ASSUME Inv, NEW c \in Caller, Step(c)
      PROVE  [Approval!Next]_<<decision, sold>>
  <2>1. CASE UpdatePrice(c)
    <3>1. arg[c] \in Rec /\ status[arg[c]] \in Sellable /\ status' = status
      BY <1>2, <2>1, CallType DEF UpdatePrice, store, Inv, Located
    <3>2. decision' = decision /\ decision[arg[c]] = "approved"
      BY <3>1 DEF Decision, Sellable
    <3>3. sold' = sold \/ Approval!Sell(arg[c])
      BY <2>1, <3>2 DEF UpdatePrice, Approval!Sell
    <3>4. QED
      BY <3>1, <3>2, <3>3 DEF Approval!Next
  <2>2. CASE Unsold
    <3>1. \A r \in Rec : Decision(r)' = Decision(r) \/ Decision(r) = "open"
      BY <1>2, StepMoves DEF Moves, Decision
    <3>2. \A r \in Rec : Decision(r) \in {"open", "approved", "refused"}
                      /\ Decision(r)' \in {"open", "approved", "refused"}
      BY DEF Decision
    <3>3. \E s \in Rec \cup {NoRec} : \A r \in Rec \ {s} : status'[r] = status[r]
      BY <1>2, OneStatus
    <3>4. CASE decision' = decision
      BY <2>2, <3>4 DEF Unsold
    <3>5. CASE decision' # decision
      <4>1. PICK s \in Rec \cup {NoRec} : \A r \in Rec \ {s} : Decision(r)' = Decision(r)
        BY <3>3 DEF Decision
      <4>2. s \in Rec /\ Decision(s)' # Decision(s)
        BY <3>5, <4>1
      <4>3. decision[s] = "open"
        BY <3>1, <4>2
      <4>4. PICK d \in {"approved", "refused"} : Decision(s)' = d
        BY <3>1, <3>2, <4>2
      <4>5. \A r \in Rec : Decision(r)' = IF r = s THEN d ELSE Decision(r)
        BY <4>1, <4>2, <4>4
      <4>6. decision' = [decision EXCEPT ![s] = d]
        BY <4>5
      <4>7. Approval!Decide(s)
        BY <2>2, <4>2, <4>3, <4>6 DEF Approval!Decide, Unsold
      <4>8. QED
        BY <4>2, <4>7 DEF Approval!Next
    <3>6. QED
      BY <3>4, <3>5
  <2>3. QED
    BY <1>2, <2>1, <2>2, SoldSteps
<1>3. Inv /\ [Next]_vars => [Approval!Next]_<<decision, sold>>
  <2>1. CASE Tick \/ Configure \/ Stop \/ UNCHANGED vars
    BY <2>1 DEF Tick, Configure, Stop, vars, store, Decision
  <2>2. QED
    BY <1>2, <2>1 DEF Next
<1>4. QED
  BY <1>1, <1>3, Invariance, PTL DEF Spec, ApprovalSpec, Approval!Spec
=============================================================================
