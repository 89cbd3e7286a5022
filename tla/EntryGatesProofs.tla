-------------------------- MODULE EntryGatesProofs --------------------------
(***************************************************************************)
(* The gates that keep an entry away from a report and from a recent loss, *)
(* for any number of symbols, cycles and days, any reports, and any        *)
(* windows.                                                                *)
(*                                                                         *)
(* The inductive invariant says what an assessment still means on a later  *)
(* day: the date it carries is the next report as of the day it was made.  *)
(***************************************************************************)
EXTENDS EntryGates, SumTheorems

\* What EarningsCapabilities says of the source in use.
NoAuthority == AbsenceAuthoritative = FALSE

\* The date an upcoming report is announced for is the next one.
Nearest(evidence, s) ==
  evidence.status = "upcoming" =>
    /\ evidence.date \in Nat
    /\ evidence.date >= evidence.asOf
    /\ \A d \in Reports[s] : d >= evidence.asOf => d >= evidence.date

Clear(s) == \A d \in Reports[s] : d - day \notin 0..BlackoutDays

CycleKnown(c) ==
  /\ cycle[c].step # "idle" => cycle[c].symbol \in Symbols
  /\ cycle[c].step = "seen" => Nearest(cycle[c].evidence, cycle[c].symbol)
  /\ NoAuthority /\ cycle[c].step = "buy" => Clear(cycle[c].symbol)

IInv ==
  /\ TypeOK
  /\ \A x \in exits : x.day <= day
  /\ \A c \in Cycles : CycleKnown(c)

-----------------------------------------------------------------------------
(***************************************************************************)
(* Earliest and latest.                                                    *)
(***************************************************************************)

\* A set of natural numbers has a first one, and First finds it.
LEMMA FirstOfNat ==
  ASSUME NEW S \in SUBSET Nat, S # {}
  PROVE  First(S) \in S /\ \A n \in S : First(S) <= n
<1>1. PICK x \in S : \A y \in S : ~ (<<y, x>> \in OpToRel(<, Nat))
  BY WFMin, NatLessThanWellFounded
<1>2. \A y \in S : ~ (y < x)
  BY <1>1 DEF OpToRel
<1>3. \A y \in S : x <= y
  BY <1>2
<1>4. QED
  BY <1>3 DEF First

\* A set of natural numbers up to a bound has a last one.
LEMMA LastOfNat ==
  ASSUME NEW n \in Nat, NEW S \in SUBSET (0..n), S # {}
  PROVE  \E d \in S : \A e \in S : e <= d
<1> DEFINE T == {n - d : d \in S}
<1>1. T \in SUBSET Nat /\ T # {}
  <2>1. \A d \in S : n - d \in Nat
    OBVIOUS
  <2>2. PICK d \in S : TRUE
    OBVIOUS
  <2>3. n - d \in T
    BY <2>2
  <2>4. QED
    BY <2>1, <2>3
<1>2. PICK d \in S : First(T) = n - d
  BY <1>1, FirstOfNat
<1>3. \A e \in S : n - d <= n - e
  BY <1>1, <1>2, FirstOfNat
<1>4. QED
  BY <1>3

\* The last losing exit of a symbol is none, or a day no losing exit of the
\* symbol is after.
LEMMA LastLossFound ==
  ASSUME TypeOK, LastDay \in Nat, NEW s \in Symbols,
         NEW x \in exits, x.symbol = s, x.lost
  PROVE  LastLosingExit(s) \in 0..LastDay /\ x.day <= LastLosingExit(s)
<1> DEFINE lost == {y.day : y \in {z \in exits : z.symbol = s /\ z.lost}}
<1>1. lost \in SUBSET (0..LastDay) /\ x.day \in lost
  BY DEF TypeOK
<1>2. \E d \in lost : \A e \in lost : e <= d
  BY <1>1, LastOfNat
<1>3. LastLosingExit(s) = CHOOSE d \in lost : \A e \in lost : e <= d
  BY <1>1 DEF LastLosingExit
<1>4. LastLosingExit(s) \in lost /\ \A e \in lost : e <= LastLosingExit(s)
  BY <1>2, <1>3
<1>5. QED
  BY <1>1, <1>4

-----------------------------------------------------------------------------
(***************************************************************************)
(* Earnings.                                                               *)
(***************************************************************************)

\* What the source may answer with, row by row.
LEMMA ResponseRows ==
  ASSUME NEW s \in Symbols, NEW today \in Nat, NEW response \in Responses(s, today),
         response.answer = "list"
  PROVE  \/ FullRows(s) \subseteq response.rows /\ response.rows \subseteq FullRows(s) \cup OtherRows(s)
         \/ response.rows = OtherRows(s)
         \/ response.rows = {r \in FullRows(s) : r.date < today}
         \/ \E x \in FullRows(s), f \in RowForms : response.rows = SpoiltRows(s, x, f)
<1> DEFINE listed == {FullRows(s), FullRows(s) \cup OtherRows(s), OtherRows(s),
                      {r \in FullRows(s) : r.date < today}}
           spoilt == {SpoiltRows(s, x, f) : x \in FullRows(s), f \in RowForms}
           useless == {"missing", "notFound", "noList"}
<1>1. response \in [answer: {"list"}, rows: listed \cup spoilt] \cup [answer: useless, rows: {{}}]
  BY DEF Responses
<1>2. response.rows \in listed \cup spoilt
  <2> HIDE DEF listed, spoilt
  <2>1. QED
    BY <1>1
<1>3. CASE response.rows \in listed
  BY <1>3
<1>4. CASE response.rows \in spoilt
  BY <1>4
<1>5. QED
  BY <1>2, <1>3, <1>4

\* The rows the source may draw from name what they are drawn from.
LEMMA RowFacts ==
  ASSUME NEW s \in Symbols
  PROVE  /\ \A d \in Reports[s] : Row(s, d, "fine") \in FullRows(s)
         /\ \A r \in FullRows(s) :
              /\ r.symbol = s /\ r.date \in Nat
              /\ \A f \in RowForms : [r EXCEPT !.form = f].symbol = s
                                     /\ [r EXCEPT !.form = f].date = r.date
                                     /\ [r EXCEPT !.form = f].form = f
         /\ \A r \in OtherRows(s) : r.symbol # s /\ r.date \in Nat
         /\ \A d : Row(s, d, "fine").date = d
<1>1. \A t \in Symbols : Reports[t] \in SUBSET Nat
  BY GatesAssumption
<1>2. \A d \in Reports[s] : Row(s, d, "fine") \in FullRows(s)
  BY DEF FullRows
<1>3. ASSUME NEW r \in FullRows(s)
      PROVE  /\ r.symbol = s /\ r.date \in Nat
             /\ \A f \in RowForms : [r EXCEPT !.form = f].symbol = s
                                    /\ [r EXCEPT !.form = f].date = r.date
                                    /\ [r EXCEPT !.form = f].form = f
  <2>1. PICK d \in Reports[s] : r = [symbol |-> s, date |-> d, form |-> "fine"]
    BY DEF FullRows, Row
  <2>2. d \in Nat
    BY <1>1
  <2>3. QED
    BY <2>1, <2>2
<1>4. ASSUME NEW r \in OtherRows(s)
      PROVE  r.symbol # s /\ r.date \in Nat
  <2>1. PICK t \in Symbols \ {s}, d \in UNION {Reports[u] : u \in Symbols} :
          r = [symbol |-> t, date |-> d, form |-> "fine"]
    BY DEF OtherRows, Row
  <2>2. d \in Nat
    BY <1>1
  <2>3. QED
    BY <2>1, <2>2
<1>5. \A d : Row(s, d, "fine").date = d
  BY DEF Row
<1>6. QED
  BY <1>2, <1>3, <1>4, <1>5

\* Every date in an answer is a day.
LEMMA DatesAreDays ==
  ASSUME NEW s \in Symbols, NEW today \in Nat, NEW response \in Responses(s, today),
         response.answer = "list",
         NEW q \in response.rows
  PROVE  q.date \in Nat
<1>1. CASE q \in FullRows(s) \cup OtherRows(s)
  BY <1>1, RowFacts
<1>2. CASE \E x \in FullRows(s), f \in RowForms : response.rows = SpoiltRows(s, x, f)
  <2>1. PICK x \in FullRows(s), f \in RowForms : response.rows = SpoiltRows(s, x, f)
    BY <1>2
  <2>2. PICK r \in FullRows(s) : q = IF r = x THEN [r EXCEPT !.form = f] ELSE r
    BY <2>1 DEF SpoiltRows
  <2>3. QED
    BY <2>2, RowFacts
<1>3. QED
  BY <1>1, <1>2, ResponseRows

\* An answer that is neither ignorant nor without a report ahead has every
\* report ahead.
LEMMA ReportsAreListed ==
  ASSUME NEW s \in Symbols, NEW today \in Nat, NEW response \in Responses(s, today),
         response.answer = "list",
         \A r \in response.rows : ~Spoils(r, s, today),
         DatesAhead(response, s, today) # {},
         NEW d \in Reports[s], d >= today
  PROVE  d \in DatesAhead(response, s, today)
<1>1. SUFFICES \E r \in response.rows : r.form # "notObject" /\ r.symbol = s /\ r.date = d
  BY DEF DatesAhead, RowsOf
<1>2. PICK y \in response.rows : y.symbol = s /\ y.date >= today
  BY DEF DatesAhead, RowsOf
<1>3. Row(s, d, "fine") \in FullRows(s) /\ Row(s, d, "fine").date = d
  BY RowFacts
<1>4. CASE FullRows(s) \subseteq response.rows /\ response.rows \subseteq FullRows(s) \cup OtherRows(s)
  BY <1>3, <1>4 DEF Row
<1>5. CASE response.rows = OtherRows(s)
  BY <1>2, <1>5, RowFacts
<1>6. CASE response.rows = {r \in FullRows(s) : r.date < today}
  BY <1>2, <1>6, RowFacts
<1>7. CASE \E x \in FullRows(s), f \in RowForms : response.rows = SpoiltRows(s, x, f)
  <2>1. PICK x \in FullRows(s), f \in RowForms : response.rows = SpoiltRows(s, x, f)
    BY <1>7
  <2>2. PICK q \in response.rows :
          q = IF Row(s, d, "fine") = x THEN [Row(s, d, "fine") EXCEPT !.form = f] ELSE Row(s, d, "fine")
    BY <1>3, <2>1 DEF SpoiltRows
  <2>3. q.symbol = s /\ q.date = d
    BY <1>3, <2>2, RowFacts
  <2>4. q.form # "notObject"
    BY DEF Spoils
  <2>5. QED
    BY <2>3, <2>4
<1>8. QED
  BY <1>4, <1>5, <1>6, <1>7, ResponseRows

\* An assessment of a symbol that calls a report upcoming names its next
\* report, whatever else the answer held.
LEMMA AssessmentFacts ==
  ASSUME NEW s \in Symbols, day \in 0..LastDay, LastDay \in Nat,
         NEW response \in Responses(s, day)
  PROVE  LET a == AssessEarnings(response, s, day) IN
         /\ a \in [symbol: Symbols \cup {NoSymbol}, status: Statuses,
                   asOf: 0..LastDay, date: Nat \cup {NoDate}]
         /\ Nearest(a, s)
<1> DEFINE a == AssessEarnings(response, s, day)
           ahead == DatesAhead(response, s, day)
<1>1. CASE \/ response.answer # "list"
           \/ \E r \in response.rows : Spoils(r, s, day)
           \/ RowsOf(response, s) = {}
           \/ ahead = {}
  <2>1. \E status \in {"unknown", "none_scheduled"} : a = Assessment(s, status, day, NoDate)
    BY <1>1 DEF AssessEarnings
  <2>2. QED
    BY <2>1 DEF Assessment, Nearest, Statuses
<1>2. CASE /\ response.answer = "list"
           /\ \A r \in response.rows : ~Spoils(r, s, day)
           /\ RowsOf(response, s) # {}
           /\ ahead # {}
  <2>1. a = Assessment(s, "upcoming", day, First(ahead))
    BY <1>2 DEF AssessEarnings
  <2>2. ahead \in SUBSET Nat /\ \A d \in ahead : d >= day
    <3>1. \A r \in response.rows : r.date \in Nat
      BY <1>2, DatesAreDays
    <3>2. QED
      BY <3>1 DEF DatesAhead, RowsOf
  <2>3. First(ahead) \in ahead /\ \A d \in ahead : First(ahead) <= d
    BY <1>2, <2>2, FirstOfNat
  <2>4. \A d \in Reports[s] : d >= day => d \in ahead
    BY <1>2, ReportsAreListed
  <2> HIDE DEF ahead
  <2>5. a.status = "upcoming" /\ a.asOf = day /\ a.date = First(ahead)
    BY <2>1 DEF Assessment
  <2>6. \A d \in Reports[s] : d \in Nat
    BY GatesAssumption
  <2>7. Nearest(a, s)
    BY <2>2, <2>3, <2>4, <2>5, <2>6 DEF Nearest
  <2>8. a \in [symbol: Symbols \cup {NoSymbol}, status: Statuses,
               asOf: 0..LastDay, date: Nat \cup {NoDate}]
    <3>1. First(ahead) \in Nat
      BY <2>2, <2>3
    <3> DEFINE d == First(ahead)
    <3> HIDE DEF d
    <3>2. Assessment(s, "upcoming", day, d) \in
            [symbol: Symbols \cup {NoSymbol}, status: Statuses,
             asOf: 0..LastDay, date: Nat \cup {NoDate}]
      BY <3>1 DEF d, Assessment, Statuses
    <3>3. QED
      BY <2>1, <3>2 DEF d
  <2>9. QED
    BY <2>7, <2>8
<1>3. QED
  BY <1>1, <1>2

-----------------------------------------------------------------------------
(***************************************************************************)
(* The cycles one by one.                                                  *)
(***************************************************************************)
\* What the proofs use of the assumptions.
LEMMA ConstantsTyped ==
  /\ LastDay \in Nat /\ BlackoutDays \in Nat /\ CooldownDays \in Nat
  /\ MaxPosition \in Nat \ {0} /\ NeverDay \notin Nat
  /\ \A s \in Symbols : Reports[s] \in SUBSET Nat
BY GatesAssumption

\* A cycle that has nothing to do, or an approved order, is of its type.
LEMMA RestingCycles ==
  /\ Idle \in CycleRecord /\ Idle.step = "idle"
  /\ \A side \in {"buy", "sell"}, s \in Symbols, n \in 0..MaxPosition :
       /\ Resting(side, s, n) \in CycleRecord
       /\ Resting(side, s, n).step = side
       /\ Resting(side, s, n).symbol = s
<1>1. NoAccount \in [held: [Symbols -> Nat], orders: SUBSET Symbols, loss: Losses]
  BY DEF NoAccount, Losses
<1>2. NoEvidence \in [symbol: Symbols \cup {NoSymbol}, status: Statuses,
                      asOf: 0..LastDay, date: Nat \cup {NoDate}]
  BY ConstantsTyped DEF NoEvidence, Assessment, Statuses
<1>3. 0 \in 0..MaxPosition
  BY ConstantsTyped
<1> DEFINE account == NoAccount
           evidence == NoEvidence
<1>4. \A step, s, n : Resting(step, s, n) =
        [step |-> step, symbol |-> s, account |-> account, evidence |-> evidence, size |-> n]
  BY DEF Resting
<1> HIDE DEF account, evidence
<1>5. ASSUME NEW step \in {"idle", "buy", "sell"}, NEW s \in Symbols \cup {NoSymbol},
             NEW n \in 0..MaxPosition
      PROVE  /\ Resting(step, s, n) \in CycleRecord
             /\ Resting(step, s, n).step = step
             /\ Resting(step, s, n).symbol = s
  <2>1. /\ account \in [held: [Symbols -> Nat], orders: SUBSET Symbols, loss: Losses]
        /\ evidence \in [symbol: Symbols \cup {NoSymbol}, status: Statuses,
                         asOf: 0..LastDay, date: Nat \cup {NoDate}]
    BY <1>1, <1>2 DEF account, evidence
  <2>2. QED
    BY <1>4, <2>1 DEF CycleRecord
<1>6. QED
  BY <1>3, <1>5 DEF Idle

\* What a step of one cycle means to the cycles, while the day stays.
LEMMA CyclesKept ==
  ASSUME IInv, NEW c \in Cycles, NEW new \in CycleRecord,
         cycle' = [cycle EXCEPT ![c] = new], day' = day,
         new.step # "idle" => new.symbol \in Symbols,
         new.step = "seen" => Nearest(new.evidence, new.symbol),
         NoAuthority /\ new.step = "buy" => Clear(new.symbol)
  PROVE  cycle' \in [Cycles -> CycleRecord] /\ \A b \in Cycles : CycleKnown(b)'
<1>1. cycle \in [Cycles -> CycleRecord]
  BY DEF IInv, TypeOK
<1>2. cycle' \in [Cycles -> CycleRecord]
  BY <1>1
<1>3. \A s : Clear(s)' <=> Clear(s)
  BY DEF Clear
<1>4. ASSUME NEW b \in Cycles
      PROVE  CycleKnown(b)'
  <2>1. CASE b = c
    <3>1. cycle'[b] = new
      BY <1>1, <2>1
    <3>2. QED
      BY <1>3, <3>1 DEF CycleKnown, Nearest
  <2>2. CASE b # c
    <3>1. cycle'[b] = cycle[b]
      BY <1>1, <2>2
    <3>2. CycleKnown(b)
      BY DEF IInv
    <3>3. QED
      BY <1>3, <3>1, <3>2 DEF CycleKnown, Nearest
  <2>3. QED
    BY <2>1, <2>2
<1>5. QED
  BY <1>2, <1>4

\* A cycle that ends leaves the others as they were.
LEMMA IdleKept ==
  ASSUME IInv, NEW c \in Cycles, cycle' = [cycle EXCEPT ![c] = Idle], day' = day
  PROVE  cycle' \in [Cycles -> CycleRecord] /\ \A b \in Cycles : CycleKnown(b)'
BY CyclesKept, RestingCycles

-----------------------------------------------------------------------------
(***************************************************************************)
(* The invariant holds initially, and every step keeps it.                 *)
(***************************************************************************)
\* No cycle has read anything.
LEMMA InitHolds == Init => IInv
<1> SUFFICES ASSUME Init PROVE IInv
  OBVIOUS
<1>1. cycle \in [Cycles -> CycleRecord] /\ \A c \in Cycles : cycle[c].step = "idle"
  BY RestingCycles DEF Init
<1>2. TypeOK
  <2>1. 0 \in 0..LastDay /\ 0 \in 0..MaxPosition
    BY ConstantsTyped
  <2>2. QED
    BY <1>1, <2>1 DEF Init, TypeOK, Losses
<1>3. QED
  BY <1>1, <1>2 DEF Init, IInv, CycleKnown

\* The assessment a cycle carries off names the next report.
LEMMA SeeKeeps ==
  ASSUME IInv, NEW c \in Cycles, NEW s \in Symbols,
         NEW response \in Responses(s, day), See(c, s, response)
  PROVE  IInv'
<1> DEFINE evidence == AssessEarnings(response, s, day)
           account == Account
           new == [step |-> "seen", symbol |-> s, account |-> account,
                   evidence |-> evidence, size |-> 0]
<1>1. /\ evidence \in [symbol: Symbols \cup {NoSymbol}, status: Statuses,
                       asOf: 0..LastDay, date: Nat \cup {NoDate}]
      /\ Nearest(evidence, s)
  BY AssessmentFacts, ConstantsTyped DEF IInv, TypeOK
<1>2. account \in [held: [Symbols -> Nat], orders: SUBSET Symbols, loss: Losses]
  BY DEF Account, IInv, TypeOK
<1>3. cycle' = [cycle EXCEPT ![c] = new]
  BY DEF See
<1> HIDE DEF evidence, account
<1>4. new \in CycleRecord
  BY <1>1, <1>2, ConstantsTyped DEF CycleRecord
<1>5. new.step = "seen" /\ new.symbol = s /\ new.evidence = evidence
  OBVIOUS
<1>6. day' = day
  BY DEF See
<1> HIDE DEF new
<1>7. cycle' \in [Cycles -> CycleRecord] /\ \A b \in Cycles : CycleKnown(b)'
  BY <1>1, <1>3, <1>4, <1>5, <1>6, CyclesKept
<1>8. QED
  BY <1>7 DEF See, IInv, TypeOK

\* An entry that passes its gates is clear of reports.
LEMMA PassingIsClear ==
  ASSUME NoAuthority, IInv, NEW c \in Cycles, cycle[c].step = "seen",
         NEW signal, signal.side = "buy", NEW halted, Passes(c, signal, halted)
  PROVE  Clear(cycle[c].symbol)
<1> DEFINE s == cycle[c].symbol
           evidence == cycle[c].evidence
<1>1. s \in Symbols /\ Nearest(evidence, s)
  BY DEF IInv, CycleKnown
<1>2. EarningsClear(evidence, s, day)
  BY DEF Passes, CheckLimits
<1>3. day \in Nat
  BY ConstantsTyped DEF IInv, TypeOK
<1> HIDE DEF s, evidence
<1>4. evidence.status = "upcoming" /\ evidence.asOf = day
      /\ evidence.date - day >= 0 /\ evidence.date - day \notin 0..BlackoutDays
  BY <1>2 DEF EarningsClear, NoAuthority
<1>5. evidence.date \in Nat /\ \A d \in Reports[s] : d >= day => d >= evidence.date
  BY <1>1, <1>4 DEF Nearest
<1>6. \A d \in Reports[s] : d \in Nat
  BY <1>1, ConstantsTyped
<1>7. \A d \in Reports[s] : d - day \notin 0..BlackoutDays
  BY <1>3, <1>4, <1>5, <1>6, ConstantsTyped
<1>8. QED
  BY <1>7 DEF Clear, s

\* An approved entry is clear of reports today.
LEMMA ApproveEntryKeeps ==
  ASSUME IInv, NEW c \in Cycles, NEW signal, NEW halted,
         ApproveEntry(c, signal, halted)
  PROVE  IInv'
<1> DEFINE s == cycle[c].symbol
<1>1. s \in Symbols
  BY DEF ApproveEntry, IInv, CycleKnown
<1>2. NoAuthority => Clear(s)
  BY PassingIsClear DEF ApproveEntry
<1>3. PICK n \in Sizes(signal, cycle[c].account, s) :
        cycle' = [cycle EXCEPT ![c] = Resting("buy", s, n)]
  BY DEF ApproveEntry
<1>4. n \in 0..MaxPosition
  BY ConstantsTyped DEF Sizes
<1> HIDE DEF s
<1> DEFINE new == Resting("buy", s, n)
<1>5. new \in CycleRecord /\ new.step = "buy" /\ new.symbol = s
  BY <1>1, <1>4, RestingCycles
<1>6. day' = day /\ cycle' = [cycle EXCEPT ![c] = new]
  BY <1>3 DEF ApproveEntry
<1> HIDE DEF new
<1>7. cycle' \in [Cycles -> CycleRecord] /\ \A b \in Cycles : CycleKnown(b)'
  BY <1>1, <1>2, <1>5, <1>6, CyclesKept
<1>8. blind' \in BOOLEAN
  BY DEF ApproveEntry, OrderOnItsWay
<1>9. QED
  BY <1>7, <1>8 DEF ApproveEntry, IInv, TypeOK

\* An approved exit is of a symbol a cycle looked at.
LEMMA ApproveExitKeeps ==
  ASSUME IInv, NEW c \in Cycles, NEW signal, NEW halted, ApproveExit(c, signal, halted)
  PROVE  IInv'
<1> DEFINE s == cycle[c].symbol
           new == Resting("sell", s, 0)
<1>1. s \in Symbols
  BY DEF ApproveExit, IInv, CycleKnown
<1>2. day' = day /\ cycle' = [cycle EXCEPT ![c] = new]
  BY DEF ApproveExit
<1> HIDE DEF s
<1>3. new \in CycleRecord /\ new.step = "sell" /\ new.symbol = s
  BY <1>1, RestingCycles, ConstantsTyped
<1> HIDE DEF new
<1>4. cycle' \in [Cycles -> CycleRecord] /\ \A b \in Cycles : CycleKnown(b)'
  BY <1>1, <1>2, <1>3, CyclesKept
<1>5. QED
  BY <1>4 DEF ApproveExit, IInv, TypeOK

\* A refused cycle starts over.
LEMMA RefuseKeeps ==
  ASSUME IInv, NEW c \in Cycles, NEW signal, NEW halted, Refuse(c, signal, halted)
  PROVE  IInv'
BY IdleKept DEF Refuse, IInv, TypeOK

\* Placing an order ends the cycle.
LEMMA PlaceEntryKeeps ==
  ASSUME IInv, NEW c \in Cycles, PlaceEntry(c)
  PROVE  IInv'
<1>1. cycle' \in [Cycles -> CycleRecord] /\ \A b \in Cycles : CycleKnown(b)'
  BY IdleKept DEF PlaceEntry
<1>2. cycle[c].size \in 0..MaxPosition
  BY DEF IInv, TypeOK, CycleRecord
<1>3. orders' \in [Symbols -> 0..MaxPosition]
  BY <1>2 DEF PlaceEntry, IInv, TypeOK
<1>4. QED
  BY <1>1, <1>3 DEF PlaceEntry, IInv, TypeOK

\* A fill adds to a position what was ordered.
LEMMA FillKeeps ==
  ASSUME IInv, NEW s \in Symbols, Fill(s)
  PROVE  IInv'
<1>1. held' \in [Symbols -> Nat] /\ orders' \in [Symbols -> 0..MaxPosition]
  BY ConstantsTyped DEF Fill, IInv, TypeOK
<1>2. \A b \in Cycles : CycleKnown(b)'
  BY DEF Fill, IInv, CycleKnown, Clear, Nearest
<1>3. QED
  BY <1>1, <1>2 DEF Fill, IInv, TypeOK

\* An exit of today is no later than today.
LEMMA ExitsOfToday ==
  ASSUME IInv, NEW s \in Symbols, NEW lost \in BOOLEAN,
         exits' = exits \cup {[symbol |-> s, day |-> day, lost |-> lost]}, day' = day
  PROVE  /\ exits' \subseteq [symbol: Symbols, day: 0..LastDay, lost: BOOLEAN]
         /\ \A x \in exits' : x.day <= day'
BY ConstantsTyped DEF IInv, TypeOK

\* Closing a position adds an exit of today.
LEMMA CloseKeeps ==
  ASSUME IInv, NEW c \in Cycles, NEW lost \in BOOLEAN, Close(c, lost)
  PROVE  IInv'
<1> DEFINE s == cycle[c].symbol
<1>1. s \in Symbols
  BY DEF Close, IInv, CycleKnown
<1>2. cycle' \in [Cycles -> CycleRecord] /\ \A b \in Cycles : CycleKnown(b)'
  BY IdleKept DEF Close
<1>3. /\ exits' \subseteq [symbol: Symbols, day: 0..LastDay, lost: BOOLEAN]
      /\ \A x \in exits' : x.day <= day'
  BY <1>1, ExitsOfToday DEF Close
<1>4. held' \in [Symbols -> Nat]
  BY DEF Close, IInv, TypeOK
<1>5. QED
  BY <1>2, <1>3, <1>4 DEF Close, IInv, TypeOK

\* An exit of what is gone ends the cycle.
LEMMA CloseNothingKeeps ==
  ASSUME IInv, NEW c \in Cycles, CloseNothing(c)
  PROVE  IInv'
BY IdleKept DEF CloseNothing, IInv, TypeOK

\* A resting stop adds an exit of today.
LEMMA SoldElsewhereKeeps ==
  ASSUME IInv, NEW s \in Symbols, SoldElsewhere(s)
  PROVE  IInv'
<1>1. /\ exits' \subseteq [symbol: Symbols, day: 0..LastDay, lost: BOOLEAN]
      /\ \A x \in exits' : x.day <= day'
  BY ExitsOfToday DEF SoldElsewhere
<1>2. held' \in [Symbols -> Nat]
  BY DEF SoldElsewhere, IInv, TypeOK
<1>3. \A b \in Cycles : CycleKnown(b)'
  BY DEF SoldElsewhere, IInv, CycleKnown, Clear, Nearest
<1>4. QED
  BY <1>1, <1>2, <1>3 DEF SoldElsewhere, IInv, TypeOK

\* Losses touch no cycle.
LEMMA LoseKeeps ==
  ASSUME IInv, Lose
  PROVE  IInv'
<1>1. \A b \in Cycles : CycleKnown(b)'
  BY DEF Lose, IInv, CycleKnown, Clear, Nearest
<1>2. QED
  BY <1>1 DEF Lose, IInv, TypeOK, Losses

\* No order is left unsubmitted overnight, so what was clear needs to be
\* clear only today; the dates a cycle has read do not move.
LEMMA NextDayKeeps ==
  ASSUME IInv, NextDay
  PROVE  IInv'
<1>1. \A b \in Cycles : CycleKnown(b)'
  BY DEF NextDay, IInv, CycleKnown, Nearest
<1>2. day' \in 0..LastDay /\ \A x \in exits' : x.day <= day'
  BY ConstantsTyped DEF NextDay, IInv, TypeOK
<1>3. QED
  BY <1>1, <1>2 DEF NextDay, IInv, TypeOK, Losses

\* Every step keeps the invariant.
LEMMA NextHolds == IInv /\ [Next]_vars => IInv'
<1> SUFFICES ASSUME IInv, [Next]_vars PROVE IInv'
  OBVIOUS
<1>1. ASSUME NEW c \in Cycles, NEW s \in Symbols, NEW response \in Responses(s, day),
             See(c, s, response)
      PROVE  IInv'
  BY <1>1, SeeKeeps
<1>2. ASSUME NEW c \in Cycles, NEW signal \in Signals, NEW halted \in BOOLEAN,
             \/ ApproveEntry(c, signal, halted)
             \/ ApproveExit(c, signal, halted)
             \/ Refuse(c, signal, halted)
      PROVE  IInv'
  BY <1>2, ApproveEntryKeeps, ApproveExitKeeps, RefuseKeeps
<1>3. ASSUME NEW c \in Cycles,
             PlaceEntry(c) \/ CloseNothing(c) \/ \E lost \in BOOLEAN : Close(c, lost)
      PROVE  IInv'
  BY <1>3, PlaceEntryKeeps, CloseNothingKeeps, CloseKeeps
<1>4. ASSUME NEW s \in Symbols, Fill(s) \/ SoldElsewhere(s)
      PROVE  IInv'
  BY <1>4, FillKeeps, SoldElsewhereKeeps
<1>5. CASE Lose
  BY <1>5, LoseKeeps
<1>6. CASE NextDay
  BY <1>6, NextDayKeeps
<1>7. CASE UNCHANGED vars
  <2>1. \A b \in Cycles : CycleKnown(b)'
    BY <1>7 DEF vars, IInv, CycleKnown, Clear, Nearest
  <2>2. QED
    BY <1>7, <2>1 DEF vars, IInv, TypeOK
<1>8. QED
  BY <1>1, <1>2, <1>3, <1>4, <1>5, <1>6, <1>7 DEF Next

\* The invariant holds throughout.
LEMMA Inductive == Spec => []IInv
BY InitHolds, NextHolds, PTL DEF Spec

-----------------------------------------------------------------------------
(***************************************************************************)
(* Theorems.                                                               *)
(***************************************************************************)

\* Positions, orders, exits, and what a cycle has read and decided are of
\* their types.
THEOREM GatesTyped == Spec => []TypeOK
<1>1. IInv => TypeOK
  BY DEF IInv
<1>2. QED
  BY <1>1, Inductive, PTL

\* With a source whose silence proves nothing, no approved entry has a
\* report of its symbol within the blackout, whatever the source answered.
THEOREM EntriesClearOfReports ==
  ASSUME NoAuthority
  PROVE  Spec => []NoEntryIntoReport
<1>1. IInv => NoEntryIntoReport
  BY NoAuthority DEF IInv, CycleKnown, Clear, NoEntryIntoReport
<1>2. QED
  BY <1>1, Inductive, PTL

\* An entry approved in a step is not within the cooldown of any losing
\* exit of its symbol: the gate saw the last one, and no exit is after it.
LEMMA CooledEntry ==
  ASSUME IInv, [Next]_vars, NEW c \in Cycles,
         cycle[c].step # "buy", cycle'[c].step = "buy",
         NEW x \in exits, x.symbol = cycle[c].symbol, x.lost
  PROVE  day - x.day >= CooldownDays
<1>1. PICK signal \in Signals, halted \in BOOLEAN : ApproveEntry(c, signal, halted)
  <2>1. cycle \in [Cycles -> CycleRecord]
    BY DEF IInv, TypeOK
  <2>2. ASSUME NEW b \in Cycles, NEW new, new.step # "buy",
               cycle' = [cycle EXCEPT ![b] = new]
        PROVE  FALSE
    BY <2>1, <2>2
  <2>3. ASSUME NEW b \in Cycles, cycle' = [cycle EXCEPT ![b] = Idle]
        PROVE  FALSE
    BY <2>2, <2>3, RestingCycles
  <2>4. ASSUME NEW b \in Cycles, NEW s \in Symbols, NEW response, See(b, s, response)
        PROVE  FALSE
    <3> DEFINE new == [step |-> "seen", symbol |-> s, account |-> Account,
                       evidence |-> AssessEarnings(response, s, day), size |-> 0]
    <3>1. new.step = "seen" /\ cycle' = [cycle EXCEPT ![b] = new]
      BY <2>4 DEF See
    <3> HIDE DEF new
    <3>2. QED
      BY <2>2, <3>1
  <2>5. ASSUME NEW b \in Cycles, NEW signal, NEW halted, ApproveExit(b, signal, halted)
        PROVE  FALSE
    <3> DEFINE new == Resting("sell", cycle[b].symbol, 0)
    <3>1. new.step = "sell" /\ cycle' = [cycle EXCEPT ![b] = new]
      BY <2>5 DEF ApproveExit, Resting
    <3> HIDE DEF new
    <3>2. QED
      BY <2>2, <3>1
  <2>6. ASSUME NEW b \in Cycles, NEW signal, NEW halted, Refuse(b, signal, halted)
        PROVE  FALSE
    BY <2>3, <2>6 DEF Refuse
  <2>7. ASSUME NEW b \in Cycles,
               PlaceEntry(b) \/ CloseNothing(b) \/ \E lost \in BOOLEAN : Close(b, lost)
        PROVE  FALSE
    BY <2>3, <2>7 DEF PlaceEntry, CloseNothing, Close
  <2>8. CASE \/ \E s \in Symbols : Fill(s) \/ SoldElsewhere(s)
             \/ Lose \/ NextDay \/ UNCHANGED vars
    BY <2>8 DEF Fill, SoldElsewhere, Lose, NextDay, vars
  <2>9. PICK b \in Cycles, signal \in Signals, halted \in BOOLEAN : ApproveEntry(b, signal, halted)
    BY <2>4, <2>5, <2>6, <2>7, <2>8 DEF Next
  <2>10. b = c
    BY <2>1, <2>9 DEF ApproveEntry
  <2>11. QED
    BY <2>9, <2>10
<1> DEFINE s == cycle[c].symbol
<1>2. s \in Symbols
  BY <1>1 DEF ApproveEntry, IInv, CycleKnown
<1>3. Cooled(LastLosingExit(s), day)
  BY <1>1 DEF ApproveEntry, Passes, CheckLimits
<1>4. LastLosingExit(s) \in 0..LastDay /\ x.day <= LastLosingExit(s)
  BY <1>2, LastLossFound, ConstantsTyped DEF IInv
<1>5. day \in Nat /\ x.day \in Nat /\ x.day <= day
  BY ConstantsTyped DEF IInv, TypeOK
<1>6. CASE CooldownDays = 0
  BY <1>5, <1>6
<1>7. CASE CooldownDays > 0
  <2>1. LastLosingExit(s) # NeverDay
    BY <1>4, ConstantsTyped
  <2>2. day - LastLosingExit(s) >= CooldownDays
    BY <1>3, <1>7, <2>1 DEF Cooled
  <2>3. QED
    BY <1>4, <1>5, <2>2, ConstantsTyped
<1>8. QED
  BY <1>6, <1>7, ConstantsTyped

\* No entry is approved within the cooldown of a losing exit of its symbol,
\* also of one a winning exit came after.
THEOREM EntriesCooled == Spec => CooldownHonoured
<1> DEFINE Honoured ==
      \A c \in Cycles : cycle[c].step # "buy" /\ cycle'[c].step = "buy" =>
        \A x \in exits : x.symbol = cycle[c].symbol /\ x.lost => day - x.day >= CooldownDays
<1>1. IInv /\ [Next]_vars => [Honoured]_vars
  BY CooledEntry
<1>2. Spec => [][Honoured]_vars
  BY <1>1, Inductive, PTL DEF Spec
<1>3. QED
  BY <1>2 DEF CooldownHonoured

-----------------------------------------------------------------------------
(***************************************************************************)
(* The caps.  An approval that saw every order admits one entry at a time, *)
(* with room for it: nothing but its own fill uses that room up.           *)
(***************************************************************************)
Total(f, S) == SumFunctionOnSet(f, S)

InSector(k) == {s \in Symbols : SectorOf[s] = k}

Sectors == {SectorOf[s] : s \in Symbols}

Positive(f) == {s \in Symbols : f[s] > 0}

Engaged == {s \in Symbols : held[s] + orders[s] > 0}

CapsTyped ==
  /\ held \in [Symbols -> Nat] /\ orders \in [Symbols -> Nat]
  /\ DOMAIN cycle = Cycles
  /\ \A c \in Cycles :
       /\ cycle[c].step # "idle" => cycle[c].symbol \in Symbols
       /\ cycle[c].step = "buy" => cycle[c].size \in 1..MaxPosition
  /\ blind \in BOOLEAN

OneAtATime ==
  \A c \in Cycles : cycle[c].step = "buy" =>
    /\ \A b \in Cycles : cycle[b].step = "buy" => b = c
    /\ \A s \in Symbols : orders[s] = 0

RoomForEach ==
  \A c \in Cycles : cycle[c].step = "buy" =>
    /\ Cardinality(Positive(held)) < MaxOpenPositions
    /\ Total(held, Symbols) < MaxExposure
    /\ Total(held, InSector(SectorOf[cycle[c].symbol])) + cycle[c].size <= MaxSector

CapsKept ==
  /\ Cardinality(Engaged) <= MaxOpenPositions
  /\ Total(held, Symbols) + Total(orders, Symbols) < MaxExposure + MaxPosition
  /\ \A k \in Sectors : Total(held, InSector(k)) + Total(orders, InSector(k)) <= MaxSector

CapsInv == CapsTyped /\ (~blind => OneAtATime /\ RoomForEach /\ CapsKept)

\* The constants of the caps, and sets of symbols.
LEMMA CapsConstants ==
  /\ IsFiniteSet(Symbols)
  /\ MaxOpenPositions \in Nat \ {0} /\ MaxExposure \in Nat \ {0}
  /\ MaxSector \in Nat \ {0} /\ MaxPosition \in Nat \ {0}
  /\ \A S \in SUBSET Symbols : IsFiniteSet(S) /\ Cardinality(S) \in Nat
  /\ \A k : InSector(k) \in SUBSET Symbols
  /\ \A s \in Symbols : SectorOf[s] \in Sectors
<1>1. IsFiniteSet(Symbols)
  BY GatesAssumption
<1>2. \A S \in SUBSET Symbols : IsFiniteSet(S) /\ Cardinality(S) \in Nat
  BY <1>1, FS_Subset, FS_CardinalityType
<1>3. QED
  BY <1>1, <1>2, GatesAssumption DEF InSector, Sectors

\* A total is a natural number.
LEMMA TotalNat ==
  ASSUME NEW f \in [Symbols -> Nat], NEW S \in SUBSET Symbols
  PROVE  Total(f, S) \in Nat
BY CapsConstants, SumNat DEF Total

\* A total in which one exposure changed.
LEMMA TotalChange ==
  ASSUME NEW f \in [Symbols -> Nat], NEW g \in [Symbols -> Nat], NEW S \in SUBSET Symbols,
         NEW x \in Symbols, \A y \in Symbols \ {x} : g[y] = f[y]
  PROVE  /\ Total(f, S) \in Nat /\ Total(g, S) \in Nat
         /\ x \in S => Total(g, S) + f[x] = Total(f, S) + g[x]
         /\ x \notin S => Total(g, S) = Total(f, S)
<1>1. IsFiniteSet(S) /\ \A y \in S : f[y] \in Nat /\ g[y] \in Nat /\ (y # x => g[y] = f[y])
  BY CapsConstants
<1>2. Total(f, S) \in Nat /\ Total(g, S) \in Nat
  BY TotalNat
<1>3. QED
  BY <1>1, <1>2, SumChange DEF Total

\* A total without exposures.
LEMMA TotalZero ==
  ASSUME NEW f, NEW S \in SUBSET Symbols, \A s \in Symbols : f[s] = 0
  PROVE  Total(f, S) = 0
BY CapsConstants, SumZero DEF Total

\* The account starts empty.
LEMMA CapsInitially == Init => CapsInv
<1> SUFFICES ASSUME Init PROVE CapsInv
  OBVIOUS
<1>1. /\ held \in [Symbols -> Nat] /\ orders \in [Symbols -> Nat]
      /\ \A s \in Symbols : held[s] = 0 /\ orders[s] = 0
  BY DEF Init
<1>2. DOMAIN cycle = Cycles /\ \A c \in Cycles : cycle[c].step = "idle"
  BY RestingCycles DEF Init
<1>3. CapsTyped
  BY <1>1, <1>2 DEF Init, CapsTyped
<1>4. \A S \in SUBSET Symbols : Total(held, S) = 0 /\ Total(orders, S) = 0
  BY <1>1, TotalZero
<1>5. Engaged = {}
  BY <1>1 DEF Engaged
<1>6. CapsKept
  <2>1. Cardinality(Engaged) = 0
    BY <1>5, FS_EmptySet
  <2>2. QED
    BY <1>4, <2>1, CapsConstants DEF CapsKept
<1>7. OneAtATime /\ RoomForEach
  BY <1>2 DEF OneAtATime, RoomForEach
<1>8. QED
  BY <1>3, <1>6, <1>7 DEF CapsInv

\* A cycle does what approves nothing: no cycle comes to hold a new entry.
NoNewEntry ==
  /\ DOMAIN cycle' = Cycles
  /\ \A c \in Cycles :
       \/ cycle'[c] = cycle[c]
       \/ /\ cycle'[c].step # "buy"
          /\ cycle'[c].step # "idle" => cycle'[c].symbol \in Symbols

\* Exposure that stays or shrinks leaves the room there was.
LEMMA QuietKeepsCaps ==
  ASSUME CapsInv, NoNewEntry, orders' = orders, blind' = blind,
         held' = held \/ \E s \in Symbols : held' = [held EXCEPT ![s] = 0]
  PROVE  CapsInv'
<1>1. held \in [Symbols -> Nat] /\ orders \in [Symbols -> Nat] /\ blind \in BOOLEAN
  BY DEF CapsInv, CapsTyped
<1>2. /\ held' \in [Symbols -> Nat]
      /\ \A s \in Symbols : held'[s] <= held[s]
      /\ \A S \in SUBSET Symbols : Total(held', S) <= Total(held, S)
  <2>1. CASE held' = held
    BY <1>1, <2>1, TotalNat
  <2>2. ASSUME NEW x \in Symbols, held' = [held EXCEPT ![x] = 0]
        PROVE  /\ held' \in [Symbols -> Nat]
               /\ \A s \in Symbols : held'[s] <= held[s]
               /\ \A S \in SUBSET Symbols : Total(held', S) <= Total(held, S)
    <3>1. /\ held' \in [Symbols -> Nat] /\ \A s \in Symbols : held'[s] <= held[s]
          /\ held'[x] = 0 /\ \A y \in Symbols \ {x} : held'[y] = held[y]
      BY <1>1, <2>2
    <3>2. ASSUME NEW S \in SUBSET Symbols
          PROVE  Total(held', S) <= Total(held, S)
      <4>1. /\ Total(held, S) \in Nat /\ Total(held', S) \in Nat
            /\ x \in S => Total(held', S) + held[x] = Total(held, S) + held'[x]
            /\ x \notin S => Total(held', S) = Total(held, S)
        BY <1>1, <3>1, TotalChange
      <4>2. held[x] \in Nat
        BY <1>1
      <4>3. QED
        BY <3>1, <4>1, <4>2
    <3>3. QED
      BY <3>1, <3>2
  <2>3. QED
    BY <2>1, <2>2
<1>3. CapsTyped'
  BY <1>1, <1>2 DEF CapsInv, CapsTyped, NoNewEntry
<1>4. ASSUME ~blind
      PROVE  OneAtATime' /\ RoomForEach' /\ CapsKept'
  <2>1. \A c \in Cycles : cycle'[c].step = "buy" => cycle'[c] = cycle[c]
    BY DEF NoNewEntry
  <2>2. OneAtATime'
    BY <1>4, <2>1 DEF CapsInv, OneAtATime
  <2>3. Cardinality(Positive(held')) <= Cardinality(Positive(held))
    <3>1. Positive(held') \in SUBSET Positive(held) /\ Positive(held) \in SUBSET Symbols
      BY <1>1, <1>2 DEF Positive
    <3>2. QED
      BY <3>1, CapsConstants, FS_Subset
  <2>4. Cardinality(Engaged') <= Cardinality(Engaged)
    <3>1. Engaged' \in SUBSET Engaged /\ Engaged \in SUBSET Symbols
      BY <1>1, <1>2 DEF Engaged
    <3>2. QED
      BY <3>1, CapsConstants, FS_Subset
  <2>5. /\ Cardinality(Positive(held)) \in Nat /\ Cardinality(Positive(held')) \in Nat
        /\ Cardinality(Engaged) \in Nat /\ Cardinality(Engaged') \in Nat
    BY CapsConstants DEF Positive, Engaged
  <2>6. /\ \A S \in SUBSET Symbols : /\ Total(held, S) \in Nat /\ Total(held', S) \in Nat
                                     /\ Total(orders, S) \in Nat
    BY <1>1, <1>2, TotalNat
  <2>7. RoomForEach'
    <3> SUFFICES ASSUME NEW c \in Cycles, cycle'[c].step = "buy"
                 PROVE  /\ Cardinality(Positive(held')) < MaxOpenPositions
                        /\ Total(held', Symbols) < MaxExposure
                        /\ Total(held', InSector(SectorOf[cycle'[c].symbol])) + cycle'[c].size
                             <= MaxSector
      BY DEF RoomForEach, Positive
    <3> DEFINE S == InSector(SectorOf[cycle[c].symbol])
               n == cycle[c].size
    <3>1. cycle'[c] = cycle[c] /\ cycle[c].step = "buy"
      BY <2>1
    <3>2. /\ Cardinality(Positive(held)) < MaxOpenPositions
          /\ Total(held, Symbols) < MaxExposure
          /\ Total(held, S) + n <= MaxSector
      BY <1>4, <3>1 DEF CapsInv, RoomForEach
    <3>3. S \in SUBSET Symbols /\ n \in Nat
      BY <3>1, CapsConstants DEF CapsInv, CapsTyped
    <3> HIDE DEF S, n
    <3>4. Total(held', S) + n <= MaxSector
      BY <1>2, <2>6, <3>2, <3>3, CapsConstants
    <3>5. Total(held', Symbols) < MaxExposure
      BY <1>2, <2>6, <3>2, CapsConstants
    <3>6. Cardinality(Positive(held')) < MaxOpenPositions
      BY <2>3, <2>5, <3>2, CapsConstants
    <3>7. QED
      BY <3>1, <3>4, <3>5, <3>6 DEF S, n
  <2>8. CapsKept'
    <3>1. Cardinality(Engaged') <= MaxOpenPositions
      BY <1>4, <2>4, <2>5, CapsConstants DEF CapsInv, CapsKept
    <3>2. Total(held', Symbols) + Total(orders, Symbols) < MaxExposure + MaxPosition
      BY <1>2, <1>4, <2>6, CapsConstants DEF CapsInv, CapsKept
    <3>3. ASSUME NEW k \in Sectors
          PROVE  Total(held', InSector(k)) + Total(orders, InSector(k)) <= MaxSector
      BY <1>2, <1>4, <2>6, CapsConstants DEF CapsInv, CapsKept
    <3>4. QED
      BY <3>1, <3>2, <3>3 DEF CapsKept, Sectors, InSector, Total
  <2>9. QED
    BY <2>2, <2>7, <2>8
<1>5. QED
  BY <1>3, <1>4 DEF CapsInv

\* An approval that saw every order finds no entry but its own and leaves room
\* for it.
LEMMA ApprovalKeepsCaps ==
  ASSUME CapsInv, NEW c \in Cycles, NEW signal, NEW halted, ApproveEntry(c, signal, halted)
  PROVE  CapsInv'
<1>1. /\ cycle[c].step = "seen" /\ signal.side = "buy"
      /\ Passes(c, signal, halted)
      /\ blind' = (blind \/ OrderOnItsWay(c) \/ ~signal.sector)
      /\ held' = held /\ orders' = orders
  BY DEF ApproveEntry
<1> DEFINE s == cycle[c].symbol
           a == cycle[c].account
<1>2. PICK n \in Sizes(signal, a, s) : cycle' = [cycle EXCEPT ![c] = Resting("buy", s, n)]
  BY DEF ApproveEntry
<1>3. s \in Symbols /\ n \in 1..MaxPosition
  BY <1>1, <1>2 DEF CapsInv, CapsTyped, Sizes
<1> DEFINE new == Resting("buy", s, n)
<1>4. new.step = "buy" /\ new.symbol = s /\ new.size = n
  BY DEF Resting
<1> HIDE DEF new
<1>5. /\ DOMAIN cycle' = Cycles /\ cycle'[c] = new
      /\ \A b \in Cycles \ {c} : cycle'[b] = cycle[b]
  BY <1>2 DEF new, CapsInv, CapsTyped
<1>6. CapsTyped'
  BY <1>1, <1>3, <1>4, <1>5 DEF CapsInv, CapsTyped
<1>7. ASSUME ~blind'
      PROVE  OneAtATime' /\ RoomForEach' /\ CapsKept'
  <2>1. /\ ~blind /\ signal.sector /\ a.held = held
        /\ \A t \in Symbols : orders[t] = 0
        /\ \A b \in Cycles \ {c} : cycle[b].step # "buy"
    <3>1. ~blind /\ ~OrderOnItsWay(c) /\ signal.sector
      BY <1>1, <1>7
    <3>2. \A t \in Symbols : orders[t] \in Nat
      BY DEF CapsInv, CapsTyped
    <3>3. QED
      BY <3>1, <3>2 DEF OrderOnItsWay
  <2>2. CapsKept'
    BY <1>1, <2>1 DEF CapsInv, CapsKept, Engaged, Total
  <2>3. OneAtATime'
    BY <1>1, <1>5, <2>1 DEF OneAtATime
  <2>4. PortfolioRoom(a)
    BY <1>1 DEF Passes, CheckLimits
  <2>5. /\ Cardinality(Positive(held)) < MaxOpenPositions
        /\ Total(held, Symbols) < MaxExposure
    BY <2>1, <2>4 DEF PortfolioRoom, OpenPositions, Exposure, Positive, Total
  <2>6. Total(held, InSector(SectorOf[s])) + n <= MaxSector
    BY <1>2, <2>1 DEF Sizes, SectorExposure, InSector, Total
  <2>7. RoomForEach'
    <3>1. \A b \in Cycles : cycle'[b].step = "buy" => cycle'[b] = new
      BY <1>5, <2>1
    <3>2. QED
      BY <1>1, <1>4, <2>5, <2>6, <3>1 DEF RoomForEach, Positive, Total, InSector
  <2>8. QED
    BY <2>2, <2>3, <2>7
<1>8. QED
  BY <1>6, <1>7 DEF CapsInv

\* The entry is placed: its order takes the room that was left for it.
LEMMA PlacingKeepsCaps ==
  ASSUME CapsInv, NEW c \in Cycles, PlaceEntry(c)
  PROVE  CapsInv'
<1> DEFINE s == cycle[c].symbol
           n == cycle[c].size
<1>1. /\ cycle[c].step = "buy" /\ held' = held /\ blind' = blind
      /\ cycle' = [cycle EXCEPT ![c] = Idle]
      /\ orders' = IF orders[s] = 0 THEN [orders EXCEPT ![s] = n] ELSE orders
  BY DEF PlaceEntry
<1>2. /\ s \in Symbols /\ n \in 1..MaxPosition /\ n \in Nat
      /\ held \in [Symbols -> Nat] /\ orders \in [Symbols -> Nat]
  BY <1>1, CapsConstants DEF CapsInv, CapsTyped
<1>3. /\ DOMAIN cycle' = Cycles /\ cycle'[c].step = "idle"
      /\ \A b \in Cycles \ {c} : cycle'[b] = cycle[b]
  BY <1>1, RestingCycles DEF CapsInv, CapsTyped
<1>4. orders' \in [Symbols -> Nat]
  BY <1>1, <1>2
<1>5. CapsTyped'
  BY <1>1, <1>2, <1>3, <1>4 DEF CapsInv, CapsTyped
<1>6. ASSUME ~blind
      PROVE  OneAtATime' /\ RoomForEach' /\ CapsKept'
  <2>1. /\ \A b \in Cycles : cycle[b].step = "buy" => b = c
        /\ \A t \in Symbols : orders[t] = 0
        /\ Cardinality(Positive(held)) < MaxOpenPositions
        /\ Total(held, Symbols) < MaxExposure
        /\ Total(held, InSector(SectorOf[s])) + n <= MaxSector
        /\ \A k \in Sectors : Total(held, InSector(k)) + Total(orders, InSector(k)) <= MaxSector
    BY <1>1, <1>6 DEF CapsInv, OneAtATime, RoomForEach, CapsKept
  <2>2. \A b \in Cycles : cycle'[b].step # "buy"
    BY <1>3, <2>1
  <2>3. OneAtATime' /\ RoomForEach'
    BY <2>2 DEF OneAtATime, RoomForEach
  <2>4. orders' = [orders EXCEPT ![s] = n]
    BY <1>1, <1>2, <2>1
  <2> HIDE DEF n, s
  <2>5. \A S \in SUBSET Symbols :
          /\ Total(held, S) \in Nat
          /\ Total(orders, S) = 0
          /\ s \in S => Total(orders', S) = n
          /\ s \notin S => Total(orders', S) = 0
    <3> SUFFICES ASSUME NEW S \in SUBSET Symbols
                 PROVE  /\ Total(held, S) \in Nat
                        /\ Total(orders, S) = 0
                        /\ s \in S => Total(orders', S) = n
                        /\ s \notin S => Total(orders', S) = 0
      OBVIOUS
    <3>1. Total(held, S) \in Nat /\ Total(orders, S) = 0
      BY <1>2, <2>1, TotalNat, TotalZero
    <3>2. /\ Total(orders', S) \in Nat
          /\ s \in S => Total(orders', S) + orders[s] = Total(orders, S) + orders'[s]
          /\ s \notin S => Total(orders', S) = Total(orders, S)
      <4>1. \A y \in Symbols \ {s} : orders'[y] = orders[y]
        BY <1>2, <2>4
      <4>2. QED
        BY <1>2, <1>4, <4>1, TotalChange
    <3>3. orders[s] = 0 /\ orders'[s] = n
      BY <1>2, <2>1, <2>4
    <3>4. QED
      BY <1>2, <3>1, <3>2, <3>3
  <2>6. Cardinality(Engaged') <= MaxOpenPositions
    <3>1. Engaged' \in SUBSET (Positive(held) \cup {s})
      BY <1>1, <1>2, <2>1, <2>4 DEF Engaged, Positive
    <3>2. /\ IsFiniteSet(Positive(held) \cup {s})
          /\ Cardinality(Positive(held) \cup {s}) <= Cardinality(Positive(held)) + 1
          /\ Cardinality(Positive(held)) \in Nat
          /\ Cardinality(Positive(held) \cup {s}) \in Nat
      <4>1. Positive(held) \in SUBSET Symbols
        BY DEF Positive
      <4>2. IsFiniteSet(Positive(held)) /\ Cardinality(Positive(held)) \in Nat
        BY <4>1, CapsConstants
      <4>3. QED
        BY <4>2, FS_AddElement, FS_CardinalityType
    <3>3. /\ Cardinality(Engaged') <= Cardinality(Positive(held) \cup {s})
          /\ Cardinality(Engaged') \in Nat
      BY <3>1, <3>2, FS_Subset, FS_CardinalityType
    <3>4. QED
      BY <2>1, <3>2, <3>3, CapsConstants
  <2>7. Total(held, Symbols) + Total(orders', Symbols) < MaxExposure + MaxPosition
    BY <1>2, <2>1, <2>5, CapsConstants
  <2>8. ASSUME NEW k \in Sectors
        PROVE  Total(held, InSector(k)) + Total(orders', InSector(k)) <= MaxSector
    <3>1. InSector(k) \in SUBSET Symbols
      BY CapsConstants
    <3>2. CASE s \in InSector(k)
      <4>1. SectorOf[s] = k
        BY <3>2 DEF InSector
      <4>2. QED
        BY <2>1, <2>5, <3>1, <3>2, <4>1
    <3>3. CASE s \notin InSector(k)
      BY <2>1, <2>5, <3>1, <3>3
    <3>4. QED
      BY <3>2, <3>3
  <2>9. CapsKept'
    BY <1>1, <2>6, <2>7, <2>8 DEF CapsKept, Sectors, InSector, Total
  <2>10. QED
    BY <2>3, <2>9
<1>7. QED
  BY <1>1, <1>5, <1>6 DEF CapsInv

\* The order fills: what was asked for is held, and the sum is the same.
LEMMA FillingKeepsCaps ==
  ASSUME CapsInv, NEW s \in Symbols, Fill(s)
  PROVE  CapsInv'
<1> DEFINE n == held[s] + orders[s]
<1>1. /\ orders[s] > 0 /\ cycle' = cycle /\ blind' = blind
      /\ held' = [held EXCEPT ![s] = n] /\ orders' = [orders EXCEPT ![s] = 0]
  BY DEF Fill
<1>2. /\ held \in [Symbols -> Nat] /\ orders \in [Symbols -> Nat]
      /\ held[s] \in Nat /\ orders[s] \in Nat /\ n \in Nat
  BY DEF CapsInv, CapsTyped
<1>3. /\ CapsTyped' /\ held' \in [Symbols -> Nat] /\ orders' \in [Symbols -> Nat]
      /\ held'[s] = n /\ orders'[s] = 0
      /\ \A y \in Symbols \ {s} : held'[y] = held[y] /\ orders'[y] = orders[y]
  BY <1>1, <1>2 DEF CapsInv, CapsTyped
<1>4. ASSUME ~blind
      PROVE  OneAtATime' /\ RoomForEach' /\ CapsKept'
  <2>1. \A c \in Cycles : cycle'[c].step # "buy"
    BY <1>1, <1>4 DEF CapsInv, OneAtATime
  <2>2. OneAtATime' /\ RoomForEach'
    BY <2>1 DEF OneAtATime, RoomForEach
  <2>3. \A S \in SUBSET Symbols :
          Total(held', S) + Total(orders', S) = Total(held, S) + Total(orders, S)
    <3> SUFFICES ASSUME NEW S \in SUBSET Symbols
                 PROVE  Total(held', S) + Total(orders', S) = Total(held, S) + Total(orders, S)
      OBVIOUS
    <3>1. /\ Total(held, S) \in Nat /\ Total(held', S) \in Nat
          /\ s \in S => Total(held', S) + held[s] = Total(held, S) + held'[s]
          /\ s \notin S => Total(held', S) = Total(held, S)
      BY <1>2, <1>3, TotalChange
    <3>2. /\ Total(orders, S) \in Nat /\ Total(orders', S) \in Nat
          /\ s \in S => Total(orders', S) + orders[s] = Total(orders, S) + orders'[s]
          /\ s \notin S => Total(orders', S) = Total(orders, S)
      BY <1>2, <1>3, TotalChange
    <3>3. QED
      BY <1>2, <1>3, <3>1, <3>2
  <2>4. Engaged' = Engaged
    <3>1. \A t \in Symbols : held'[t] + orders'[t] > 0 <=> held[t] + orders[t] > 0
      BY <1>1, <1>2
    <3>2. QED
      BY <3>1 DEF Engaged
  <2>5. \A k : InSector(k) \in SUBSET Symbols
    BY CapsConstants
  <2>6. /\ Cardinality(Engaged') <= MaxOpenPositions
        /\ Total(held', Symbols) + Total(orders', Symbols) < MaxExposure + MaxPosition
        /\ \A k \in Sectors :
             Total(held', InSector(k)) + Total(orders', InSector(k)) <= MaxSector
    BY <1>4, <2>3, <2>4, <2>5 DEF CapsInv, CapsKept
  <2>7. CapsKept'
    BY <2>6 DEF CapsKept, Sectors, InSector, Total
  <2>8. QED
    BY <2>2, <2>7
<1>5. QED
  BY <1>1, <1>3, <1>4 DEF CapsInv

\* A cycle that comes to hold something other than an entry.
LEMMA OtherRecord ==
  ASSUME CapsInv, NEW c \in Cycles, NEW new, cycle' = [cycle EXCEPT ![c] = new],
         new.step # "buy", new.step # "idle" => new.symbol \in Symbols
  PROVE  NoNewEntry
BY DEF CapsInv, CapsTyped, NoNewEntry

\* Every step keeps the caps.
LEMMA CapsStep == CapsInv /\ [Next]_vars => CapsInv'
<1> SUFFICES ASSUME CapsInv, [Next]_vars PROVE CapsInv'
  OBVIOUS
<1>1. \A c \in Cycles : cycle[c].step # "idle" => cycle[c].symbol \in Symbols
  BY DEF CapsInv, CapsTyped
<1>2. cycle' = cycle => NoNewEntry
  BY DEF NoNewEntry, CapsInv, CapsTyped
<1>3. \A c \in Cycles : cycle' = [cycle EXCEPT ![c] = Idle] => NoNewEntry
  BY OtherRecord, RestingCycles
<1>4. ASSUME NEW c \in Cycles, NEW s \in Symbols, NEW response, See(c, s, response)
      PROVE  CapsInv'
  <2> DEFINE new == [step |-> "seen", symbol |-> s, account |-> Account,
                     evidence |-> AssessEarnings(response, s, day), size |-> 0]
  <2>1. new.step = "seen" /\ new.symbol = s /\ cycle' = [cycle EXCEPT ![c] = new]
    BY <1>4 DEF See
  <2> HIDE DEF new
  <2>2. NoNewEntry
    BY <2>1, OtherRecord
  <2>3. QED
    BY <1>4, <2>2, QuietKeepsCaps DEF See
<1>5. ASSUME NEW c \in Cycles, NEW signal, NEW halted, ApproveExit(c, signal, halted)
      PROVE  CapsInv'
  <2> DEFINE new == Resting("sell", cycle[c].symbol, 0)
  <2>1. /\ new.step = "sell" /\ new.symbol = cycle[c].symbol
        /\ cycle' = [cycle EXCEPT ![c] = new] /\ cycle[c].step = "seen"
    BY <1>5 DEF ApproveExit, Resting
  <2> HIDE DEF new
  <2>2. NoNewEntry
    BY <1>1, <2>1, OtherRecord
  <2>3. QED
    BY <1>5, <2>2, QuietKeepsCaps DEF ApproveExit
<1>6. ASSUME NEW c \in Cycles, NEW signal, NEW halted, Refuse(c, signal, halted)
      PROVE  CapsInv'
  BY <1>3, <1>6, QuietKeepsCaps DEF Refuse
<1>7. ASSUME NEW c \in Cycles, CloseNothing(c)
      PROVE  CapsInv'
  BY <1>3, <1>7, QuietKeepsCaps DEF CloseNothing
<1>8. ASSUME NEW c \in Cycles, NEW lost, Close(c, lost)
      PROVE  CapsInv'
  <2>1. cycle[c].symbol \in Symbols
    BY <1>1, <1>8 DEF Close
  <2>2. QED
    BY <1>3, <1>8, <2>1, QuietKeepsCaps DEF Close
<1>9. ASSUME NEW s \in Symbols, SoldElsewhere(s)
      PROVE  CapsInv'
  BY <1>2, <1>9, QuietKeepsCaps DEF SoldElsewhere
<1>10. CASE Lose \/ NextDay \/ UNCHANGED vars
  BY <1>2, <1>10, QuietKeepsCaps DEF Lose, NextDay, vars
<1>11. QED
  BY <1>4, <1>5, <1>6, <1>7, <1>8, <1>9, <1>10, ApprovalKeepsCaps, PlacingKeepsCaps,
     FillingKeepsCaps DEF Next

\* The caps hold of the account itself, for any symbols, sectors, cycles and
\* limits, as long as no approval came between another order and its fill and
\* none lacked the sector of its symbol (check_limits, size_position).
THEOREM CapsHold == Spec => []CapsHoldWhenSettled
<1>1. Spec => []CapsInv
  BY CapsInitially, CapsStep, PTL DEF Spec
<1>2. CapsInv => CapsHoldWhenSettled
  BY DEF CapsInv, CapsKept, CapsHoldWhenSettled, Engaged, Sectors, InSector, Total
<1>3. QED
  BY <1>1, <1>2, PTL
=============================================================================
