--------------------------- MODULE CpuShareProofs ---------------------------
(***************************************************************************)
(* Theorems about CpuShare, for every set of workers, weights, amounts of  *)
(* fuel, capacities and intervals.  The sums over workers and the loop of  *)
(* weighted_fair_allowance are recursions over sets of workers: a smallest *)
(* set on which a fact about them fails stands in for an induction.        *)
(***************************************************************************)
EXTENDS CpuShare, FiniteSetTheorems, WellFoundedInduction, TLAPS

\* What types alone do not know: nobody has used more than the window has burnt,
\* the window began at its tick or as late as the sampler may be, and the weight of a
\* running worker is one that execution_limits let through.
Bounded ==
  /\ \A w \in Workers : used[w] <= windowFuel
  /\ BegunLate \in 0..MaxLate
  /\ \A w \in running : weight[w] \in Weights

\* A hold of this window is bounded by the interval, and how late the window began is
\* on record for it; a hold of an earlier window reaches no further than that window
\* began late.  The record is what carries the bound over a sample.
HeldWithinWindow ==
  \A w \in Workers : throttle[w] > 0 =>
    /\ throttle[w] + windowAge <= IF w \in exceeded THEN SampleInterval ELSE spill[w]
    /\ w \in exceeded => spill[w] = BegunLate

Accounted == TypeOK /\ ChargedIsConsumed /\ Bounded /\ HeldWithinWindow

\* An idle scheduler, before its first window.
LEMMA AccountedInit == Init => Accounted
  BY CpuShareAssumption DEF Init, Accounted, TypeOK, ChargedIsConsumed, Bounded, HeldWithinWindow, BegunLate

\* Entries that are dropped from the table read as zero, the others are kept.
LEMMA KeepType ==
  ASSUME NEW R, 0 \in R, NEW f \in [Workers -> R], NEW S
  PROVE  /\ Keep(f, S) \in [Workers -> R]
         /\ \A w \in Workers : Keep(f, S)[w] \in {f[w], 0}
  BY DEF Keep

\* The same for the three columns of the table.
LEMMA TableType ==
  ASSUME TypeOK, NEW S
  PROVE  /\ Keep(age, S) \in [Workers -> 0..(ActivityTimeout + 1)]
         /\ Keep(used, S) \in [Workers -> 0..MaxWindow]
         /\ Keep(share, S) \in [Workers -> Weights \cup {0}]
         /\ \A w \in Workers : Keep(used, S)[w] \in {used[w], 0}
<1>1. 0 \in 0..(ActivityTimeout + 1) /\ 0 \in 0..MaxWindow /\ 0 \in Weights \cup {0}
  BY CpuShareAssumption
<1>2. /\ age \in [Workers -> 0..(ActivityTimeout + 1)] /\ used \in [Workers -> 0..MaxWindow]
      /\ share \in [Workers -> Weights \cup {0}]
  BY DEF TypeOK
<1> QED
  BY <1>1, <1>2, KeepType

\* set_worker_weight stores a weight in range and touches nobody else's.
LEMMA SetShareType ==
  ASSUME Accounted, NEW w \in Workers, NEW n \in Weights, SetShare(w, n)
  PROVE  /\ weight' \in [Workers -> Weights \cup {1}]
         /\ share' \in [Workers -> Weights \cup {0}]
         /\ weight'[w] = n /\ \A v \in Workers : v # w => weight'[v] = weight[v]
  BY DEF Accounted, TypeOK, SetShare

\* A begin, with the fuel and the weight of its limits.
LEMMA AccountedBegin ==
  ASSUME Accounted, NEW w \in Workers, NEW amount \in Amounts, NEW n \in Weights,
         Begin(w, amount, n)
  PROVE  Accounted'
<1> USE DEF Accounted, schedVars
<1>1. amount \in 0..MaxFuel /\ MaxFuel \in Nat /\ SampleInterval \in Nat \ {0} /\ MaxLate \in Nat
  BY CpuShareAssumption
<1>2. /\ weight' \in [Workers -> Weights \cup {1}] /\ share' \in [Workers -> Weights \cup {0}]
      /\ weight'[w] = n /\ \A v \in Workers : v # w => weight'[v] = weight[v]
  BY SetShareType DEF Begin
<1>3. TypeOK'
  <2>1. /\ running' = running \cup {w} /\ fuel' = [fuel EXCEPT ![w] = amount]
        /\ lastFuel' = [lastFuel EXCEPT ![w] = amount] /\ throttle' = [throttle EXCEPT ![w] = 0]
        /\ owed' = [owed EXCEPT ![w] = 0] /\ UNCHANGED <<schedVars, account, age, used>>
        /\ exceeded' = exceeded \ {w} /\ spill' = [spill EXCEPT ![w] = 0]
    BY DEF Begin
  <2>2. /\ fuel' \in [Workers -> 0..MaxFuel] /\ owed' \in [Workers -> 0..MaxFuel]
        /\ lastFuel' \in [Workers -> -1..MaxFuel] /\ throttle' \in [Workers -> 0..SampleInterval]
        /\ spill' \in [Workers -> 0..MaxLate]
    BY <1>1, <2>1 DEF TypeOK
  <2> QED
    BY <1>2, <2>1, <2>2 DEF TypeOK
<1>4. ChargedIsConsumed'
  BY <1>1 DEF Begin, TypeOK, ChargedIsConsumed
<1>5. Bounded' /\ HeldWithinWindow'
  BY <1>1, <1>2 DEF Begin, TypeOK, Bounded, HeldWithinWindow, BegunLate
<1> QED
  BY <1>3, <1>4, <1>5

\* Guest code runs: what leaves the store is owed to the account.
LEMMA AccountedConsume ==
  ASSUME Accounted, NEW w \in Workers, NEW n \in 1..YieldInterval, Consume(w, n)
  PROVE  Accounted'
<1> USE DEF Accounted, schedVars, tableVars, heldVars
<1>1. n \in Nat /\ fuel[w] \in 0..MaxFuel /\ owed[w] \in 0..MaxFuel /\ lastFuel[w] \in -1..MaxFuel
      /\ MaxFuel \in Nat /\ n <= fuel[w] /\ w \in running
  BY CpuShareAssumption DEF Consume, Polled, TypeOK
<1>2. lastFuel[w] = fuel[w] + owed[w]
  BY <1>1 DEF ChargedIsConsumed
<1>3. fuel[w] - n \in 0..MaxFuel /\ owed[w] + n \in 0..MaxFuel
  BY <1>1, <1>2
<1>4. TypeOK'
  BY <1>3 DEF Consume, TypeOK
<1>5. ChargedIsConsumed'
  BY <1>1, <1>2 DEF Consume, TypeOK, ChargedIsConsumed
<1>6. Bounded' /\ HeldWithinWindow'
  BY DEF Consume, Bounded, HeldWithinWindow, BegunLate
<1> QED
  BY <1>4, <1>5, <1>6

\* record_fuel: the window's total grows with what the worker is charged, and a
\* hold ends with the window.
LEMMA RecordFuelKeeps ==
  ASSUME Accounted, NEW w \in Workers, w \in running, NEW consumed \in Nat,
         RecordFuel(w, consumed), UNCHANGED <<windowAge, untilSample>>
  PROVE  /\ windowFuel' \in 0..MaxWindow /\ account' \subseteq Workers
         /\ age' \in [Workers -> 0..(ActivityTimeout + 1)]
         /\ used' \in [Workers -> 0..MaxWindow] /\ share' \in [Workers -> Weights \cup {0}]
         /\ throttle' \in [Workers -> 0..SampleInterval]
         /\ exceeded' \subseteq Workers /\ spill' \in [Workers -> 0..MaxLate]
         /\ \A v \in Workers : used'[v] <= windowFuel'
         /\ HeldWithinWindow'
<1> USE DEF Accounted
<1> DEFINE kept == account \ Expired
<1>1. /\ windowFuel \in 0..MaxWindow /\ MaxWindow \in Nat /\ ActivityTimeout \in Nat
      /\ SampleInterval \in Nat \ {0} /\ windowAge \in Nat
      /\ windowFuel + consumed <= MaxWindow /\ windowFuel' = windowFuel + consumed
  BY CpuShareAssumption DEF RecordFuel, TypeOK
<1>2. account' \subseteq Workers
  BY DEF RecordFuel, TypeOK, Expired
<1>3. age' \in [Workers -> 0..(ActivityTimeout + 1)]
  <2>1. age' = [Keep(age, kept) EXCEPT ![w] = 0]
    BY DEF RecordFuel
  <2>2. Keep(age, kept) \in [Workers -> 0..(ActivityTimeout + 1)]
    BY TableType
  <2> HIDE DEF kept
  <2> QED
    BY <1>1, <2>1, <2>2
<1>4. /\ used' \in [Workers -> 0..MaxWindow]
      /\ \A v \in Workers : used'[v] <= windowFuel'
  <2>1. used' = [Keep(used, kept) EXCEPT ![w] = Keep(used, kept)[w] + consumed]
    BY DEF RecordFuel
  <2>2. /\ Keep(used, kept) \in [Workers -> 0..MaxWindow]
        /\ \A v \in Workers : Keep(used, kept)[v] \in {used[v], 0}
    BY TableType
  <2>3. \A v \in Workers : Keep(used, kept)[v] <= windowFuel
    <3>1. \A v \in Workers : used[v] <= windowFuel
      BY DEF Bounded
    <3> HIDE DEF kept
    <3> QED
      BY <1>1, <2>2, <3>1
  <2>4. Keep(used, kept)[w] + consumed \in 0..MaxWindow
    BY <1>1, <2>2, <2>3
  <2> HIDE DEF kept
  <2> QED
    BY <1>1, <2>1, <2>2, <2>3, <2>4
<1>5. share' \in [Workers -> Weights \cup {0}]
  <2>1. share' = [Keep(share, kept) EXCEPT ![w] = weight[w]] /\ weight[w] \in Weights
    BY DEF RecordFuel, Bounded
  <2>2. Keep(share, kept) \in [Workers -> Weights \cup {0}]
    BY TableType
  <2> QED
    BY <2>1, <2>2
<1>6. /\ throttle' \in [Workers -> 0..SampleInterval]
      /\ exceeded' \subseteq Workers /\ spill' \in [Workers -> 0..MaxLate]
      /\ HeldWithinWindow'
  <2>1. /\ throttle \in [Workers -> 0..SampleInterval] /\ spill \in [Workers -> 0..MaxLate]
        /\ exceeded \subseteq Workers /\ BegunLate \in 0..MaxLate /\ BegunLate' = BegunLate
        /\ HeldFor \in 0..SampleInterval
        /\ HeldFor > 0 => HeldFor + windowAge = SampleInterval
    BY <1>1 DEF HeldFor, TypeOK, Bounded, BegunLate
  <2>2. CASE UNCHANGED <<throttle, exceeded, spill>>
    BY <2>1, <2>2 DEF HeldWithinWindow
  <2>3. CASE Hold(w)
    <3>1. /\ throttle' = [throttle EXCEPT ![w] = HeldFor] /\ exceeded' = exceeded \cup {w}
          /\ spill' = [spill EXCEPT ![w] = BegunLate]
      BY <2>3 DEF Hold
    <3>2. /\ throttle' \in [Workers -> 0..SampleInterval] /\ exceeded' \subseteq Workers
          /\ spill' \in [Workers -> 0..MaxLate]
      BY <2>1, <3>1
    <3>3. /\ throttle'[w] = HeldFor /\ spill'[w] = BegunLate /\ w \in exceeded'
          /\ \A v \in Workers : v # w =>
               throttle'[v] = throttle[v] /\ spill'[v] = spill[v] /\ (v \in exceeded' <=> v \in exceeded)
      BY <2>1, <3>1
    <3>4. HeldWithinWindow'
      <4> SUFFICES ASSUME NEW v \in Workers, throttle'[v] > 0
                   PROVE  /\ throttle'[v] + windowAge' <= IF v \in exceeded' THEN SampleInterval ELSE spill'[v]
                          /\ v \in exceeded' => spill'[v] = BegunLate'
        BY DEF HeldWithinWindow
      <4>1. CASE v = w
        BY <1>1, <2>1, <3>3, <4>1
      <4>2. CASE v # w
        BY <2>1, <3>3, <4>2 DEF HeldWithinWindow
      <4> QED
        BY <4>1, <4>2
    <3> QED
      BY <3>2, <3>4
  <2> QED
    BY <2>2, <2>3 DEF RecordFuel, heldVars
<1> QED
  BY <1>1, <1>2, <1>3, <1>4, <1>5, <1>6

\* The epoch check charges what is owed, no more and no less.
LEMMA AccountedObserve ==
  ASSUME Accounted, NEW w \in Workers, Observe(w) PROVE Accounted'
<1> USE DEF Accounted, schedVars, tableVars, heldVars
<1>1. w \in running /\ lastFuel[w] = fuel[w] + owed[w]
  BY DEF Observe, Polled, ChargedIsConsumed
<1>2. fuel[w] \in 0..MaxFuel /\ owed[w] \in 0..MaxFuel /\ MaxFuel \in Nat /\ SampleInterval \in Nat \ {0}
  BY CpuShareAssumption DEF TypeOK
<1>3. /\ lastFuel' = [lastFuel EXCEPT ![w] = fuel[w]] /\ owed' = [owed EXCEPT ![w] = 0]
      /\ UNCHANGED <<weight, running, fuel, untilSample, windowAge, capacity>>
  BY DEF Observe
<1>4. ChargedIsConsumed'
  BY <1>2, <1>3 DEF TypeOK, ChargedIsConsumed
<1>5. lastFuel' \in [Workers -> -1..MaxFuel] /\ owed' \in [Workers -> 0..MaxFuel]
  BY <1>2, <1>3 DEF TypeOK
<1>6. CASE UNCHANGED <<schedVars, tableVars, throttle, heldVars>>
  BY <1>3, <1>4, <1>5, <1>6 DEF TypeOK, Bounded, HeldWithinWindow, BegunLate
<1>7. ASSUME NEW consumed \in Nat, RecordFuel(w, consumed) PROVE Accounted'
  <2>1. /\ windowFuel' \in 0..MaxWindow /\ account' \subseteq Workers
        /\ age' \in [Workers -> 0..(ActivityTimeout + 1)]
        /\ used' \in [Workers -> 0..MaxWindow] /\ share' \in [Workers -> Weights \cup {0}]
        /\ throttle' \in [Workers -> 0..SampleInterval]
        /\ exceeded' \subseteq Workers /\ spill' \in [Workers -> 0..MaxLate]
        /\ \A v \in Workers : used'[v] <= windowFuel'
        /\ HeldWithinWindow'
    BY <1>1, <1>3, <1>7, RecordFuelKeeps
  <2>2. TypeOK'
    BY <1>3, <1>5, <2>1 DEF TypeOK
  <2>3. Bounded'
    BY <1>3, <2>1 DEF Bounded, BegunLate
  <2> QED
    BY <1>4, <2>1, <2>2, <2>3
<1>8. (IF lastFuel[w] > fuel[w] THEN lastFuel[w] - fuel[w] ELSE 0) \in Nat
  BY <1>1, <1>2
<1> QED
  BY <1>6, <1>7, <1>8 DEF Observe

\* New fuel in the store is told to the account in the same step.
LEMMA AccountedReplace ==
  ASSUME Accounted, NEW w \in Workers, NEW amount \in 0..MaxFuel, Replace(w, amount)
  PROVE  Accounted'
<1> USE DEF Accounted, schedVars, tableVars, heldVars
<1>1. MaxFuel \in Nat
  BY CpuShareAssumption
<1>2. TypeOK' /\ ChargedIsConsumed'
  BY <1>1 DEF Replace, ResetFuel, TypeOK, ChargedIsConsumed
<1>3. Bounded' /\ HeldWithinWindow'
  BY DEF Replace, Bounded, HeldWithinWindow, BegunLate
<1> QED
  BY <1>2, <1>3

\* saturating_add with a cap never leaves the range of the store.
LEMMA AddedInRange ==
  ASSUME NEW left \in 0..MaxFuel, NEW amount \in 0..MaxFuel, NEW cap \in Nat
  PROVE  Added(left, amount, cap) \in 0..MaxFuel
  BY CpuShareAssumption DEF Added, Smaller

\* A worker's step keeps its account.
LEMMA AccountedWork ==
  ASSUME Accounted, NEW w \in Workers, Work(w) PROVE Accounted'
<1>1. ASSUME NEW amount \in Amounts, SetFuel(w, amount) PROVE Accounted'
  BY <1>1, AccountedReplace, CpuShareAssumption DEF SetFuel
<1>2. ASSUME NEW amount \in Amounts, NEW cap \in Caps \cup {NoCap}, AddFuel(w, amount, cap)
      PROVE  Accounted'
  <2>1. cap \in Nat /\ amount \in 0..MaxFuel /\ fuel[w] \in 0..MaxFuel
    BY CpuShareAssumption DEF NoCap, Accounted, TypeOK
  <2> QED
    BY <1>2, <2>1, AddedInRange, AccountedReplace DEF AddFuel
<1>3. ASSUME NEW n \in Weights, SetWeight(w, n) PROVE Accounted'
  <2>1. /\ weight' \in [Workers -> Weights \cup {1}] /\ share' \in [Workers -> Weights \cup {0}]
        /\ weight'[w] = n /\ \A v \in Workers : v # w => weight'[v] = weight[v]
    BY <1>3, SetShareType DEF SetWeight
  <2> QED
    BY <1>3, <2>1 DEF SetWeight, Accounted, TypeOK, ChargedIsConsumed, Bounded, HeldWithinWindow,
                      BegunLate, schedVars, heldVars
<1>4. CASE Finish(w)
  <2>1. /\ age' \in [Workers -> 0..(ActivityTimeout + 1)] /\ used' \in [Workers -> 0..MaxWindow]
        /\ share' \in [Workers -> Weights \cup {0}]
        /\ \A v \in Workers : used'[v] \in {used[v], 0}
    <3>1. age' = Keep(age, account') /\ used' = Keep(used, account') /\ share' = Keep(share, account')
      BY <1>4 DEF Finish
    <3> QED
      BY <3>1, TableType DEF Accounted
  <2>2. TypeOK' /\ ChargedIsConsumed'
    <3>1. /\ lastFuel' = [lastFuel EXCEPT ![w] = -1] /\ fuel' = [fuel EXCEPT ![w] = 0]
          /\ owed' = [owed EXCEPT ![w] = 0] /\ running' = running \ {w} /\ account' = account \ {w}
          /\ UNCHANGED <<schedVars, heldVars, weight, throttle>>
      BY <1>4 DEF Finish
    <3>2. MaxFuel \in Nat
      BY CpuShareAssumption
    <3> QED
      BY <2>1, <3>1, <3>2 DEF Accounted, TypeOK, ChargedIsConsumed, schedVars, heldVars
  <2>3. Bounded' /\ HeldWithinWindow'
    <3>1. running' \subseteq running /\ UNCHANGED <<untilSample, windowAge, windowFuel, weight, throttle, exceeded, spill>>
      BY <1>4 DEF Finish, schedVars, heldVars
    <3>2. windowFuel \in Nat
      BY CpuShareAssumption DEF Accounted, TypeOK
    <3> QED
      BY <2>1, <3>1, <3>2 DEF Accounted, TypeOK, Bounded, HeldWithinWindow, BegunLate
  <2> QED
    BY <2>2, <2>3 DEF Accounted
<1> QED
  BY <1>1, <1>2, <1>3, <1>4, AccountedObserve, AccountedConsume, AccountedBegin DEF Work

\* The sampler closes a window, as late as it may be.  What is left of a hold of the
\* window that ends was bounded by the interval, of which all but the lateness of the
\* window's begin is over by now.
LEMMA AccountedSample ==
  ASSUME Accounted, Sample PROVE Accounted'
<1> USE DEF Accounted, workerVars
<1>1. /\ SampleInterval \in Nat \ {0} /\ MaxLate \in Nat /\ MaxWindow \in Nat /\ ActivityTimeout \in Nat
      /\ untilSample \in -MaxLate..SampleInterval /\ untilSample <= 0
      /\ untilSample' = untilSample + SampleInterval /\ windowAge' = 0 /\ windowFuel' = 0
      /\ windowAge \in Nat /\ exceeded' = {} /\ UNCHANGED <<throttle, spill>>
  BY CpuShareAssumption DEF Sample, SampleWindow, TypeOK
<1>2. capacity' \in Capacities \cup {-1}
  BY DEF Sample
<1>3. /\ age' \in [Workers -> 0..(ActivityTimeout + 1)] /\ share' \in [Workers -> Weights \cup {0}]
      /\ account' \subseteq Workers /\ used' = [w \in Workers |-> 0]
  <2>1. /\ age' = Keep(age, account \ Expired) /\ share' = Keep(share, account \ Expired)
        /\ account' = account \ Expired /\ used' = [w \in Workers |-> 0]
    BY DEF Sample, SampleWindow
  <2> QED
    BY <2>1, TableType DEF TypeOK
<1>4. TypeOK'
  BY <1>1, <1>2, <1>3 DEF Sample, TypeOK
<1>5. ChargedIsConsumed' /\ Bounded'
  BY <1>1, <1>3 DEF Sample, TypeOK, ChargedIsConsumed, Bounded, BegunLate
<1>6. HeldWithinWindow'
  <2> SUFFICES ASSUME NEW w \in Workers, throttle[w] > 0 PROVE throttle[w] <= spill[w]
    <3>1. \A w \in Workers : throttle'[w] = throttle[w] /\ throttle[w] \in Nat
      BY <1>1 DEF TypeOK
    <3> QED
      BY <1>1, <3>1 DEF HeldWithinWindow
  <2>1. throttle[w] \in Nat /\ spill[w] \in Nat
    BY <1>1 DEF TypeOK
  <2>2. CASE w \in exceeded
    BY <1>1, <2>1, <2>2 DEF HeldWithinWindow, BegunLate
  <2>3. CASE w \notin exceeded
    BY <1>1, <2>1, <2>3 DEF HeldWithinWindow
  <2> QED
    BY <2>2, <2>3
<1> QED
  BY <1>4, <1>5, <1>6

\* Time passes: what is left of a hold shrinks as the window grows older.
LEMMA AccountedTick ==
  ASSUME Accounted, Tick PROVE Accounted'
<1> USE DEF Accounted
<1>1. /\ SampleInterval \in Nat \ {0} /\ MaxLate \in Nat /\ ActivityTimeout \in Nat
      /\ untilSample \in -MaxLate..SampleInterval /\ untilSample > -MaxLate
      /\ untilSample' = untilSample - 1 /\ windowAge' = windowAge + 1 /\ windowAge \in Nat
      /\ BegunLate \in 0..MaxLate
  BY CpuShareAssumption DEF Tick, TypeOK, Bounded
<1>2. age' \in [Workers -> 0..(ActivityTimeout + 1)]
  BY <1>1 DEF Tick, TypeOK, Smaller
<1>3. throttle' \in [Workers -> 0..SampleInterval]
  BY <1>1 DEF Tick, TypeOK
<1>4. TypeOK'
  <2>1. windowAge' \in 0..(SampleInterval + MaxLate)
    BY <1>1 DEF BegunLate
  <2>2. spill' \in [Workers -> 0..MaxLate] /\ exceeded' \subseteq Workers
    BY <1>1 DEF Tick, TypeOK
  <2> QED
    BY <1>1, <1>2, <1>3, <2>1, <2>2 DEF Tick, TypeOK
<1>5. HeldWithinWindow'
  <2> SUFFICES ASSUME NEW w \in Workers, throttle'[w] > 0
               PROVE  /\ throttle'[w] + windowAge' <= IF w \in exceeded' THEN SampleInterval ELSE spill'[w]
                      /\ w \in exceeded' => spill'[w] = BegunLate'
    BY DEF HeldWithinWindow
  <2>1. throttle[w] \in Nat /\ spill[w] \in Nat
    BY <1>1 DEF TypeOK
  <2>2. throttle[w] > 1 /\ throttle'[w] = throttle[w] - 1
    BY <2>1 DEF Tick
  <2>3. spill'[w] = spill[w] /\ (w \in exceeded' <=> w \in exceeded) /\ BegunLate' = BegunLate
    BY <1>1, <2>2 DEF Tick, BegunLate
  <2> QED
    BY <1>1, <2>1, <2>2, <2>3 DEF HeldWithinWindow
<1>6. ChargedIsConsumed' /\ Bounded'
  BY <1>1 DEF Tick, ChargedIsConsumed, Bounded, BegunLate
<1> QED
  BY <1>4, <1>5, <1>6

\* Every step of the workers, the sampler and the clock keeps the accounts.
LEMMA AccountedStep == Accounted /\ [Next]_vars => Accounted'
<1>1. ASSUME Accounted, UNCHANGED vars PROVE Accounted'
  BY <1>1 DEF Accounted, TypeOK, ChargedIsConsumed, Bounded, HeldWithinWindow, BegunLate, vars,
              schedVars, tableVars, workerVars, heldVars
<1> QED
  BY <1>1, AccountedWork, AccountedSample, AccountedTick DEF Next

-----------------------------------------------------------------------------
(* Sums over a set.  SumFunctionOnSet is a recursion over subsets; that there *)
(* is a function it defines, and that the order does not matter, is proved by *)
(* looking at a smallest subset for which it would not be so.                 *)

\* A set of subsets of a finite set, unless empty, has a smallest member.
LEMMA SmallestSubset ==
  ASSUME NEW S, IsFiniteSet(S), NEW B, B \subseteq SUBSET S, B # {}
  PROVE  \E A \in B : \A C \in B : C \subseteq A => C = A
<1>1. IsWellFoundedOn(StrictSubsetOrdering(S), SUBSET S)
  BY FS_StrictSubsetOrderingWellFounded, FS_FiniteSubsetsOfFinite
<1>2. PICK A \in B : \A C \in B : ~(<<C, A>> \in StrictSubsetOrdering(S))
  BY <1>1, WFMin
<1>3. \A C \in B : C \subseteq A => C = A
  BY <1>2 DEF StrictSubsetOrdering
<1> QED
  BY <1>3

\* g holds the sums over the subsets of A.
Pick(s) == CHOOSE x \in s : TRUE
Summed(s, f, g) == IF s = {} THEN 0 ELSE f[Pick(s)] + g[s \ {Pick(s)}]
Sums(g, f, A) == g = [s \in SUBSET A |-> Summed(s, f, g)]

\* Some member of a set is one of its members.
LEMMA PickIn == \A s : s # {} => Pick(s) \in s
  BY DEF Pick

\* The definition of SumFunctionOnSet.
LEMMA TotalUnfold == \A f, S : Total(f, S) = (CHOOSE g : Sums(g, f, S))[S]
  BY DEF Total, Sums, Summed, Pick, SumFunctionOnSet, FoldFunctionOnSet, MapThenFoldSet

\* Two such functions agree where both are defined.
LEMMA SumsAgree ==
  ASSUME NEW f, NEW A, IsFiniteSet(A), NEW B, NEW g, NEW h, Sums(g, f, A), Sums(h, f, B),
         NEW C, C \subseteq A, C \subseteq B
  PROVE  g[C] = h[C]
<1> DEFINE Bad == {D \in SUBSET A : D \subseteq B /\ g[D] # h[D]}
<1> SUFFICES ASSUME Bad # {} PROVE FALSE
  OBVIOUS
<1>1. PICK D \in Bad : \A E \in Bad : E \subseteq D => E = D
  <2>1. Bad \subseteq SUBSET A
    OBVIOUS
  <2> HIDE DEF Bad
  <2> QED
    BY <2>1, SmallestSubset
<1>2. D \in SUBSET A /\ D \in SUBSET B /\ g[D] # h[D]
  BY <1>1
<1>3. g[D] = Summed(D, f, g) /\ h[D] = Summed(D, f, h)
  BY <1>2 DEF Sums
<1>4. D # {}
  BY <1>2, <1>3 DEF Summed
<1>5. g[D \ {Pick(D)}] = h[D \ {Pick(D)}]
  BY <1>1, <1>2, <1>4, PickIn
<1> QED
  BY <1>2, <1>3, <1>5 DEF Summed

\* There is one.
LEMMA SumsExist ==
  ASSUME NEW f, NEW S, IsFiniteSet(S)
  PROVE  \E g : Sums(g, f, S)
<1> DEFINE Bad == {A \in SUBSET S : ~\E g : Sums(g, f, A)}
<1> SUFFICES ASSUME Bad # {} PROVE FALSE
  OBVIOUS
<1>1. PICK A \in Bad : \A C \in Bad : C \subseteq A => C = A
  <2>1. Bad \subseteq SUBSET S
    OBVIOUS
  <2> HIDE DEF Bad
  <2> QED
    BY <2>1, SmallestSubset
<1>2. A \subseteq S /\ ~\E g : Sums(g, f, A)
  BY <1>1
<1>3. \A C : C \subseteq A /\ C # A => \E g : Sums(g, f, C)
  BY <1>1, <1>2
<1> DEFINE G(C) == CHOOSE g : Sums(g, f, C)
           h == [s \in SUBSET A |-> IF s = {} THEN 0 ELSE f[Pick(s)] + G(s \ {Pick(s)})[s \ {Pick(s)}]]
<1>4. \A C : C \subseteq A /\ C # A => Sums(G(C), f, C)
  BY <1>3
<1>5. ASSUME NEW s \in SUBSET A PROVE h[s] = Summed(s, f, h)
  <2>1. CASE s = {}
    BY <2>1 DEF Summed
  <2>2. CASE s # {}
    <3> DEFINE r == s \ {Pick(s)}
    <3>1. r \subseteq A /\ r # A /\ r # s
      BY <2>2, PickIn
    <3>2. h[s] = f[Pick(s)] + G(r)[r]
      BY <2>2
    <3>3. h[r] = G(r)[r]
      <4>1. Sums(G(r), f, r)
        BY <1>4, <3>1
      <4>2. G(r)[r] = Summed(r, f, G(r))
        BY <4>1 DEF Sums
      <4>3. CASE r = {}
        BY <4>2, <4>3 DEF Summed
      <4>4. CASE r # {}
        <5> DEFINE q == r \ {Pick(r)}
        <5>1. q \subseteq r /\ q # A /\ q \subseteq A
          BY <3>1, <4>4, PickIn
        <5>2. G(q)[q] = G(r)[q]
          <6>1. Sums(G(q), f, q)
            BY <1>4, <5>1
          <6>2. IsFiniteSet(q)
            BY <1>2, <5>1, FS_Subset
          <6> HIDE DEF G, q, r
          <6> QED
            BY <4>1, <5>1, <6>1, <6>2, SumsAgree
        <5>3. h[r] = f[Pick(r)] + G(q)[q]
          BY <3>1, <4>4
        <5> QED
          BY <4>2, <4>4, <5>2, <5>3 DEF Summed
      <4> QED
        BY <4>3, <4>4
    <3> QED
      BY <2>2, <3>2, <3>3 DEF Summed
  <2> QED
    BY <2>1, <2>2
<1>6. Sums(h, f, A)
  <2>1. h = [s \in SUBSET A |-> h[s]]
    OBVIOUS
  <2> HIDE DEF h
  <2> QED
    BY <1>5, <2>1 DEF Sums
<1> QED
  BY <1>2, <1>6

\* A sum unfolds at the element it picks.
LEMMA TotalPick ==
  ASSUME NEW f, NEW S, IsFiniteSet(S)
  PROVE  Total(f, S) = IF S = {} THEN 0 ELSE f[Pick(S)] + Total(f, S \ {Pick(S)})
<1> DEFINE g == CHOOSE g : Sums(g, f, S)
           r == S \ {Pick(S)}
           h == CHOOSE h : Sums(h, f, r)
<1>1. Sums(g, f, S) /\ Total(f, S) = g[S]
  BY SumsExist, TotalUnfold
<1>2. IsFiniteSet(r)
  BY FS_Subset
<1>3. Sums(h, f, r) /\ Total(f, r) = h[r]
  BY <1>2, SumsExist, TotalUnfold
<1>4. g[r] = h[r]
  <2>1. r \subseteq S
    OBVIOUS
  <2> HIDE DEF g, h, r
  <2> QED
    BY <1>1, <1>3, <2>1, SumsAgree
<1>5. g[S] = Summed(S, f, g)
  <2> HIDE DEF g
  <2> QED
    BY <1>1 DEF Sums
<1> QED
  BY <1>1, <1>3, <1>4, <1>5 DEF Summed

\* A sum of numbers is one.
LEMMA TotalType ==
  ASSUME NEW S, IsFiniteSet(S), NEW f, \A x \in S : f[x] \in Nat
  PROVE  Total(f, S) \in Nat
<1> DEFINE Bad == {A \in SUBSET S : Total(f, A) \notin Nat}
<1> SUFFICES ASSUME Bad # {} PROVE FALSE
  OBVIOUS
<1>1. PICK A \in Bad : \A C \in Bad : C \subseteq A => C = A
  <2>1. Bad \subseteq SUBSET S
    OBVIOUS
  <2> HIDE DEF Bad
  <2> QED
    BY <2>1, SmallestSubset
<1>2. A \subseteq S /\ IsFiniteSet(A) /\ Total(f, A) \notin Nat
  BY <1>1, FS_Subset
<1>3. A # {}
  <2>1. 0 \in Nat
    OBVIOUS
  <2> QED
    BY <1>2, <2>1, TotalPick
<1>4. Pick(A) \in A /\ Total(f, A \ {Pick(A)}) \in Nat
  BY <1>1, <1>2, <1>3, PickIn
<1>5. Total(f, A) = f[Pick(A)] + Total(f, A \ {Pick(A)})
  BY <1>2, <1>3, TotalPick
<1>6. f[Pick(A)] \in Nat
  BY <1>2, <1>4
<1> HIDE DEF Bad
<1> QED
  BY <1>2, <1>4, <1>5, <1>6

\* Whichever element is taken out of a sum, the rest is the sum of the others.
LEMMA TotalWithout ==
  ASSUME NEW S, IsFiniteSet(S), NEW f, \A x \in S : f[x] \in Nat, NEW x \in S
  PROVE  Total(f, S) = f[x] + Total(f, S \ {x})
<1> DEFINE Bad == {A \in SUBSET S : \E y \in A : Total(f, A) # f[y] + Total(f, A \ {y})}
<1> SUFFICES ASSUME Bad # {} PROVE FALSE
  OBVIOUS
<1>1. PICK A \in Bad : \A C \in Bad : C \subseteq A => C = A
  <2>1. Bad \subseteq SUBSET S
    OBVIOUS
  <2> HIDE DEF Bad
  <2> QED
    BY <2>1, SmallestSubset
<1>2. A \subseteq S /\ IsFiniteSet(A)
  BY <1>1, FS_Subset
<1>3. PICK y \in A : Total(f, A) # f[y] + Total(f, A \ {y})
  BY <1>1
<1>4. Pick(A) \in A /\ Total(f, A) = f[Pick(A)] + Total(f, A \ {Pick(A)})
  BY <1>2, <1>3, PickIn, TotalPick
<1>5. Pick(A) # y
  BY <1>3, <1>4
<1>6. Total(f, A \ {Pick(A)}) = f[y] + Total(f, (A \ {Pick(A)}) \ {y})
  <2>1. A \ {Pick(A)} \subseteq A /\ A \ {Pick(A)} # A /\ y \in A \ {Pick(A)}
    BY <1>4, <1>5
  <2> QED
    BY <1>1, <1>2, <2>1
<1>7. Total(f, A \ {y}) = f[Pick(A)] + Total(f, (A \ {y}) \ {Pick(A)})
  <2>1. A \ {y} \subseteq A /\ A \ {y} # A /\ Pick(A) \in A \ {y}
    BY <1>4, <1>5
  <2> QED
    BY <1>1, <1>2, <2>1
<1>8. (A \ {Pick(A)}) \ {y} = (A \ {y}) \ {Pick(A)}
  OBVIOUS
<1>9. Total(f, (A \ {y}) \ {Pick(A)}) \in Nat /\ f[y] \in Nat /\ f[Pick(A)] \in Nat
  <2>1. IsFiniteSet((A \ {y}) \ {Pick(A)})
    BY <1>2, FS_Subset
  <2> QED
    BY <1>2, <1>4, <2>1, TotalType
<1> HIDE DEF Bad
<1> QED
  BY <1>3, <1>4, <1>6, <1>7, <1>8, <1>9

\* Induction over the subsets of a finite set, for a property that is given as a set.
LEMMA SubsetInduction ==
  ASSUME NEW S, IsFiniteSet(S), NEW G,
         \A A \in SUBSET S : (\A x \in A : A \ {x} \in G) => A \in G
  PROVE  \A A \in SUBSET S : A \in G
<1> DEFINE Bad == {A \in SUBSET S : A \notin G}
<1> SUFFICES ASSUME Bad # {} PROVE FALSE
  OBVIOUS
<1>1. PICK A \in Bad : \A C \in Bad : C \subseteq A => C = A
  <2>1. Bad \subseteq SUBSET S
    OBVIOUS
  <2> HIDE DEF Bad
  <2> QED
    BY <2>1, SmallestSubset
<1>2. PICK x \in A : A \ {x} \notin G
  BY <1>1
<1>3. A \ {x} \subseteq A /\ A \ {x} # A /\ A \ {x} \subseteq S
  BY <1>1, <1>2
<1> QED
  BY <1>1, <1>2, <1>3

\* A sum depends on the values in the set only.
LEMMA TotalSame ==
  ASSUME NEW S, IsFiniteSet(S), NEW f, NEW g, \A x \in S : f[x] = g[x]
  PROVE  Total(f, S) = Total(g, S)
<1> DEFINE G == {A \in SUBSET S : Total(f, A) = Total(g, A)}
<1>1. ASSUME NEW A \in SUBSET S, \A x \in A : A \ {x} \in G PROVE A \in G
  <2>1. IsFiniteSet(A)
    BY FS_Subset
  <2>2. CASE A = {}
    BY <2>1, <2>2, TotalPick
  <2>3. CASE A # {}
    <3>1. Pick(A) \in A /\ f[Pick(A)] = g[Pick(A)]
      BY <2>3, PickIn
    <3>2. Total(f, A \ {Pick(A)}) = Total(g, A \ {Pick(A)})
      BY <1>1, <3>1
    <3>3. Total(f, A) = Total(g, A)
      BY <2>1, <2>3, <3>1, <3>2, TotalPick
    <3> QED
      BY <3>3
  <2> QED
    BY <2>2, <2>3
<1>2. S \in G
  <2>1. \A A \in SUBSET S : (\A x \in A : A \ {x} \in G) => A \in G
    BY <1>1
  <2>2. \A A \in SUBSET S : A \in G
    <3> HIDE DEF G
    <3> QED
      BY <2>1, SubsetInduction
  <2> HIDE DEF G
  <2> QED
    BY <2>2
<1> QED
  BY <1>2

\* The sum over a set is that over a part and that over the rest.
LEMMA TotalParts ==
  ASSUME NEW S, IsFiniteSet(S), NEW f, \A x \in S : f[x] \in Nat, NEW R, R \subseteq S
  PROVE  Total(f, S) = Total(f, R) + Total(f, S \ R)
<1> DEFINE G == {A \in SUBSET S : R \subseteq A => Total(f, A) = Total(f, R) + Total(f, A \ R)}
<1>1. ASSUME NEW A \in SUBSET S, \A x \in A : A \ {x} \in G, R \subseteq A
      PROVE  Total(f, A) = Total(f, R) + Total(f, A \ R)
  <2>1. IsFiniteSet(A) /\ IsFiniteSet(R) /\ IsFiniteSet(A \ R)
    BY FS_Subset
  <2>2. Total(f, R) \in Nat
    BY <2>1, TotalType
  <2>3. CASE A = R
    <3>1. A \ R = {}
      BY <2>3
    <3>2. Total(f, A \ R) = 0
      BY <2>1, <3>1, TotalPick
    <3> QED
      BY <2>2, <2>3, <3>2
  <2>4. CASE A # R
    <3>1. PICK x \in A \ R : TRUE
      BY <1>1, <2>4
    <3>2. Total(f, A \ {x}) = Total(f, R) + Total(f, (A \ {x}) \ R)
      BY <1>1, <3>1
    <3>3. Total(f, A) = f[x] + Total(f, A \ {x})
      BY <2>1, <3>1, TotalWithout
    <3>4. Total(f, A \ R) = f[x] + Total(f, (A \ R) \ {x})
      BY <2>1, <3>1, TotalWithout
    <3>5. (A \ {x}) \ R = (A \ R) \ {x} /\ f[x] \in Nat
      BY <3>1
    <3>6. Total(f, (A \ R) \ {x}) \in Nat
      <4>1. IsFiniteSet((A \ R) \ {x})
        BY <2>1, FS_Subset
      <4> QED
        BY <4>1, TotalType
    <3> HIDE DEF G
    <3> QED
      BY <2>2, <3>2, <3>3, <3>4, <3>5, <3>6
  <2> QED
    BY <2>3, <2>4
<1>2. S \in G
  <2>1. \A A \in SUBSET S : (\A x \in A : A \ {x} \in G) => A \in G
    BY <1>1
  <2>3. \A E \in SUBSET S : E \in G
    <3> HIDE DEF G
    <3> QED
      BY <2>1, SubsetInduction
  <2> HIDE DEF G
  <2> QED
    BY <2>3
<1> QED
  BY <1>2

\* Multiplication keeps the order.
LEMMA TimesOrder ==
  /\ \A a, b, n \in Nat : a <= b => a * n <= b * n
  /\ \A a, b \in Nat, n \in Nat \ {0} : a * n <= b * n => a <= b
  /\ \A a, b \in Nat, n \in Nat \ {0} : a < b => a * n < b * n
  /\ \A a, b \in Nat : a * b = b * a /\ a * b \in Nat
  /\ \A a, b, n \in Int : (a + b) * n = a * n + b * n /\ n * (a + b) = n * a + n * b
  /\ \A a, b, n \in Int : (a * b) * n = a * (b * n)
  OBVIOUS

\* What is at most a shares of each is at most a shares of all; what is more than
\* a shares of each, of somebody, is more than a shares of all.
LEMMA TotalRatio ==
  ASSUME NEW S, IsFiniteSet(S), NEW f, NEW h, \A x \in S : f[x] \in Nat /\ h[x] \in Nat,
         NEW a \in Nat, NEW b \in Nat
  PROVE  /\ (\A x \in S : f[x] * b <= a * h[x]) => Total(f, S) * b <= a * Total(h, S)
         /\ S # {} /\ (\A x \in S : f[x] * b > a * h[x]) => Total(f, S) * b > a * Total(h, S)
<1> DEFINE G == {A \in SUBSET S :
                   /\ (\A x \in A : f[x] * b <= a * h[x]) => Total(f, A) * b <= a * Total(h, A)
                   /\ A # {} /\ (\A x \in A : f[x] * b > a * h[x]) => Total(f, A) * b > a * Total(h, A)}
<1>1. ASSUME NEW A \in SUBSET S, \A x \in A : A \ {x} \in G PROVE A \in G
  <2>1. IsFiniteSet(A)
    BY FS_Subset
  <2>2. CASE A = {}
    <3>1. Total(f, A) = 0 /\ Total(h, A) = 0
      BY <2>1, <2>2, TotalPick
    <3> QED
      BY <2>2, <3>1
  <2>3. CASE A # {}
    <3>1. PICK x \in A : TRUE
      BY <2>3
    <3> DEFINE B == A \ {x}
               F == Total(f, B)
               H == Total(h, B)
    <3>2. Total(f, A) = f[x] + F /\ Total(h, A) = h[x] + H
      BY <2>1, <3>1, TotalWithout
    <3>3. f[x] \in Nat /\ h[x] \in Nat
      BY <3>1
    <3>4. F \in Nat /\ H \in Nat
      <4>1. IsFiniteSet(B)
        BY <2>1, FS_Subset
      <4> QED
        BY <4>1, TotalType
    <3>5. /\ (f[x] + F) * b = f[x] * b + F * b /\ a * (h[x] + H) = a * h[x] + a * H
          /\ {f[x] * b, F * b, a * h[x], a * H} \subseteq Nat
      BY <3>3, <3>4, TimesOrder
    <3>6. /\ (\A y \in B : f[y] * b <= a * h[y]) => F * b <= a * H
          /\ B # {} /\ (\A y \in B : f[y] * b > a * h[y]) => F * b > a * H
      BY <1>1, <3>1
    <3>7. B = {} => F = 0 /\ H = 0
      BY TotalPick, FS_EmptySet
    <3>8. ASSUME \A y \in A : f[y] * b <= a * h[y] PROVE Total(f, A) * b <= a * Total(h, A)
      <4>1. F * b <= a * H /\ f[x] * b <= a * h[x]
        BY <3>1, <3>6, <3>8
      <4> HIDE DEF F, H, G
      <4> QED
        BY <3>2, <3>3, <3>4, <3>5, <4>1
    <3>9. ASSUME \A y \in A : f[y] * b > a * h[y] PROVE Total(f, A) * b > a * Total(h, A)
      <4>1. f[x] * b > a * h[x]
        BY <3>1, <3>9
      <4>2. F * b >= a * H
        <5>1. CASE B = {}
          <6>1. F * b = 0 /\ a * H = 0
            BY <3>7, <5>1
          <6> QED
            BY <6>1
        <5>2. CASE B # {}
          <6>1. F * b > a * H
            BY <3>6, <3>9, <5>2
          <6> HIDE DEF F, H, G
          <6> QED
            BY <3>5, <6>1
        <5> QED
          BY <5>1, <5>2
      <4> HIDE DEF F, H, G
      <4> QED
        BY <3>2, <3>3, <3>4, <3>5, <4>1, <4>2
    <3> QED
      BY <3>8, <3>9
  <2> QED
    BY <2>2, <2>3
<1>2. S \in G
  <2>1. \A A \in SUBSET S : (\A x \in A : A \ {x} \in G) => A \in G
    BY <1>1
  <2>2. \A A \in SUBSET S : A \in G
    <3> HIDE DEF G
    <3> QED
      BY <2>1, SubsetInduction
  <2> HIDE DEF G
  <2> QED
    BY <2>2
<1> QED
  BY <1>2

-----------------------------------------------------------------------------
(* weighted_fair_allowance *)

\* L is the loop's result from every subset of A.
Pass(S, L, demand, weights, active, c) ==
  LET satisfied == Satisfied(demand, weights, S, Remaining(demand, active \ S, c))
  IN IF satisfied = {} THEN {S} ELSE UNION {L[S \ {w}] : w \in satisfied}
Loops(L, A, demand, weights, active, c) ==
  L = [S \in SUBSET A |-> Pass(S, L, demand, weights, active, c)]

\* The loop is this function.
LEMMA UnsatisfiedUnfold ==
  \A demand, weights, active, c :
    Unsatisfied(demand, weights, active, c) =
      (CHOOSE L : Loops(L, active, demand, weights, active, c))[active]
  BY DEF Unsatisfied, Loops, Pass

\* A worker that is satisfied is one of those asked about.
LEMMA SatisfiedIn == \A demand, weights, S, c : Satisfied(demand, weights, S, c) \subseteq S
  BY DEF Satisfied

\* Results of the loop agree where both are defined.
LEMMA LoopsAgree ==
  ASSUME NEW demand, NEW weights, NEW active, NEW c,
         NEW A, IsFiniteSet(A), NEW B, NEW L, NEW M,
         Loops(L, A, demand, weights, active, c), Loops(M, B, demand, weights, active, c),
         NEW C, C \subseteq A, C \subseteq B
  PROVE  L[C] = M[C]
<1> DEFINE G == {D \in SUBSET A : D \subseteq B => L[D] = M[D]}
           Sat(D) == Satisfied(demand, weights, D, Remaining(demand, active \ D, c))
<1>1. ASSUME NEW D \in SUBSET A, \A x \in D : D \ {x} \in G PROVE D \in G
  <2> SUFFICES ASSUME D \subseteq B PROVE L[D] = M[D]
    OBVIOUS
  <2>1. L[D] = Pass(D, L, demand, weights, active, c) /\ M[D] = Pass(D, M, demand, weights, active, c)
    BY DEF Loops
  <2>2. \A w \in Sat(D) : L[D \ {w}] = M[D \ {w}]
    BY <1>1, SatisfiedIn
  <2>3. {L[D \ {w}] : w \in Sat(D)} = {M[D \ {w}] : w \in Sat(D)}
    BY <2>2
  <2> QED
    BY <2>1, <2>3 DEF Pass
<1>2. C \in G
  <2>1. \A D \in SUBSET A : (\A x \in D : D \ {x} \in G) => D \in G
    BY <1>1
  <2>3. \A E \in SUBSET A : E \in G
    <3> HIDE DEF G
    <3> QED
      BY <2>1, SubsetInduction
  <2> HIDE DEF G
  <2> QED
    BY <2>3
<1> QED
  BY <1>2

\* There is a result from every set of workers.
LEMMA LoopsExist ==
  ASSUME NEW demand, NEW weights, NEW active, NEW c, NEW A, IsFiniteSet(A)
  PROVE  \E L : Loops(L, A, demand, weights, active, c)
<1> DEFINE P(L, D) == Loops(L, D, demand, weights, active, c)
           Sat(D) == Satisfied(demand, weights, D, Remaining(demand, active \ D, c))
           G == {D \in SUBSET A : \A E \in SUBSET D : \E L : P(L, E)}
<1>1. ASSUME NEW D \in SUBSET A, \A x \in D : D \ {x} \in G PROVE D \in G
  <2>1. \A E : E \subseteq D /\ E # D => \E L : P(L, E)
    <3> SUFFICES ASSUME NEW E, E \subseteq D, E # D PROVE \E L : P(L, E)
      OBVIOUS
    <3>1. PICK x \in D : x \notin E
      OBVIOUS
    <3>2. E \in SUBSET (D \ {x})
      BY <3>1
    <3> QED
      BY <1>1, <3>1, <3>2
  <2> DEFINE F(E) == CHOOSE L : P(L, E)
             M == [S \in SUBSET D |-> IF Sat(S) = {} THEN {S} ELSE UNION {F(S \ {w})[S \ {w}] : w \in Sat(S)}]
  <2>2. \A E : E \subseteq D /\ E # D => P(F(E), E)
    BY <2>1
  <2>3. ASSUME NEW E, E \subseteq D, E # D PROVE M[E] = F(E)[E]
    <3>1. P(F(E), E) /\ IsFiniteSet(E)
      BY <2>2, <2>3, FS_Subset
    <3>2. F(E)[E] = Pass(E, F(E), demand, weights, active, c)
      <4> HIDE DEF F
      <4> QED
        BY <3>1 DEF Loops
    <3>3. ASSUME NEW w \in Sat(E) PROVE F(E \ {w})[E \ {w}] = F(E)[E \ {w}]
      <4>1. w \in E
        BY SatisfiedIn
      <4>2. P(F(E \ {w}), E \ {w}) /\ IsFiniteSet(E \ {w})
        <5>1. E \ {w} \subseteq D /\ E \ {w} # D
          BY <2>3
        <5> QED
          BY <2>2, <3>1, <5>1, FS_Subset
      <4>3. E \ {w} \subseteq E
        OBVIOUS
      <4> HIDE DEF F
      <4> QED
        BY <3>1, <4>2, <4>3, LoopsAgree
    <3>4. {F(E \ {w})[E \ {w}] : w \in Sat(E)} = {F(E)[E \ {w}] : w \in Sat(E)}
      <4> HIDE DEF F, Sat
      <4> QED
        BY <3>3
    <3>5. M[E] = IF Sat(E) = {} THEN {E} ELSE UNION {F(E \ {w})[E \ {w}] : w \in Sat(E)}
      <4>1. E \in SUBSET D
        BY <2>3
      <4> HIDE DEF F, Sat
      <4> QED
        BY <4>1
    <3> HIDE DEF F, M
    <3> QED
      BY <3>2, <3>4, <3>5 DEF Pass
  <2>4. ASSUME NEW S \in SUBSET D PROVE M[S] = Pass(S, M, demand, weights, active, c)
    <3>1. M[S] = IF Sat(S) = {} THEN {S} ELSE UNION {F(S \ {w})[S \ {w}] : w \in Sat(S)}
      <4> HIDE DEF F, Sat
      <4> QED
        OBVIOUS
    <3>2. \A w \in Sat(S) : M[S \ {w}] = F(S \ {w})[S \ {w}]
      <4>1. \A w \in Sat(S) : S \ {w} \subseteq D /\ S \ {w} # D
        BY SatisfiedIn
      <4> HIDE DEF F, Sat, M
      <4> QED
        BY <2>3, <4>1
    <3>3. {F(S \ {w})[S \ {w}] : w \in Sat(S)} = {M[S \ {w}] : w \in Sat(S)}
      <4> HIDE DEF F, Sat, M
      <4> QED
        BY <3>2
    <3> HIDE DEF F, M
    <3> QED
      BY <3>1, <3>3 DEF Pass
  <2>5. P(M, D)
    <3>1. M = [S \in SUBSET D |-> M[S]]
      OBVIOUS
    <3> HIDE DEF M
    <3> QED
      BY <2>4, <3>1 DEF Loops
  <2> HIDE DEF P
  <2> QED
    BY <2>1, <2>5
<1>2. A \in G
  <2>1. \A D \in SUBSET A : (\A x \in D : D \ {x} \in G) => D \in G
    BY <1>1
  <2>3. \A E \in SUBSET A : E \in G
    <3> HIDE DEF G
    <3> QED
      BY <2>1, SubsetInduction
  <2> HIDE DEF G
  <2> QED
    BY <2>3
<1> QED
  BY <1>2

\* Levels are compared by cross-multiplication.  When v takes no more than its part of
\* R, the rest R - dv over W - wv is a level no lower than R over W.
LEMMA LevelRises ==
  ASSUME NEW R \in Nat, NEW W \in Nat, NEW du \in Nat, NEW wu \in Nat, NEW dv \in Nat, NEW wv \in Nat,
         0 < wv, wv <= W, du * W <= R * wu, dv * W <= R * wv
  PROVE  dv <= R /\ du * (W - wv) <= (R - dv) * wu
<1>1. dv * W <= R * W
  <2>1. R * wv <= R * W /\ dv * W \in Nat /\ R * wv \in Nat /\ R * W \in Nat
    BY TimesOrder
  <2> QED
    BY <2>1
<1>2. dv <= R
  BY <1>1, TimesOrder
<1>3. R - dv \in Nat /\ W - wv \in Nat /\ W \in Nat \ {0}
  BY <1>2
<1>4. (du * W) * (W - wv) <= (R * wu) * (W - wv)
  BY <1>3, TimesOrder
<1>5. (dv * W) * wu <= (R * wv) * wu
  BY TimesOrder
<1>6. (du * (W - wv)) * W = (du * W) * (W - wv)
  BY <1>3, TimesOrder
<1>7. ((R - dv) * wu) * W = (R * wu) * W - (dv * W) * wu
  <2>1. (R - dv) * wu = R * wu - dv * wu
    OBVIOUS
  <2>2. (R * wu - dv * wu) * W = (R * wu) * W - (dv * wu) * W
    <3>1. \A a, b, n \in Nat : (a - b) * n = a * n - b * n
      OBVIOUS
    <3>2. R * wu \in Nat /\ dv * wu \in Nat
      BY TimesOrder
    <3> QED
      BY <3>1, <3>2
  <2>3. (dv * wu) * W = (dv * W) * wu
    BY TimesOrder
  <2> QED
    BY <2>1, <2>2, <2>3
<1>8. (R * wu) * (W - wv) = (R * wu) * W - (R * wv) * wu
  <2>1. (R * wu) * (W - wv) = (R * wu) * W - (R * wu) * wv
    <3>1. \A a, b, n \in Nat : n * (a - b) = n * a - n * b
      OBVIOUS
    <3>2. R * wu \in Nat
      BY TimesOrder
    <3> QED
      BY <3>1, <3>2
  <2>2. (R * wu) * wv = (R * wv) * wu
    BY TimesOrder
  <2> QED
    BY <2>1, <2>2
<1>9. (du * (W - wv)) * W <= ((R - dv) * wu) * W
  <2>1. {(R * wu) * W, (R * wv) * wu, (dv * W) * wu} \subseteq Nat
    BY TimesOrder
  <2> QED
    BY <1>4, <1>5, <1>6, <1>7, <1>8, <2>1
<1> QED
  <2>1. du * (W - wv) \in Nat /\ (R - dv) * wu \in Nat
    BY <1>3, TimesOrder
  <2> HIDE <1>4, <1>5, <1>6, <1>7, <1>8
  <2> QED
    BY <1>2, <1>3, <1>9, <2>1, TimesOrder

\* Demands and weights as the table has them.
Demands(demand, weights, active, c) ==
  /\ IsFiniteSet(active) /\ c \in Nat
  /\ \A w \in active : demand[w] \in Nat /\ weights[w] \in Nat \ {0}

\* Their sums.
LEMMA DemandTotals ==
  ASSUME NEW demand, NEW weights, NEW active, NEW c, Demands(demand, weights, active, c),
         NEW S, S \subseteq active
  PROVE  /\ IsFiniteSet(S) /\ Total(demand, S) \in Nat /\ Total(weights, S) \in Nat
         /\ S # {} => Total(weights, S) > 0
         /\ \A w \in S : /\ Total(demand, S) = demand[w] + Total(demand, S \ {w})
                          /\ Total(weights, S) = weights[w] + Total(weights, S \ {w})
                          /\ weights[w] <= Total(weights, S)
<1>1. IsFiniteSet(S) /\ \A w \in S : demand[w] \in Nat /\ weights[w] \in Nat \ {0}
  BY FS_Subset DEF Demands
<1>2. \A R : R \subseteq S => Total(demand, R) \in Nat /\ Total(weights, R) \in Nat
  <2> SUFFICES ASSUME NEW R, R \subseteq S PROVE Total(demand, R) \in Nat /\ Total(weights, R) \in Nat
    OBVIOUS
  <2>1. IsFiniteSet(R) /\ \A w \in R : demand[w] \in Nat /\ weights[w] \in Nat
    BY <1>1, FS_Subset
  <2> QED
    BY <2>1, TotalType
<1>3. \A w \in S : /\ Total(demand, S) = demand[w] + Total(demand, S \ {w})
                   /\ Total(weights, S) = weights[w] + Total(weights, S \ {w})
  BY <1>1, TotalWithout
<1>4. \A w \in S : weights[w] <= Total(weights, S)
  <2> SUFFICES ASSUME NEW w \in S PROVE weights[w] <= Total(weights, S)
    OBVIOUS
  <2>1. Total(weights, S \ {w}) \in Nat /\ weights[w] \in Nat /\ Total(weights, S) = weights[w] + Total(weights, S \ {w})
    BY <1>1, <1>2, <1>3
  <2> QED
    BY <2>1
<1>5. S # {} => Total(weights, S) > 0
  <2> SUFFICES ASSUME NEW w \in S PROVE Total(weights, S) > 0
    OBVIOUS
  <2>1. weights[w] \in Nat \ {0} /\ weights[w] <= Total(weights, S) /\ Total(weights, S) \in Nat
    BY <1>1, <1>2, <1>4
  <2> QED
    BY <2>1
<1> QED
  BY <1>1, <1>2, <1>3, <1>4, <1>5

\* The loop's invariant: what was removed leaves something, and none of the removed
\* wanted more than its part of what is left.
Served(demand, weights, active, c, S) ==
  LET rest == c - Total(demand, active \ S)
  IN /\ rest >= 0
     /\ \A w \in active \ S : S # {} => demand[w] * Total(weights, S) <= rest * weights[w]

\* A pass keeps it.
LEMMA ServedStep ==
  ASSUME NEW demand, NEW weights, NEW active, NEW c, Demands(demand, weights, active, c),
         NEW S, S \subseteq active, Served(demand, weights, active, c, S),
         NEW v \in Satisfied(demand, weights, S, Remaining(demand, active \ S, c))
  PROVE  Served(demand, weights, active, c, S \ {v})
<1> DEFINE D == Total(demand, active \ S)
           R == c - D
           W == Total(weights, S)
           T == S \ {v}
<1>1. v \in S /\ T \subseteq active /\ active \ S \subseteq active /\ S # {}
  BY SatisfiedIn
<1>2. demand[v] \in Nat /\ weights[v] \in Nat /\ weights[v] > 0 /\ c \in Nat
  BY <1>1 DEF Demands
<1>3. W \in Nat /\ weights[v] <= W /\ W > 0 /\ Total(weights, T) = W - weights[v]
  <2>1. Total(weights, T) \in Nat
    <3> HIDE DEF T
    <3> QED
      BY <1>1, DemandTotals
  <2>2. W \in Nat /\ W > 0
    BY <1>1, DemandTotals
  <2>3. weights[v] <= W /\ W = weights[v] + Total(weights, T)
    BY <1>1, DemandTotals
  <2> HIDE DEF W, T
  <2> QED
    BY <1>2, <2>1, <2>2, <2>3
<1>4. D \in Nat /\ R \in Nat
  <2>1. D \in Nat
    BY <1>1, DemandTotals
  <2>2. R >= 0
    BY DEF Served
  <2> HIDE DEF D
  <2> QED
    BY <1>2, <2>1, <2>2
<1>5. Remaining(demand, active \ S, c) = R
  BY <1>4 DEF Remaining
<1>6. demand[v] * W <= R * weights[v]
  BY <1>5 DEF Satisfied
<1>7. Total(demand, active \ T) = D + demand[v]
  <2> DEFINE A == active \ T
  <2>1. A \subseteq active /\ v \in A /\ A \ {v} = active \ S
    BY <1>1
  <2>2. Total(demand, A) = demand[v] + Total(demand, A \ {v})
    <3> HIDE DEF A, T
    <3> QED
      BY <2>1, DemandTotals
  <2>3. Total(demand, A) = demand[v] + D
    BY <2>1, <2>2
  <2> HIDE DEF A, D, T
  <2>4. demand[v] + D = D + demand[v]
    BY <1>2, <1>4
  <2> QED
    BY <2>3, <2>4 DEF A
<1> DEFINE N == c - Total(demand, active \ T)
<1>8. N = R - demand[v]
  <2> HIDE DEF D, T
  <2> QED
    BY <1>2, <1>4, <1>7
<1>9. \A u \in active \ T : demand[u] * W <= R * weights[u] /\ demand[u] \in Nat /\ weights[u] \in Nat
  <2> SUFFICES ASSUME NEW u \in active \ T
               PROVE  demand[u] * W <= R * weights[u] /\ demand[u] \in Nat /\ weights[u] \in Nat
    OBVIOUS
  <2>1. CASE u = v
    BY <1>2, <1>6, <2>1
  <2>2. CASE u # v
    <3>1. u \in active \ S
      BY <2>2
    <3> QED
      BY <1>1, <3>1 DEF Served, Demands
  <2> QED
    BY <2>1, <2>2
<1>10. N >= 0 /\ \A u \in active \ T : demand[u] * Total(weights, T) <= N * weights[u]
  <2> HIDE DEF R, W, N, T
  <2>1. demand[v] <= R
    BY <1>2, <1>3, <1>4, <1>6, LevelRises
  <2>2. \A u \in active \ T : demand[u] * (W - weights[v]) <= (R - demand[v]) * weights[u]
    BY <1>2, <1>3, <1>4, <1>6, <1>9, LevelRises
  <2>3. R \in Nat
    BY <1>4
  <2> QED
    BY <1>2, <1>3, <2>3, <1>8, <2>1, <2>2
<1> HIDE DEF T
<1> QED
  BY <1>10 DEF Served, T

\* When nobody is satisfied any more, what is left is the fair split.
LEMMA ServedIsFair ==
  ASSUME NEW demand, NEW weights, NEW active, NEW c, Demands(demand, weights, active, c),
         NEW S, S \subseteq active, Served(demand, weights, active, c, S),
         Satisfied(demand, weights, S, Remaining(demand, active \ S, c)) = {}
  PROVE  FairSplit(demand, weights, active, c, S)
<1> DEFINE rest == c - Total(demand, active \ S)
<1>1. active \ S \subseteq active
  OBVIOUS
<1>2. Total(demand, active \ S) \in Nat /\ c \in Nat
  BY <1>1, DemandTotals DEF Demands
<1>3. rest >= 0 /\ rest \in Nat /\ Remaining(demand, active \ S, c) = rest
  <2>1. rest >= 0
    BY DEF Served
  <2>2. rest \in Nat
    BY <1>2, <2>1
  <2> QED
    BY <2>1, <2>2 DEF Remaining
<1>4. ASSUME NEW w \in S PROVE demand[w] * Total(weights, S) > rest * weights[w]
  <2>1. ~(demand[w] * Total(weights, S) <= rest * weights[w])
    BY <1>3 DEF Satisfied
  <2>2. demand[w] \in Nat /\ weights[w] \in Nat /\ Total(weights, S) \in Nat
    BY DemandTotals DEF Demands
  <2>3. demand[w] * Total(weights, S) \in Nat /\ rest * weights[w] \in Nat
    BY <1>3, <2>2, TimesOrder
  <2> QED
    BY <2>1, <2>3
<1>5. ASSUME NEW w \in active \ S, S # {} PROVE ~(demand[w] * Total(weights, S) > rest * weights[w])
  <2>1. demand[w] * Total(weights, S) <= rest * weights[w]
    BY <1>5 DEF Served
  <2>2. demand[w] \in Nat /\ weights[w] \in Nat /\ Total(weights, S) \in Nat
    BY DemandTotals DEF Demands
  <2>3. demand[w] * Total(weights, S) \in Nat /\ rest * weights[w] \in Nat
    BY <1>3, <2>2, TimesOrder
  <2> QED
    BY <2>1, <2>3
<1> QED
  BY <1>3, <1>4, <1>5 DEF FairSplit

\* From where the loop's invariant holds, the loop ends, with fair splits only.
LEMMA LoopFair ==
  ASSUME NEW demand, NEW weights, NEW active, NEW c, Demands(demand, weights, active, c),
         NEW L, Loops(L, active, demand, weights, active, c),
         Served(demand, weights, active, c, active)
  PROVE  /\ L[active] # {}
         /\ \A T \in L[active] : T \subseteq active /\ FairSplit(demand, weights, active, c, T)
<1> DEFINE Fair(T) == T \subseteq active /\ FairSplit(demand, weights, active, c, T)
           Good(S) == Served(demand, weights, active, c, S) => L[S] # {} /\ \A T \in L[S] : Fair(T)
           Sat(S) == Satisfied(demand, weights, S, Remaining(demand, active \ S, c))
           G == {S \in SUBSET active : Good(S)}
<1>1. ASSUME NEW S \in SUBSET active, \A x \in S : S \ {x} \in G PROVE S \in G
  <2> SUFFICES ASSUME Served(demand, weights, active, c, S)
               PROVE  L[S] # {} /\ \A T \in L[S] : Fair(T)
    OBVIOUS
  <2>1. L[S] = IF Sat(S) = {} THEN {S} ELSE UNION {L[S \ {w}] : w \in Sat(S)}
    BY DEF Loops, Pass
  <2>2. CASE Sat(S) = {}
    <3>1. L[S] = {S}
      BY <2>1, <2>2
    <3>2. Fair(S)
      BY <2>2, ServedIsFair
    <3> HIDE DEF Fair
    <3> QED
      BY <3>1, <3>2
  <2>3. CASE Sat(S) # {}
    <3>1. ASSUME NEW w \in Sat(S) PROVE L[S \ {w}] # {} /\ \A T \in L[S \ {w}] : Fair(T)
      <4>1. w \in S
        BY SatisfiedIn
      <4>2. Good(S \ {w})
        BY <1>1, <4>1
      <4>3. Served(demand, weights, active, c, S \ {w})
        BY ServedStep
      <4> HIDE DEF Fair
      <4> QED
        BY <4>2, <4>3
    <3>2. L[S] = UNION {L[S \ {w}] : w \in Sat(S)}
      BY <2>1, <2>3
    <3>3. PICK w \in Sat(S) : TRUE
      BY <2>3
    <3>4. L[S \ {w}] \subseteq L[S]
      <4> HIDE DEF Sat
      <4> QED
        BY <3>2
    <3>5. ASSUME NEW T \in L[S] PROVE Fair(T)
      <4>1. PICK x \in Sat(S) : T \in L[S \ {x}]
        BY <3>2, <3>5
      <4> HIDE DEF Fair, Sat
      <4> QED
        BY <3>1, <4>1
    <3> HIDE DEF Fair, Sat, G, Good
    <3> QED
      BY <3>1, <3>3, <3>4, <3>5
  <2> QED
    BY <2>2, <2>3
<1>2. active \in G
  <2>1. \A S \in SUBSET active : (\A x \in S : S \ {x} \in G) => S \in G
    BY <1>1
  <2>2. IsFiniteSet(active)
    BY DEF Demands
  <2>3. \A E \in SUBSET active : E \in G
    <3> HIDE DEF G
    <3> QED
      BY <2>1, <2>2, SubsetInduction
  <2> HIDE DEF G
  <2> QED
    BY <2>3
<1> HIDE DEF Fair
<1>3. Good(active)
  BY <1>2
<1> QED
  BY <1>3 DEF Fair

\* The sums over a part and over the rest.
LEMMA DemandParts ==
  ASSUME NEW demand, NEW weights, NEW active, NEW c, Demands(demand, weights, active, c),
         NEW S, S \subseteq active, NEW R, R \subseteq S
  PROVE  /\ Total(demand, S) = Total(demand, R) + Total(demand, S \ R)
         /\ Total(weights, S) = Total(weights, R) + Total(weights, S \ R)
<1>1. IsFiniteSet(S) /\ \A w \in S : demand[w] \in Nat /\ weights[w] \in Nat
  BY FS_Subset DEF Demands
<1> QED
  BY <1>1, TotalParts

\* Who is satisfied at one level and not at another tells which is the higher.
LEMMA LevelsOrdered ==
  ASSUME NEW RS \in Nat, NEW WS \in Nat, WS > 0, NEW RT \in Nat, NEW WT \in Nat, WT > 0,
         NEW d \in Nat, NEW w \in Nat \ {0}, d * WT <= RT * w, d * WS > RS * w
  PROVE  RS * WT < RT * WS
<1>1. (d * WT) * WS <= (RT * w) * WS
  BY TimesOrder
<1>2. (RS * w) * WT < (d * WS) * WT
  BY TimesOrder
<1>3. (d * WT) * WS = (d * WS) * WT /\ (RT * w) * WS = (RT * WS) * w /\ (RS * w) * WT = (RS * WT) * w
  <2>1. \A a, b, n \in Nat : (a * b) * n = (a * n) * b
    OBVIOUS
  <2> QED
    BY <2>1
<1>4. (RS * WT) * w < (RT * WS) * w
  <2>1. {(RS * w) * WT, (d * WS) * WT, (RT * w) * WS} \subseteq Nat
    BY TimesOrder
  <2> QED
    BY <1>1, <1>2, <1>3, <2>1
<1>5. RS * WT \in Nat /\ RT * WS \in Nat
  BY TimesOrder
<1>6. ~(RT * WS <= RS * WT)
  <2>1. RT * WS <= RS * WT => (RT * WS) * w <= (RS * WT) * w
    BY <1>5, TimesOrder
  <2>2. (RT * WS) * w \in Nat /\ (RS * WT) * w \in Nat
    BY <1>5, TimesOrder
  <2> QED
    BY <1>4, <2>1, <2>2
<1> QED
  BY <1>5, <1>6

\* Taking out those who want more than their part lowers the level.
LEMMA LevelFalls ==
  ASSUME NEW RS \in Nat, NEW WS \in Nat, NEW D \in Nat, NEW W \in Nat, NEW RT \in Nat, NEW WT \in Nat,
         D * WS > RS * W, WS = WT + W, RT = RS - D
  PROVE  ~(RS * WT < RT * WS)
<1>1. RS * WS = RS * WT + RS * W
  BY TimesOrder
<1>2. RT * WS = RS * WS - D * WS
  <2>1. \A a, b, n \in Nat : (a - b) * n = a * n - b * n
    OBVIOUS
  <2> QED
    BY <2>1
<1>3. {RS * WS, RS * WT, RS * W, D * WS} \subseteq Nat
  BY TimesOrder
<1> QED
  BY <1>1, <1>2, <1>3

\* More than the part of a level is more than the part of any level not above it.
LEMMA LevelShared ==
  ASSUME NEW R \in Nat, NEW WS \in Nat, WS > 0, NEW c \in Nat, NEW WA \in Nat, WA > 0,
         NEW d \in Nat, NEW w \in Nat \ {0}, d * WS > R * w, c * WS <= R * WA
  PROVE  c * w < d * WA
<1>1. (R * w) * WA < (d * WS) * WA
  BY TimesOrder
<1>2. (c * WS) * w <= (R * WA) * w
  BY TimesOrder
<1>3. (R * w) * WA = (R * WA) * w /\ (c * WS) * w = (c * w) * WS /\ (d * WS) * WA = (d * WA) * WS
  <2>1. \A a, b, n \in Nat : (a * b) * n = (a * n) * b
    OBVIOUS
  <2> QED
    BY <2>1
<1>4. (c * w) * WS < (d * WA) * WS
  <2>1. {(R * w) * WA, (d * WS) * WA, (c * WS) * w} \subseteq Nat
    BY TimesOrder
  <2> QED
    BY <1>1, <1>2, <1>3, <2>1
<1>5. c * w \in Nat /\ d * WA \in Nat
  BY TimesOrder
<1>6. ~(d * WA <= c * w)
  <2>1. d * WA <= c * w => (d * WA) * WS <= (c * w) * WS
    BY <1>5, TimesOrder
  <2>2. (d * WA) * WS \in Nat /\ (c * w) * WS \in Nat
    BY <1>5, TimesOrder
  <2> QED
    BY <1>4, <2>1, <2>2
<1> QED
  BY <1>5, <1>6

\* A fair split lies within any other: were somebody in the first only, the level of
\* the second would be both at least and below that of the first.
LEMMA FairWithin ==
  ASSUME NEW demand, NEW weights, NEW active, NEW c, Demands(demand, weights, active, c),
         NEW S \in SUBSET active, FairSplit(demand, weights, active, c, S),
         NEW T \in SUBSET active, FairSplit(demand, weights, active, c, T)
  PROVE  S \subseteq T
<1> SUFFICES ASSUME NEW x \in S, x \notin T PROVE FALSE
  OBVIOUS
<1> DEFINE A == S \ T
           WS == Total(weights, S)
           WT == Total(weights, T)
           RS == c - Total(demand, active \ S)
           RT == c - Total(demand, active \ T)
<1>1. active \ S \subseteq active /\ active \ T \subseteq active /\ A \subseteq active /\ x \in active
  OBVIOUS
<1>2. /\ WS \in Nat /\ WS > 0 /\ WT \in Nat /\ (T # {} => WT > 0)
      /\ Total(demand, active \ S) \in Nat /\ Total(demand, active \ T) \in Nat
      /\ Total(demand, A) \in Nat /\ Total(weights, A) \in Nat /\ IsFiniteSet(A)
  <2>1. S # {}
    OBVIOUS
  <2>2. WS \in Nat /\ WS > 0
    BY <2>1, DemandTotals
  <2>3. WT \in Nat /\ (T # {} => WT > 0)
    BY DemandTotals
  <2>4. Total(demand, active \ S) \in Nat
    BY <1>1, DemandTotals
  <2>5. Total(demand, active \ T) \in Nat
    BY <1>1, DemandTotals
  <2>6. Total(demand, A) \in Nat /\ Total(weights, A) \in Nat /\ IsFiniteSet(A)
    <3> HIDE DEF A
    <3> QED
      BY <1>1, DemandTotals
  <2> QED
    BY <2>2, <2>3, <2>4, <2>5, <2>6
<1>3. RS \in Nat /\ RT \in Nat
  <2>1. RS >= 0 /\ RT >= 0 /\ c \in Nat
    BY DEF FairSplit, Demands
  <2> QED
    BY <1>2, <2>1
<1>4. \A w \in active : demand[w] \in Nat /\ weights[w] \in Nat \ {0}
  BY DEF Demands
<1>5. \A w \in active : w \in S <=> demand[w] * WS > RS * weights[w]
  BY DEF FairSplit
<1>6. Total(demand, A) * WS > RS * Total(weights, A)
  <2>1. \A w \in A : demand[w] \in Nat /\ weights[w] \in Nat /\ demand[w] * WS > RS * weights[w]
    BY <1>4, <1>5
  <2>2. A # {}
    OBVIOUS
  <2> HIDE DEF A, WS, RS
  <2> QED
    BY <1>2, <1>3, <2>1, <2>2, TotalRatio
<1>7. CASE T = {}
  <2>1. A = S /\ active \ T = active
    BY <1>7
  <2>2. Total(demand, active) = Total(demand, S) + Total(demand, active \ S)
    BY DemandParts
  <2>3. Total(demand, S) <= RS
    <3>1. RT = c - Total(demand, active)
      BY <2>1
    <3>2. Total(demand, S) \in Nat /\ c \in Nat
      BY <1>2, <2>1 DEF Demands
    <3> HIDE DEF WS, WT, A
    <3> QED
      BY <1>2, <1>3, <2>2, <3>1, <3>2
  <2>4. Total(demand, S) * WS <= RS * WS
    <3>1. Total(demand, S) \in Nat
      BY <1>2, <2>1
    <3> HIDE DEF RS, WS
    <3> QED
      BY <1>2, <1>3, <2>3, <3>1, TimesOrder
  <2>5. Total(demand, S) * WS > RS * WS
    BY <1>6, <2>1
  <2>6. Total(demand, S) * WS \in Nat /\ RS * WS \in Nat
    BY <1>2, <1>3, <2>1, TimesOrder
  <2> QED
    BY <2>4, <2>5, <2>6
<1>8. CASE T # {}
  <2>1. demand[x] * WT <= RT * weights[x] /\ demand[x] * WS > RS * weights[x]
    <3>1. ~(demand[x] * WT > RT * weights[x])
      BY <1>1, <1>8 DEF FairSplit
    <3>2. demand[x] * WT \in Nat /\ RT * weights[x] \in Nat
      BY <1>1, <1>2, <1>3, <1>4, TimesOrder
    <3>3. demand[x] * WS > RS * weights[x]
      BY <1>1, <1>5
    <3> HIDE DEF WT, RT, WS, RS
    <3> QED
      BY <3>1, <3>2, <3>3
  <2>2. RS * WT < RT * WS
    <3>1. demand[x] \in Nat /\ weights[x] \in Nat \ {0} /\ WT > 0
      BY <1>1, <1>2, <1>4, <1>8
    <3> HIDE DEF RS, RT, WS, WT
    <3> QED
      BY <1>2, <1>3, <2>1, <3>1, LevelsOrdered
  <2>3. T \subseteq S
    <3> SUFFICES ASSUME NEW y \in T, y \notin S PROVE FALSE
      OBVIOUS
    <3>1. demand[y] * WS <= RS * weights[y] /\ demand[y] * WT > RT * weights[y]
      <4>1. ~(demand[y] * WS > RS * weights[y]) /\ demand[y] * WT > RT * weights[y]
        BY <1>5 DEF FairSplit
      <4>2. demand[y] * WS \in Nat /\ RS * weights[y] \in Nat
        BY <1>2, <1>3, <1>4, TimesOrder
      <4> HIDE DEF WS, RS
      <4> QED
        BY <4>1, <4>2
    <3>2. RT * WS < RS * WT
      <4>1. demand[y] \in Nat /\ weights[y] \in Nat \ {0} /\ WT > 0
        BY <1>2, <1>4, <1>8
      <4> HIDE DEF RS, RT, WS, WT
      <4> QED
        BY <1>2, <1>3, <3>1, <4>1, LevelsOrdered
    <3>3. RT * WS \in Nat /\ RS * WT \in Nat
      BY <1>2, <1>3, TimesOrder
    <3> HIDE DEF RS, RT, WS, WT
    <3> QED
      BY <2>2, <3>2, <3>3
  <2>4. WS = WT + Total(weights, A)
    BY <2>3, DemandParts DEF A
  <2>5. RT = RS - Total(demand, A)
    <3>1. active \ S \subseteq active \ T /\ (active \ T) \ (active \ S) = A
      BY <2>3
    <3>2. Total(demand, active \ T) = Total(demand, active \ S) + Total(demand, A)
      <4>1. Total(demand, active \ T) = Total(demand, active \ S) + Total(demand, (active \ T) \ (active \ S))
        BY <1>1, <3>1, DemandParts
      <4> QED
        BY <3>1, <4>1
    <3>3. c \in Nat
      BY DEF Demands
    <3>4. \A a, b, n, m \in Nat : a = b + n => m - a = (m - b) - n
      OBVIOUS
    <3> HIDE DEF A, WS, WT
    <3> QED
      BY <1>2, <3>2, <3>3, <3>4
  <2> HIDE DEF A, RS, RT, WS, WT
  <2> QED
    BY <1>2, <1>3, <1>6, <2>2, <2>4, <2>5, LevelFalls
<1> QED
  BY <1>7, <1>8

\* Whatever order the hash map gives, the loop ends with the one fair split.
LEMMA SplitFair ==
  ASSUME NEW demand, NEW weights, NEW active, NEW c, Demands(demand, weights, active, c)
  PROVE  \E S \in SUBSET active : /\ FairSplit(demand, weights, active, c, S)
                                  /\ Unsatisfied(demand, weights, active, c) = {S}
<1> DEFINE L == CHOOSE L : Loops(L, active, demand, weights, active, c)
           U == Unsatisfied(demand, weights, active, c)
<1>1. IsFiniteSet(active) /\ c \in Nat
  BY DEF Demands
<1>2. Loops(L, active, demand, weights, active, c) /\ U = L[active]
  BY <1>1, LoopsExist, UnsatisfiedUnfold
<1>3. Served(demand, weights, active, c, active)
  <2>1. Total(demand, {}) = 0
    BY FS_EmptySet, TotalPick
  <2>2. active \ active = {} /\ c - 0 = c
    BY <1>1
  <2> QED
    BY <1>1, <2>1, <2>2 DEF Served
<1>4. U # {} /\ \A T \in U : T \subseteq active /\ FairSplit(demand, weights, active, c, T)
  <2> HIDE DEF L
  <2> QED
    BY <1>2, <1>3, LoopFair
<1> HIDE DEF U
<1>5. PICK S \in U : TRUE
  BY <1>4
<1>6. ASSUME NEW T \in U PROVE T = S
  <2>1. S \subseteq T
    BY <1>4, FairWithin
  <2>2. T \subseteq S
    BY <1>4, FairWithin
  <2> QED
    BY <2>1, <2>2
<1>7. U = {S}
  BY <1>5, <1>6
<1> QED
  BY <1>4, <1>5, <1>7 DEF U

\* Who ends unsatisfied has used more than its part of the whole, and all together
\* have used more than there is.
LEMMA ExcessOverAll ==
  ASSUME NEW demand, NEW weights, NEW active, NEW c, Demands(demand, weights, active, c),
         NEW S \in SUBSET active, FairSplit(demand, weights, active, c, S), NEW w \in S
  PROVE  /\ demand[w] * Total(weights, active) > c * weights[w]
         /\ Total(demand, active) > c
<1> DEFINE O == active \ S
           WS == Total(weights, S)
           WO == Total(weights, O)
           DS == Total(demand, S)
           DO == Total(demand, O)
           R == c - DO
<1>1. O \subseteq active /\ w \in active /\ S # {}
  OBVIOUS
<1>2. WS \in Nat /\ WS > 0 /\ DS \in Nat /\ IsFiniteSet(S)
  BY <1>1, DemandTotals
<1>3. WO \in Nat /\ DO \in Nat /\ IsFiniteSet(O)
  <2> HIDE DEF O
  <2> QED
    BY <1>1, DemandTotals
<1>4. c \in Nat /\ \A v \in active : demand[v] \in Nat /\ weights[v] \in Nat \ {0}
  BY DEF Demands
<1>5. R \in Nat /\ c = R + DO
  <2>1. R >= 0
    BY DEF FairSplit
  <2> HIDE DEF DO
  <2> QED
    BY <1>3, <1>4, <2>1
<1>6. Total(weights, active) = WS + WO /\ Total(demand, active) = DS + DO
  BY DemandParts
<1>7. \A v \in active : v \in S <=> demand[v] * WS > R * weights[v]
  BY DEF FairSplit
<1>8. DS * WS > R * WS
  <2>1. \A v \in S : demand[v] \in Nat /\ weights[v] \in Nat /\ demand[v] * WS > R * weights[v]
    BY <1>4, <1>7
  <2> HIDE DEF R
  <2>2. Total(demand, S) * WS > R * Total(weights, S)
    <3> HIDE DEF WS
    <3> QED
      BY <1>1, <1>2, <1>5, <2>1, TotalRatio
  <2> QED
    BY <2>2
<1>9. DO * WS <= R * WO
  <2>1. \A v \in O : demand[v] \in Nat /\ weights[v] \in Nat /\ demand[v] * WS <= R * weights[v]
    <3> SUFFICES ASSUME NEW v \in O PROVE demand[v] \in Nat /\ weights[v] \in Nat /\ demand[v] * WS <= R * weights[v]
      OBVIOUS
    <3>1. demand[v] \in Nat /\ weights[v] \in Nat /\ ~(demand[v] * WS > R * weights[v])
      BY <1>4, <1>7
    <3>2. demand[v] * WS \in Nat /\ R * weights[v] \in Nat
      BY <1>2, <1>5, <3>1, TimesOrder
    <3> HIDE DEF R, WS
    <3> QED
      BY <3>1, <3>2
  <2> HIDE DEF R, WS, O
  <2> QED
    BY <1>2, <1>3, <1>5, <2>1, TotalRatio
<1>10. demand[w] * WS > R * weights[w] /\ demand[w] \in Nat /\ weights[w] \in Nat \ {0}
  BY <1>1, <1>4, <1>7
<1> HIDE DEF O, WS, WO, DS, DO, R
<1>11. c * WS <= R * (WS + WO)
  <2>1. (R + DO) * WS = R * WS + DO * WS /\ R * (WS + WO) = R * WS + R * WO
    BY <1>2, <1>3, <1>5, TimesOrder
  <2>2. {R * WS, DO * WS, R * WO} \subseteq Nat
    BY <1>2, <1>3, <1>5, TimesOrder
  <2> QED
    BY <1>5, <1>9, <2>1, <2>2
<1>12. DS > R
  <2>1. ~(DS <= R)
    <3>1. DS <= R => DS * WS <= R * WS
      BY <1>2, <1>5, TimesOrder
    <3>2. DS * WS \in Nat /\ R * WS \in Nat
      BY <1>2, <1>5, TimesOrder
    <3> QED
      BY <1>8, <3>1, <3>2
  <2> QED
    BY <1>2, <1>5, <2>1
<1>13. Total(demand, active) > c
  BY <1>2, <1>3, <1>5, <1>6, <1>12
<1>14. WS + WO \in Nat /\ WS + WO > 0
  BY <1>2, <1>3
<1>15. c * weights[w] < demand[w] * (WS + WO)
  BY <1>2, <1>4, <1>5, <1>10, <1>11, <1>14, LevelShared
<1> QED
  BY <1>6, <1>13, <1>15

-----------------------------------------------------------------------------
(* The table. *)

\* The entries of the table: each with a weight that execution_limits let through, and
\* no more fuel between them than the window has burnt.
Listed ==
  /\ \A w \in account : share[w] \in Weights
  /\ Total(used, account) <= windowFuel

TableSound == Accounted /\ Listed

\* Columns of the table, for any part of it.
LEMMA ColumnTotal ==
  ASSUME TypeOK, NEW S, S \subseteq Workers
  PROVE  IsFiniteSet(S) /\ Total(used, S) \in Nat /\ \A w \in S : used[w] \in Nat
<1>1. IsFiniteSet(S)
  BY CpuShareAssumption, FS_Subset
<1>2. \A w \in S : used[w] \in Nat
  BY CpuShareAssumption DEF TypeOK
<1> QED
  BY <1>1, <1>2, TotalType

\* Fewer entries hold no more.
LEMMA ColumnLess ==
  ASSUME TypeOK, NEW S, S \subseteq Workers, NEW R, R \subseteq S
  PROVE  Total(used, R) <= Total(used, S)
<1>1. S \ R \subseteq Workers /\ R \subseteq Workers
  OBVIOUS
<1>2. Total(used, R) \in Nat
  BY <1>1, ColumnTotal
<1>3. Total(used, S \ R) \in Nat
  BY <1>1, ColumnTotal
<1>4. Total(used, S) = Total(used, R) + Total(used, S \ R)
  BY ColumnTotal, TotalParts
<1> QED
  BY <1>2, <1>3, <1>4

\* Entries dropped from the table take what they used with them.
LEMMA ColumnKept ==
  ASSUME TypeOK, NEW S, S \subseteq Workers, NEW f, \A w \in S : f[w] = used[w]
  PROVE  Total(f, S) = Total(used, S)
<1>1. IsFiniteSet(S)
  BY ColumnTotal
<1> QED
  BY <1>1, TotalSame

\* An empty table.
LEMMA ListedInit == Init => Listed
<1>1. Total(used, {}) = 0
  BY FS_EmptySet, TotalPick
<1> QED
  BY <1>1 DEF Init, Listed

\* A charge goes to the worker's entry and to the window alike.
LEMMA ListedRecord ==
  ASSUME TableSound, NEW w \in Workers, w \in running, NEW consumed \in Nat, RecordFuel(w, consumed)
  PROVE  Listed'
<1> DEFINE kept == account \ Expired
           rest == kept \ {w}
<1>1. /\ account' = kept \cup {w} /\ used' = [Keep(used, kept) EXCEPT ![w] = Keep(used, kept)[w] + consumed]
      /\ share' = [Keep(share, kept) EXCEPT ![w] = weight[w]] /\ windowFuel' = windowFuel + consumed
      /\ windowFuel + consumed <= MaxWindow
  BY DEF RecordFuel
<1>2. TypeOK /\ weight[w] \in Weights
  BY DEF TableSound, Accounted, Bounded
<1>3. kept \subseteq account /\ account \subseteq Workers /\ rest \subseteq Workers /\ account' \subseteq Workers
  BY <1>1, <1>2 DEF TypeOK
<1>4. \A v \in account' : share'[v] \in Weights
  <2> SUFFICES ASSUME NEW v \in account' PROVE share'[v] \in Weights
    OBVIOUS
  <2>1. Keep(share, kept) = [x \in Workers |-> IF x \in kept THEN share[x] ELSE 0]
    BY DEF Keep
  <2>2. CASE v = w
    BY <1>1, <1>2, <2>1, <2>2
  <2>3. CASE v # w
    <3>1. v \in kept /\ v \in Workers /\ v \in account
      BY <1>1, <1>3, <2>3
    <3>2. share'[v] = share[v]
      <4> HIDE DEF kept
      <4> QED
        BY <1>1, <2>1, <2>3, <3>1
    <3> QED
      BY <3>1, <3>2 DEF TableSound, Listed
  <2> QED
    BY <2>2, <2>3
<1>5. Total(used', account') <= windowFuel'
  <2>1. Total(used', account') = used'[w] + Total(used', rest)
    <3>1. account' \ {w} = rest /\ w \in account'
      BY <1>1
    <3>2. \A v \in account' : used'[v] \in Nat
      <4>1. Keep(used, kept) = [x \in Workers |-> IF x \in kept THEN used[x] ELSE 0]
        BY DEF Keep
      <4>2. \A x \in Workers : used[x] \in Nat
        BY <1>2, ColumnTotal
      <4> HIDE DEF kept
      <4> QED
        BY <1>1, <1>3, <4>1, <4>2
    <3>3. IsFiniteSet(account')
      BY <1>2, <1>3, ColumnTotal
    <3> HIDE DEF rest
    <3> QED
      BY <3>1, <3>2, <3>3, TotalWithout
  <2>2. Total(used', rest) = Total(used, rest)
    <3>1. \A v \in rest : used'[v] = used[v]
      BY <1>1, <1>3 DEF Keep
    <3> HIDE DEF rest
    <3> QED
      BY <1>2, <1>3, <3>1, ColumnKept
  <2>3. Keep(used, kept)[w] + Total(used, rest) <= windowFuel
    <3>1. Total(used, account) <= windowFuel /\ windowFuel \in Nat /\ Total(used, account) \in Nat
      BY <1>2, <1>3, CpuShareAssumption, ColumnTotal DEF TableSound, Listed, TypeOK
    <3>2. Total(used, kept) <= Total(used, account) /\ Total(used, kept) \in Nat /\ Total(used, rest) \in Nat
      <4>1. kept \subseteq Workers
        BY <1>3
      <4>2. Total(used, kept) \in Nat
        <5> HIDE DEF kept
        <5> QED
          BY <1>2, <4>1, ColumnTotal
      <4>3. Total(used, rest) \in Nat
        <5> HIDE DEF rest
        <5> QED
          BY <1>2, <1>3, ColumnTotal
      <4>4. Total(used, kept) <= Total(used, account)
        <5> HIDE DEF kept
        <5> QED
          BY <1>2, <1>3, ColumnLess
      <4> QED
        BY <4>2, <4>3, <4>4
    <3>3. CASE w \in kept
      <4>1. Keep(used, kept)[w] = used[w]
        BY <3>3 DEF Keep
      <4>2. Total(used, kept) = used[w] + Total(used, rest)
        <5>1. kept \subseteq Workers
          BY <1>3
        <5>2. IsFiniteSet(kept) /\ \A v \in kept : used[v] \in Nat
          <6> HIDE DEF kept
          <6> QED
            BY <1>2, <5>1, ColumnTotal
        <5> HIDE DEF kept
        <5> QED
          BY <3>3, <5>2, TotalWithout
      <4> HIDE DEF kept, rest
      <4> QED
        BY <3>1, <3>2, <4>1, <4>2
    <3>4. CASE w \notin kept
      <4>1. Keep(used, kept)[w] = 0 /\ rest = kept
        BY <3>4 DEF Keep
      <4>2. 0 + Total(used, kept) = Total(used, kept)
        BY <3>2
      <4>3. Total(used, kept) <= windowFuel
        <5> HIDE DEF kept, rest
        <5> QED
          BY <3>1, <3>2
      <4>4. Keep(used, kept)[w] + Total(used, rest) = Total(used, kept)
        BY <4>1, <4>2
      <4> HIDE DEF kept, rest
      <4> QED
        BY <4>3, <4>4
    <3> QED
      BY <3>3, <3>4
  <2>4. used'[w] = Keep(used, kept)[w] + consumed
    <3>1. Keep(used, kept) = [x \in Workers |-> IF x \in kept THEN used[x] ELSE 0]
      BY DEF Keep
    <3> HIDE DEF kept
    <3> QED
      BY <1>1, <3>1
  <2>5. Keep(used, kept)[w] \in Nat /\ Total(used, rest) \in Nat /\ windowFuel \in Nat
    <3>1. Keep(used, kept)[w] \in {used[w], 0} /\ used[w] \in Nat /\ windowFuel \in Nat
      BY <1>2, TableType, CpuShareAssumption DEF TypeOK
    <3>2. Total(used, rest) \in Nat
      <4> HIDE DEF rest
      <4> QED
        BY <1>2, <1>3, ColumnTotal
    <3> QED
      BY <3>1, <3>2
  <2> HIDE DEF kept, rest
  <2> QED
    BY <1>1, <2>1, <2>2, <2>3, <2>4, <2>5
<1> QED
  BY <1>4, <1>5 DEF Listed

\* A worker's other steps leave the entries alone, but for weights and its own entry.
LEMMA ListedWork ==
  ASSUME TableSound, NEW w \in Workers, Work(w) PROVE Listed'
<1>1. TypeOK /\ account \subseteq Workers
  BY DEF TableSound, Accounted, TypeOK
<1>2. ASSUME UNCHANGED <<account, used, windowFuel>>, NEW n \in Weights, SetShare(w, n) PROVE Listed'
  <2>1. \A v \in account : share[v] \in Weights /\ v \in Workers
    BY <1>1 DEF TableSound, Listed
  <2>2. \A v \in account' : share'[v] \in Weights
    BY <1>1, <1>2, <2>1 DEF SetShare, TypeOK
  <2> QED
    BY <1>2, <2>2 DEF TableSound, Listed
<1>3. ASSUME UNCHANGED <<account, used, windowFuel, share>> PROVE Listed'
  BY <1>3 DEF TableSound, Listed
<1>4. CASE Observe(w)
  <2>1. w \in running /\ (IF lastFuel[w] > fuel[w] THEN lastFuel[w] - fuel[w] ELSE 0) \in Nat
    <3>1. lastFuel[w] \in Int /\ fuel[w] \in Int
      BY <1>1, CpuShareAssumption DEF TypeOK
    <3> QED
      BY <1>4, <3>1 DEF Observe, Polled
  <2> QED
    BY <1>3, <1>4, <2>1, ListedRecord DEF Observe, schedVars, tableVars
<1>5. CASE Finish(w)
  <2>1. account' \subseteq account /\ account' \subseteq Workers /\ windowFuel' = windowFuel
    BY <1>1, <1>5 DEF Finish, schedVars
  <2>2. \A v \in account' : share'[v] = share[v] /\ used'[v] = used[v]
    BY <1>5, <2>1 DEF Finish, Keep
  <2>3. Total(used', account') = Total(used, account')
    BY <1>1, <2>1, <2>2, ColumnKept
  <2>4. Total(used, account') <= Total(used, account)
    BY <1>1, <2>1, ColumnLess
  <2>5. Total(used, account') \in Nat /\ Total(used, account) \in Nat /\ windowFuel \in Nat
    BY <1>1, <2>1, ColumnTotal, CpuShareAssumption DEF TypeOK
  <2> QED
    BY <2>1, <2>2, <2>3, <2>4, <2>5 DEF TableSound, Listed
<1>6. ASSUME NEW n \in 1..YieldInterval, Consume(w, n) PROVE Listed'
  BY <1>3, <1>6 DEF Consume, schedVars, tableVars
<1>7. ASSUME NEW amount, Replace(w, amount) PROVE Listed'
  BY <1>3, <1>7 DEF Replace, schedVars, tableVars
<1>8. ASSUME NEW amount, NEW n \in Weights, Begin(w, amount, n) PROVE Listed'
  BY <1>2, <1>8 DEF Begin, schedVars
<1>9. ASSUME NEW n \in Weights, SetWeight(w, n) PROVE Listed'
  BY <1>2, <1>9 DEF SetWeight, schedVars
<1> QED
  BY <1>4, <1>5, <1>6, <1>7, <1>8, <1>9 DEF Work, SetFuel, AddFuel

\* A new window starts from nothing.
LEMMA ListedSample ==
  ASSUME TableSound, Sample PROVE Listed'
<1>1. TypeOK /\ account \subseteq Workers
  BY DEF TableSound, Accounted, TypeOK
<1>2. /\ account' = account \ Expired /\ share' = Keep(share, account \ Expired)
      /\ used' = [w \in Workers |-> 0] /\ windowFuel' = 0
  BY DEF Sample, SampleWindow
<1>3. account' \subseteq Workers /\ \A v \in account' : share'[v] = share[v] /\ v \in account
  BY <1>1, <1>2 DEF Keep
<1>4. Total(used', account') <= 0
  <2>1. IsFiniteSet(account')
    BY <1>1, <1>3, ColumnTotal
  <2>2. \A v \in account' : used'[v] \in Nat /\ used'[v] * 1 <= 0 * used'[v]
    BY <1>2, <1>3
  <2>3. Total(used', account') \in Nat
    BY <2>1, <2>2, TotalType
  <2>4. Total(used', account') * 1 <= 0 * Total(used', account')
    <3>1. 0 \in Nat /\ 1 \in Nat
      OBVIOUS
    <3> QED
      BY <2>1, <2>2, <3>1, TotalRatio
  <2> QED
    BY <2>3, <2>4
<1> QED
  BY <1>2, <1>3, <1>4 DEF TableSound, Listed

\* Every step keeps the table.
LEMMA TableSoundStep == TableSound /\ [Next]_vars => TableSound'
<1> SUFFICES ASSUME TableSound, [Next]_vars PROVE TableSound'
  OBVIOUS
<1>1. Accounted'
  BY AccountedStep DEF TableSound
<1>2. CASE Tick \/ UNCHANGED vars
  BY <1>1, <1>2 DEF TableSound, Listed, Tick, vars, schedVars, tableVars
<1> QED
  BY <1>1, <1>2, ListedWork, ListedSample DEF Next, TableSound

\* The table's entries, as weighted_fair_allowance is given them.
LEMMA TableDemands ==
  ASSUME TableSound, capacity # -1
  PROVE  Demands(used, share, account, capacity)
<1>1. TypeOK /\ account \subseteq Workers /\ capacity \in Nat
  BY CpuShareAssumption DEF TableSound, Accounted, TypeOK
<1>2. IsFiniteSet(account) /\ \A w \in account : used[w] \in Nat
  BY <1>1, ColumnTotal
<1>3. \A w \in account : share[w] \in Nat \ {0}
  BY CpuShareAssumption DEF TableSound, Listed
<1> QED
  BY <1>1, <1>2, <1>3 DEF Demands

\* A hold that grows was set by record_fuel, for a worker that ended unsatisfied.
LEMMA HeldByExcess ==
  ASSUME TableSound, TableSound', [Next]_vars, NEW w \in Workers, throttle'[w] > throttle[w]
  PROVE  \E S \in Unsatisfied(used', share', account', capacity) :
           capacity # -1 /\ capacity' = capacity /\ Exceeds(w, used', share', account', capacity, S)
<1>1. /\ throttle \in [Workers -> 0..SampleInterval] /\ SampleInterval \in Nat
      /\ throttle[w] \in Nat /\ throttle' # throttle
  BY CpuShareAssumption DEF TableSound, Accounted, TypeOK
<1>2. ASSUME Tick PROVE FALSE
  BY <1>1, <1>2 DEF Tick
<1>3. ASSUME NEW v \in Workers, NEW amount, NEW n, Begin(v, amount, n) PROVE FALSE
  BY <1>1, <1>3 DEF Begin
<1>4. ASSUME NEW v \in Workers, NEW consumed, RecordFuel(v, consumed)
      PROVE  /\ capacity # -1
             /\ \E S \in Unsatisfied(used', share', account', capacity) :
                  Exceeds(w, used', share', account', capacity, S)
  <2>1. /\ capacity # -1
        /\ \E S \in Unsatisfied(used', share', account', capacity) :
             IF Exceeds(v, used', share', account', capacity, S) /\ HeldFor > throttle[v]
               THEN Hold(v) ELSE UNCHANGED <<throttle, heldVars>>
    BY <1>1, <1>4 DEF RecordFuel
  <2>2. PICK S \in Unsatisfied(used', share', account', capacity) :
             IF Exceeds(v, used', share', account', capacity, S) /\ HeldFor > throttle[v]
               THEN Hold(v) ELSE UNCHANGED <<throttle, heldVars>>
    BY <2>1
  <2>3. Exceeds(v, used', share', account', capacity, S) /\ throttle' = [throttle EXCEPT ![v] = HeldFor]
    BY <1>1, <2>2 DEF Hold
  <2>4. v = w
    BY <1>1, <2>3
  <2> QED
    BY <2>1, <2>3, <2>4
<1>5. \A v \in Workers : Observe(v) => capacity' = capacity
  BY DEF Observe, schedVars
<1> QED
  BY <1>1, <1>2, <1>3, <1>4, <1>5
     DEF Next, vars, Work, Sample, workerVars, Observe, Finish, Consume, SetFuel, AddFuel, Replace,
         SetWeight

-----------------------------------------------------------------------------

\* Fuel, ages, weights and holds stay in range: additions saturate, charges fit
\* the window, and the weight of an active entry is never the placeholder of a
\* worker that has not begun (record_fuel, apply_call_fuel, sample).
THEOREM SharesTyped == Spec => []TypeOK
<1>1. Accounted => TypeOK
  BY DEF Accounted
<1> QED
  BY <1>1, AccountedInit, AccountedStep, PTL DEF Spec

\* The difference that observe_fuel computes is exactly what the guest has used
\* since the last look, whatever refills, caps and executions came in between.
THEOREM OnlyUseIsCharged == Spec => []ChargedIsConsumed
<1>1. Accounted => ChargedIsConsumed
  BY DEF Accounted
<1> QED
  BY <1>1, AccountedInit, AccountedStep, PTL DEF Spec

\* Whatever order the hash map gives, weighted_fair_allowance ends with the one fair
\* split of the capacity: the loop never gets stuck, never hands out more than there
\* is, and no worker's allowance depends on the order.
THEOREM OneFairSplit == Spec => []SplitIsFair
<1>1. TableSound => SplitIsFair
  BY TableDemands, SplitFair DEF SplitIsFair
<1>2. Init => TableSound
  BY AccountedInit, ListedInit DEF TableSound
<1> QED
  BY <1>1, <1>2, TableSoundStep, PTL DEF Spec

\* The entries never claim more fuel than the window they share has burnt, and what a
\* worker used in a window holds it in a later one only for as long as the sampler was
\* late when the earlier one began (record_fuel, throttle_deadline, finish_worker,
\* sample).
THEOREM WindowsStayApart == Spec => []WindowsKeptApart
<1>1. TableSound => WindowsKeptApart
  BY DEF TableSound, Accounted, Listed, HeldWithinWindow, WindowsKeptApart
<1>2. Init => TableSound
  BY AccountedInit, ListedInit DEF TableSound
<1> QED
  BY <1>1, <1>2, TableSoundStep, PTL DEF Spec

\* A worker is held back only for more than its weight's part of the whole capacity,
\* and only when all together have used more than there is (record_fuel).
THEOREM HeldForExcessOnly == Spec => OnlyExcessIsHeld
<1> DEFINE Just == \A w \in Workers : throttle'[w] > throttle[w] =>
                     /\ used'[w] * Total(share', account') > capacity * share'[w]
                     /\ Total(used', account') > capacity
<1>1. TableSound /\ TableSound' /\ [Next]_vars => [Just]_vars
  <2> SUFFICES ASSUME TableSound, TableSound', [Next]_vars, NEW w \in Workers, throttle'[w] > throttle[w]
               PROVE  /\ used'[w] * Total(share', account') > capacity * share'[w]
                      /\ Total(used', account') > capacity
    OBVIOUS
  <2>1. PICK S \in Unsatisfied(used', share', account', capacity) :
          capacity # -1 /\ capacity' = capacity /\ Exceeds(w, used', share', account', capacity, S)
    BY HeldByExcess
  <2>2. Demands(used', share', account', capacity)
    <3>1. (capacity # -1)' => Demands(used, share, account, capacity)'
      BY TableDemands, PTL
    <3> QED
      BY <2>1, <3>1
  <2>3. S \in SUBSET account' /\ FairSplit(used', share', account', capacity, S)
    BY <2>2, SplitFair
  <2>4. w \in S
    BY <2>1 DEF Exceeds
  <2> QED
    BY <2>2, <2>3, <2>4, ExcessOverAll
<1>2. Init => TableSound
  BY AccountedInit, ListedInit DEF TableSound
<1> QED
  BY <1>1, <1>2, TableSoundStep, PTL DEF Spec, OnlyExcessIsHeld
=============================================================================
