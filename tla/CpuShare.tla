------------------------------ MODULE CpuShare ------------------------------
(***************************************************************************)
(* CPU sharing (cpu_share.rs) and the fuel it counts.  Worker threads      *)
(* report the fuel their guests have used at epoch checks; a sampler task  *)
(* closes a window every sample interval and estimates how much fuel the   *)
(* process can burn in the next one; a worker that has used more than its  *)
(* weighted max-min share is not polled until the end of the window.       *)
(*                                                                         *)
(* Instants are kept as distances from now, so time needs no horizon.      *)
(* Rates are floats in the code; here a sample picks any capacity of the   *)
(* window, and shares are compared by cross-multiplication.                *)
(***************************************************************************)
EXTENDS Integers, FiniteSets, Functions

CONSTANTS
  Workers,
  Weights,          \* cpu_share_weight values (execution_limits refuses 0)
  Capacities,       \* fuel the process can burn in a window, as estimated
  YieldInterval,    \* fuel_yield_interval
  SampleInterval,   \* sample_interval
  ActivityTimeout,  \* activity_timeout
  MaxFuel,          \* u64::MAX, the largest fuel a store holds
  Amounts, Caps,    \* what AddFuel and SetFuel may carry
  MaxLate,          \* bound: how late the sampler runs
  MaxWindow         \* bound: fuel observed in one window

NoCap == 2 * MaxFuel   \* cap: None, above every sum

ASSUME CpuShareAssumption ==
  /\ IsFiniteSet(Workers)
  /\ Weights \subseteq Nat \ {0} /\ Capacities \subseteq Nat
  /\ YieldInterval \in Nat \ {0} /\ SampleInterval \in Nat \ {0}
  /\ ActivityTimeout \in Nat /\ MaxFuel \in Nat
  /\ Amounts \subseteq 0..MaxFuel /\ Caps \subseteq 0..MaxFuel
  /\ MaxLate \in Nat /\ MaxWindow \in Nat

VARIABLES
  untilSample,   \* until the sampler's next tick; negative when it is late
  windowAge,     \* now - window_started
  windowFuel,    \* CpuShareState.window_fuel
  capacity,      \* of a window, -1 before the first estimate
  account,       \* CpuShareState.workers: the entries
  age,           \* ... now - last_active of each entry
  used,          \* ... window_fuel
  share,         \* ... weight
  weight,        \* CpuShareWorker.weight
  lastFuel,      \* CpuShareWorker.last_fuel, -1 for None
  throttle,      \* throttle_until - now, 0 for None or a past instant
  running,       \* executions under way
  fuel,          \* fuel left in the store
  owed,          \* history: fuel used since it was last observed or replaced
  exceeded,      \* history: workers held for what they used in this window
  spill          \* history: how late the window began a worker is held from, 0 if it is not held

schedVars  == <<untilSample, windowAge, windowFuel, capacity>>
tableVars  == <<account, age, used, share>>
workerVars == <<weight, lastFuel, throttle, running, fuel, owed>>
heldVars   == <<exceeded, spill>>
vars == <<schedVars, tableVars, workerVars, heldVars>>

TypeOK ==
  /\ untilSample \in -MaxLate..SampleInterval
  /\ windowAge \in 0..(SampleInterval + MaxLate)
  /\ windowFuel \in 0..MaxWindow /\ capacity \in Capacities \cup {-1}
  /\ account \subseteq Workers
  /\ age \in [Workers -> 0..(ActivityTimeout + 1)]
  /\ used \in [Workers -> 0..MaxWindow]
  /\ share \in [Workers -> Weights \cup {0}]
  /\ weight \in [Workers -> Weights \cup {1}]
  /\ lastFuel \in [Workers -> -1..MaxFuel]
  /\ throttle \in [Workers -> 0..SampleInterval]
  /\ running \subseteq Workers
  /\ fuel \in [Workers -> 0..MaxFuel] /\ owed \in [Workers -> 0..MaxFuel]
  /\ exceeded \subseteq Workers /\ spill \in [Workers -> 0..MaxLate]

Init ==
  /\ untilSample = SampleInterval /\ windowAge = 0 /\ windowFuel = 0 /\ capacity = -1
  /\ account = {} /\ age = [w \in Workers |-> 0]
  /\ used = [w \in Workers |-> 0] /\ share = [w \in Workers |-> 0]
  /\ weight = [w \in Workers |-> 1]
  /\ lastFuel = [w \in Workers |-> -1] /\ throttle = [w \in Workers |-> 0]
  /\ running = {} /\ fuel = [w \in Workers |-> 0] /\ owed = [w \in Workers |-> 0]
  /\ exceeded = {} /\ spill = [w \in Workers |-> 0]

-----------------------------------------------------------------------------
(* weighted_fair_allowance.  The loop removes one satisfied worker after     *)
(* another; which one comes first depends on the order of a hash map.        *)

Total(f, S) == SumFunctionOnSet(f, S)

\* `position`: demand <= remaining_capacity * weight / remaining_weight.
Satisfied(demand, weights, S, c) ==
  {w \in S : demand[w] * Total(weights, S) <= c * weights[w]}

\* Mutant of Remaining: what removed workers use is not taken off.
RemainingUntouched(demand, removed, c) == c

\* remaining_capacity once `removed` were satisfied.
Remaining(demand, removed, c) ==
  LET rest == c - Total(demand, removed) IN IF rest < 0 THEN 0 ELSE rest

\* The sets of workers the loop may end with, over all orders.
Unsatisfied(demand, weights, active, c) ==
  LET loop[S \in SUBSET active] ==
        LET satisfied == Satisfied(demand, weights, S, Remaining(demand, active \ S, c))
        IN IF satisfied = {} THEN {S}
           ELSE UNION {loop[S \ {w}] : w \in satisfied}
  IN loop[active]

\* Mutant of Exceeds: unused shares are not redistributed.
ExceedsOwnShare(w, demand, weights, active, c, S) ==
  (demand[w] - YieldInterval) * Total(weights, active) > c * weights[w]

\* worker_fuel > allowance + fuel_yield_interval, for a loop that ended with S.  A
\* worker outside S is allowed all it used.
Exceeds(w, demand, weights, active, c, S) ==
  /\ w \in S
  /\ (demand[w] - YieldInterval) * Total(weights, S)
       > Remaining(demand, active \ S, c) * weights[w]

-----------------------------------------------------------------------------
(* The shared table. *)

Expired == {w \in account : age[w] > ActivityTimeout}
Keep(f, S) == [w \in Workers |-> IF w \in S THEN f[w] ELSE 0]

\* Mutant of HeldFor: a full interval from now on.
HeldForInterval == SampleInterval

\* window_started + sample_interval.
HeldFor == IF windowAge < SampleInterval THEN SampleInterval - windowAge ELSE 0

\* How late the sampler was when the window began: by as much the next window may
\* begin before window_started + sample_interval.
BegunLate == SampleInterval - (windowAge + untilSample)

\* throttle_until, for a worker that has exceeded its allowance in this window.
Hold(w) ==
  /\ throttle' = [throttle EXCEPT ![w] = HeldFor]
  /\ exceeded' = exceeded \cup {w} /\ spill' = [spill EXCEPT ![w] = BegunLate]

\* record_fuel: drop inactive entries, its own too, charge the worker, compare it with
\* its allowance once there is an estimate.
RecordFuel(w, consumed) ==
  LET kept == account \ Expired
      active == kept \cup {w}
      charged == [Keep(used, kept) EXCEPT ![w] = @ + consumed]
      weights == [Keep(share, kept) EXCEPT ![w] = weight[w]]
  IN /\ windowFuel + consumed <= MaxWindow
     /\ account' = active /\ used' = charged /\ share' = weights
     /\ age' = [Keep(age, kept) EXCEPT ![w] = 0]
     /\ windowFuel' = windowFuel + consumed
     /\ \/ capacity = -1 /\ UNCHANGED <<throttle, heldVars>>
        \/ /\ capacity # -1
           /\ \E S \in Unsatisfied(charged, weights, active, capacity) :
                IF Exceeds(w, charged, weights, active, capacity, S) /\ HeldFor > throttle[w]
                  THEN Hold(w) ELSE UNCHANGED <<throttle, heldVars>>

\* CpuShareWorker::set_weight: the atomic and, if there is one, the entry.
SetShare(w, n) ==
  /\ weight' = [weight EXCEPT ![w] = n]
  /\ share' = IF w \in account THEN [share EXCEPT ![w] = n] ELSE share

\* sample, the table: a new window starts, inactive entries go.
SampleWindow ==
  /\ windowFuel' = 0 /\ windowAge' = 0
  /\ account' = account \ Expired
  /\ age' = Keep(age, account \ Expired) /\ share' = Keep(share, account \ Expired)
  /\ used' = [w \in Workers |-> 0]

\* sample, at a tick of an interval that catches up after a late one.  A window
\* without fuel or time, or measured as idle, yields no first estimate.
Sample ==
  /\ untilSample <= 0
  /\ untilSample' = untilSample + SampleInterval
  /\ capacity' \in IF capacity # -1 THEN Capacities
                   ELSE IF windowAge = 0 \/ windowFuel = 0 THEN {-1}
                   ELSE Capacities \cup {-1}
  /\ SampleWindow
  /\ exceeded' = {}
  /\ UNCHANGED <<workerVars, spill>>

-----------------------------------------------------------------------------
(* A worker. *)

\* apply_limits: set_fuel, CpuShareWorker::begin.
Begin(w, amount, n) ==
  /\ w \notin running
  /\ running' = running \cup {w}
  /\ fuel' = [fuel EXCEPT ![w] = amount]
  /\ SetShare(w, n)
  /\ lastFuel' = [lastFuel EXCEPT ![w] = amount] /\ throttle' = [throttle EXCEPT ![w] = 0]
  /\ exceeded' = exceeded \ {w} /\ spill' = [spill EXCEPT ![w] = 0]
  /\ owed' = [owed EXCEPT ![w] = 0]
  /\ UNCHANGED <<schedVars, account, age, used>>

\* CpuSharedFuture::poll passes the inner future on only outside a throttle.
Polled(w) == w \in running /\ throttle[w] = 0

\* Guest code runs, at most a yield interval at a time.
Consume(w, n) ==
  /\ Polled(w) /\ n <= fuel[w] /\ n <= YieldInterval
  /\ fuel' = [fuel EXCEPT ![w] = @ - n]
  /\ owed' = [owed EXCEPT ![w] = @ + n]
  /\ UNCHANGED <<schedVars, tableVars, heldVars, weight, lastFuel, throttle, running>>

\* The epoch callback: observe_fuel.
Observe(w) ==
  /\ Polled(w)
  /\ LET consumed == IF lastFuel[w] > fuel[w] THEN lastFuel[w] - fuel[w] ELSE 0
     IN IF consumed = 0 THEN UNCHANGED <<schedVars, tableVars, throttle, heldVars>>
        ELSE RecordFuel(w, consumed) /\ UNCHANGED <<untilSample, windowAge, capacity>>
  /\ lastFuel' = [lastFuel EXCEPT ![w] = fuel[w]]
  /\ owed' = [owed EXCEPT ![w] = 0]
  /\ UNCHANGED <<weight, running, fuel>>

\* Mutant of ResetFuel: the refill is not told to the account.
ResetFuelNever(w, amount) == UNCHANGED lastFuel

ResetFuel(w, amount) == lastFuel' = [lastFuel EXCEPT ![w] = amount]

Replace(w, amount) ==
  /\ w \in running
  /\ fuel' = [fuel EXCEPT ![w] = amount]
  /\ ResetFuel(w, amount)
  /\ owed' = [owed EXCEPT ![w] = 0]
  /\ UNCHANGED <<schedVars, tableVars, heldVars, weight, throttle, running>>

\* FuelOperation::Set, with a worker call or a control update.
SetFuel(w, amount) == Replace(w, amount)

Smaller(a, b) == IF a < b THEN a ELSE b

\* Mutant of Added: the sum is capped only if the caller gave a cap.
AddedUnsaturated(left, amount, cap) == Smaller(left + amount, cap)

\* saturating_add, then the cap, which may also take fuel away.
Added(left, amount, cap) == Smaller(Smaller(left + amount, MaxFuel), cap)

\* FuelOperation::Add.
AddFuel(w, amount, cap) == Replace(w, Added(fuel[w], amount, cap))

\* PendingStoreUpdate::SetCpuShareWeight.
SetWeight(w, n) ==
  /\ w \in running
  /\ SetShare(w, n)
  /\ UNCHANGED <<schedVars, heldVars, account, age, used, lastFuel, throttle, running, fuel, owed>>

\* CpuShareWorker::finish.  The window's total keeps what the worker used.
Finish(w) ==
  /\ w \in running
  /\ running' = running \ {w}
  /\ account' = account \ {w}
  /\ age' = Keep(age, account') /\ used' = Keep(used, account') /\ share' = Keep(share, account')
  /\ lastFuel' = [lastFuel EXCEPT ![w] = -1]
  /\ fuel' = [fuel EXCEPT ![w] = 0] /\ owed' = [owed EXCEPT ![w] = 0]
  /\ UNCHANGED <<schedVars, heldVars, weight, throttle>>

\* A unit of time passes.
Tick ==
  /\ untilSample > -MaxLate
  /\ untilSample' = untilSample - 1 /\ windowAge' = windowAge + 1
  /\ age' = [w \in Workers |-> IF w \in account THEN Smaller(age[w] + 1, ActivityTimeout + 1) ELSE 0]
  /\ throttle' = [w \in Workers |-> IF throttle[w] > 0 THEN throttle[w] - 1 ELSE 0]
  /\ exceeded' = {w \in exceeded : throttle[w] > 1}
  /\ spill' = [w \in Workers |-> IF throttle[w] > 1 THEN spill[w] ELSE 0]
  /\ UNCHANGED <<windowFuel, capacity, account, used, share, weight, lastFuel, running, fuel, owed>>

Work(w) ==
  \/ Observe(w) \/ Finish(w)
  \/ \E n \in 1..YieldInterval : Consume(w, n)
  \/ \E amount \in Amounts :
       \/ SetFuel(w, amount)
       \/ \E cap \in Caps \cup {NoCap} : AddFuel(w, amount, cap)
       \/ \E n \in Weights : Begin(w, amount, n)
  \/ \E n \in Weights : SetWeight(w, n)

Next == Tick \/ Sample \/ \E w \in Workers : Work(w)

Spec == Init /\ [][Next]_vars

-----------------------------------------------------------------------------
(* Properties. *)

\* What observe_fuel will charge is what the guest has used: a refill, a cap or
\* a new execution in between is never taken for consumption.
ChargedIsConsumed ==
  \A w \in Workers : w \in running => lastFuel[w] = fuel[w] + owed[w]

\* S is the max-min fair split: with the others served in full, each of S wants
\* more than its weight's part of what is left, and nobody else does.
FairSplit(demand, weights, active, c, S) ==
  LET rest == c - Total(demand, active \ S)
  IN /\ rest >= 0
     /\ \A w \in active : w \in S <=> S # {} /\ demand[w] * Total(weights, S) > rest * weights[w]

\* Whatever order the hash map gives, weighted_fair_allowance ends with the one
\* fair split: no order favours a worker, hands out more than there is, or cuts a
\* worker off from capacity others leave unused.
SplitIsFair ==
  capacity # -1 =>
    \E S \in SUBSET account :
      /\ FairSplit(used, share, account, capacity, S)
      /\ Unsatisfied(used, share, account, capacity) = {S}

\* A worker is held back only when it has used more than its weight's part of the
\* whole capacity, and when the active workers together have used more than there
\* is.
OnlyExcessIsHeld ==
  [][\A w \in Workers : throttle'[w] > throttle[w] =>
       /\ used'[w] * Total(share', account') > capacity * share'[w]
       /\ Total(used', account') > capacity]_vars

\* Windows are kept apart, also when the sampler runs late and catches up with windows
\* shorter than the interval: the entries never claim more fuel than the window has
\* burnt, a worker is held for what it used in a window until an interval after the
\* window began, and so into a later window (of which it has used nothing) only for
\* as long as the sampler was late when the earlier one began, and not at all when
\* that one began on time.
WindowsKeptApart ==
  /\ Total(used, account) <= windowFuel
  /\ \A w \in Workers : throttle[w] > 0 =>
       throttle[w] + windowAge <= IF w \in exceeded THEN SampleInterval ELSE spill[w]
=============================================================================
