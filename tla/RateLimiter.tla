----------------------------- MODULE RateLimiter -----------------------------
(***************************************************************************)
(* RateTracker and RateEnforcer of Networking/src/rate_limiter.cpp.        *)
(* Every session has an enforcer; all those of a tracker share its largest *)
(* byte rate.  An enforcer caches its index into true_rates as its id,     *)
(* reports the rate it would like to send at there, and gets back its      *)
(* share of what is allowed.                                               *)
(*                                                                         *)
(* Updates hold shared_mutex shared, so several store and sum at once, one *)
(* rate at a time; registering and unregistering hold it alone.  An        *)
(* enforcer belongs to a session, whose strand calls it one call at a time *)
(* and which destroys it last.  Rates that are a size_t in the code are    *)
(* integers, and the moving average of the hypothetical rate is an input.  *)
(* The rates of sends and their average are in 1/Precision, and compared   *)
(* exactly; the average that is kept is rounded up, so that like a double  *)
(* it never comes down to 0.  All enforcers are limitable.  The names here *)
(* are not the sessions', so that a module may extend both.                *)
(***************************************************************************)
EXTENDS Integers, FiniteSets, SequencesExt

CONSTANTS
  Enforcers,
  Rates,        \* moving averages of the rate a session would like to send at
  SendRates,    \* rates of single sends, in 1/Precision; 0 is that of an empty message
  MaxRates,     \* values of max_byterate
  Alpha, Trigger, Unit,  \* alpha is Alpha/Unit, rate_recalculation_trigger Trigger/Unit
  Unlimited,    \* what a NaN becomes as a size_t, unless it becomes 0
  MaxEnforcers  \* bound: enforcers made

ASSUME RateAssumption ==
  /\ Rates \subseteq Nat /\ SendRates \subseteq Nat /\ MaxRates \subseteq Nat
  /\ Unit \in Nat \ {0} /\ Alpha \in 1 .. Unit /\ Trigger \in Nat
  /\ Unlimited \in Nat
  /\ MaxEnforcers \in Nat

VARIABLES
  true_rates,    \* the tracker's vector of reported rates
  max_byterate,
  id,            \* id[e], 0-based
  live,          \* enforcers of this tracker
  pc, total, pos, \* update_and_get_allowable: where e is, its sum, the rates in it
  unlimited_rate, allowed_rate, actual_rate,
  made,          \* enforcers made so far
  disturbed,     \* history: one other than the last registered has unregistered
  upToDate       \* history: enforcers whose latest update began after the last change

trackerVars == <<true_rates, max_byterate>>
updateVars == <<pc, total, pos>>
rateVars == <<unlimited_rate, allowed_rate, actual_rate>>
limiterVars == <<trackerVars, id, live, updateVars, rateVars, made, disturbed, upToDate>>

RateInit ==
  /\ true_rates = <<>> /\ max_byterate \in MaxRates
  /\ id = [e \in Enforcers |-> 0]
  /\ live = {}
  /\ pc = [e \in Enforcers |-> "idle"]
  /\ total = [e \in Enforcers |-> 0] /\ pos = [e \in Enforcers |-> 0]
  /\ unlimited_rate = [e \in Enforcers |-> 0]
  /\ allowed_rate = [e \in Enforcers |-> 0]
  /\ actual_rate = [e \in Enforcers |-> 0]
  /\ made = 0
  /\ disturbed = FALSE /\ upToDate = {}

\* shared_mutex can be taken alone: nobody holds it shared.
Exclusive == \A e \in Enforcers : pc[e] /= "add"

Idle(e) == e \in live /\ pc[e] = "idle"

-----------------------------------------------------------------------------
(* Registration *)

\* Mutant: the id is taken after the vector has grown.
MakeEnforcerLate(e) ==
  /\ Exclusive /\ e \notin live /\ made < MaxEnforcers
  /\ id' = [id EXCEPT ![e] = Len(true_rates) + 1]
  /\ true_rates' = Append(true_rates, 0)
  /\ live' = live \cup {e}
  /\ unlimited_rate' = [unlimited_rate EXCEPT ![e] = 0]
  /\ made' = made + 1
  /\ upToDate' = {}
  /\ UNCHANGED <<max_byterate, updateVars, allowed_rate, actual_rate, disturbed>>

MakeEnforcer(e) ==
  /\ Exclusive /\ e \notin live /\ made < MaxEnforcers
  /\ id' = [id EXCEPT ![e] = Len(true_rates)]
  /\ true_rates' = Append(true_rates, 0)
  /\ live' = live \cup {e}
  /\ unlimited_rate' = [unlimited_rate EXCEPT ![e] = 0]
  /\ allowed_rate' = [allowed_rate EXCEPT ![e] = 0]
  /\ actual_rate' = [actual_rate EXCEPT ![e] = 0]
  /\ made' = made + 1
  /\ upToDate' = {}
  /\ UNCHANGED <<max_byterate, updateVars, disturbed>>

\* The last rate takes the place of rate i, and with it the id of the enforcer
\* that goes; the one it belongs to is not told.
SwapAndPop(i) ==
  Front([true_rates EXCEPT ![i + 1] = true_rates[Len(true_rates)]])

Unregister(e) ==
  /\ Exclusive /\ Idle(e)
  /\ true_rates' = IF id[e] < Len(true_rates) THEN SwapAndPop(id[e]) ELSE true_rates
  /\ live' = live \ {e}
  /\ disturbed' = (disturbed \/ id[e] /= Len(true_rates) - 1)
  /\ upToDate' = {}
  /\ UNCHANGED <<max_byterate, id, updateVars, rateVars, made>>

SetMaxByterate(m) ==
  /\ m /= max_byterate
  /\ max_byterate' = m
  /\ upToDate' = {}
  /\ UNCHANGED <<true_rates, id, live, updateVars, rateVars, made, disturbed>>

-----------------------------------------------------------------------------
(* update_hypothetical_rate, update_and_get_allowable *)

\* The shared lock is taken and the rate stored, if the id is in range.
StoreRate(e, r) ==
  /\ Idle(e)
  /\ unlimited_rate' = [unlimited_rate EXCEPT ![e] = r]
  /\ true_rates' = IF id[e] < Len(true_rates)
                   THEN [true_rates EXCEPT ![id[e] + 1] = r] ELSE true_rates
  /\ total' = [total EXCEPT ![e] = 0]
  /\ pos' = [pos EXCEPT ![e] = 0]
  /\ pc' = [pc EXCEPT ![e] = "add"]
  /\ upToDate' = IF true_rates' = true_rates THEN upToDate \cup {e} ELSE {e}
  /\ UNCHANGED <<max_byterate, id, live, allowed_rate, actual_rate, made, disturbed>>

\* Rates are added one by one; others store theirs meanwhile.
AddRate(e) ==
  /\ pc[e] = "add" /\ pos[e] < Len(true_rates)
  /\ total' = [total EXCEPT ![e] = @ + true_rates[pos[e] + 1]]
  /\ pos' = [pos EXCEPT ![e] = @ + 1]
  /\ UNCHANGED <<trackerVars, id, live, pc, rateVars, made, disturbed, upToDate>>

Unlock(e) ==
  /\ pc[e] = "add" /\ pos[e] = Len(true_rates)
  /\ pc' = [pc EXCEPT ![e] = "share"]
  /\ UNCHANGED <<trackerVars, id, live, total, pos, rateVars, made, disturbed, upToDate>>

\* Mutant: the whole of the largest rate for everyone.
ShareWhole(r, sum) == {Min({r, max_byterate})}

\* (new_rate / total) * min(total, max_byterate) in doubles, cut to a size_t: a
\* product that should be exact may come out just below.  Nothing reported yet
\* makes it a NaN, whose conversion is undefined.
Share(r, sum) ==
  IF sum = 0 THEN {0, Unlimited}
  ELSE LET exact == r * Min({sum, max_byterate})
           whole == exact \div sum
       IN  {whole} \cup (IF whole > 0 /\ whole * sum = exact THEN {whole - 1} ELSE {})

SetAllowed(e) ==
  /\ pc[e] = "share"
  /\ \E a \in Share(unlimited_rate[e], total[e]) :
       allowed_rate' = [allowed_rate EXCEPT ![e] = a]
  /\ pc' = [pc EXCEPT ![e] = "idle"]
  /\ total' = [total EXCEPT ![e] = 0]
  /\ pos' = [pos EXCEPT ![e] = 0]
  /\ UNCHANGED <<trackerVars, id, live, unlimited_rate, actual_rate, made,
                 disturbed, upToDate>>

-----------------------------------------------------------------------------
(* should_send *)

\* Mutant: the average is never restarted.
KeptRate(e) == actual_rate[e]

\* Fine enough for one part of Precision to make no difference to a share.
Precision == Unit * Unit

\* The moving average so far, or 0 when the allowed rate has dropped below it.
RestartedRate(e) ==
  IF actual_rate[e] * Unit > allowed_rate[e] * Precision * Trigger THEN 0
  ELSE actual_rate[e]

\* Unit times the average with one more send at rate r.
Weighted(e, r) == RestartedRate(e) * (Unit - Alpha) + r * Alpha

Averaged(e, r) == (Weighted(e, r) + Unit - 1) \div Unit

MaySend(e, r) == Weighted(e, r) <= allowed_rate[e] * Precision * Unit

\* A send that is refused still restarts the average.
ShouldSend(e, r) ==
  /\ Idle(e)
  /\ actual_rate' = [actual_rate EXCEPT ![e] =
                       IF MaySend(e, r) THEN Averaged(e, r) ELSE RestartedRate(e)]
  /\ UNCHANGED <<trackerVars, id, live, updateVars, unlimited_rate, allowed_rate,
                 made, disturbed, upToDate>>

-----------------------------------------------------------------------------

RateNext ==
  \/ \E m \in MaxRates : SetMaxByterate(m)
  \/ \E e \in Enforcers :
       \/ MakeEnforcer(e) \/ Unregister(e) \/ AddRate(e) \/ Unlock(e) \/ SetAllowed(e)
       \/ \E r \in Rates : StoreRate(e, r)
       \/ \E r \in SendRates : ShouldSend(e, r)

RateSpec == RateInit /\ [][RateNext]_limiterVars

-----------------------------------------------------------------------------
(* Properties *)

\* Until an enforcer other than the last registered goes, ids are the enforcers'
\* own places in true_rates and nothing else is there.  Afterwards (Unregister
\* swaps and pops without telling) ids may be shared or out of range, but the
\* vector still has a place for every live enforcer: it leaks, never runs short.
IdsValid ==
  /\ Len(true_rates) >= Cardinality(live)
  /\ ~disturbed =>
       /\ Len(true_rates) = Cardinality(live)
       /\ \A e \in live : id[e] < Len(true_rates) /\ true_rates[id[e] + 1] = unlimited_rate[e]
       /\ \A e, f \in live : e /= f => id[e] /= id[f]

\* Every live enforcer has asked for its share since the rates last changed.
Settled == ~disturbed /\ live \subseteq upToDate /\ \A e \in live : Idle(e)

\* The sum of a sequence: Sums(s)[n] is that of its first n elements.
Sums(s) == LET t[i \in 0 .. Len(s)] == IF i = 0 THEN 0 ELSE t[i - 1] + s[i] IN t
Sum(s) == Sums(s)[Len(s)]

\* The shares of the live enforcers, in the order of their ids.
Shares ==
  [i \in DOMAIN true_rates |-> allowed_rate[CHOOSE e \in live : id[e] = i - 1]]

\* Then the shares, computed while others store and sum, together respect
\* max_byterate, unless nobody has reported anything (SetAllowed divides 0 by 0).
SharesWithinMax ==
  Settled /\ (\E e \in live : unlimited_rate[e] > 0) => Sum(Shares) <= max_byterate

\* The rate of a message with bytes in it after a very long silence, which is small
\* but never 0.
Slowest == 1

\* After a long enough silence should_send says yes, however far the share has
\* dropped below the actual rate, because the average restarts before it is too
\* high to decay in one send; and it says so to exactly the sessions whose share is
\* not 0.  One whose share was cut to 0 bytes is shut up for as long as it stays so.
SilenceIsEnough == \A e \in live : MaySend(e, Slowest) <=> allowed_rate[e] > 0
=============================================================================
