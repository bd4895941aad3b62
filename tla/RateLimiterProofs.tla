------------------------- MODULE RateLimiterProofs -------------------------
(* Proofs about RateLimiter for any limit, window and grain of time.         *)
EXTENDS RateLimiter, TLAPS

(* What integer division gives.                                              *)
LEMMA Division ==
  ASSUME NEW a \in Nat, NEW b \in Nat \ {0}
  PROVE  /\ a \div b \in Nat
         /\ b * (a \div b) <= a
         /\ a < b * (a \div b) + b
  OBVIOUS

(* The lengths of time, and how far rounding goes.                           *)
LEMMA Lengths ==
  /\ Window \in Nat \ {0} /\ Half \in Nat /\ Longest \in Nat /\ Longest >= Window
  /\ Second < 2 * Half + 2
  /\ 2 * Half <= Second
<1>1. Half \in Nat /\ 2 * Half <= Second /\ Second < 2 * Half + 2
  BY RateAssumption, Division DEF Half
<1>2. Window \in Nat \ {0}
  BY RateAssumption DEF Window
<1> QED BY <1>1, <1>2 DEF Longest

(* TTL rounds to the nearest second. *)
LEMMA TtlRounds ==
  ASSUME Expiry \in 0..Window
  PROVE  /\ Ttl \in 0..WindowSeconds
         /\ Expiry <= Ttl * Second + Half
<1> DEFINE D == 2 * Second
           A == 2 * Expiry + Second
<1>1. A \in Nat /\ D \in Nat \ {0} /\ Ttl = A \div D
  BY RateAssumption, Lengths DEF Ttl
<1>2. Ttl \in Nat /\ D * Ttl <= A /\ A < D * Ttl + D
  BY <1>1, Division
<1> DEFINE P == Ttl * Second
<1>3. P \in Nat /\ D * Ttl = 2 * P
  BY <1>2, RateAssumption
<1>4. Expiry <= P + Half
  <2>1. 2 * Expiry + Second < 2 * P + 2 * Second
    BY <1>2, <1>3
  <2> HIDE DEF P
  <2> QED BY <2>1, <1>3, RateAssumption, Lengths
<1>5. Ttl <= WindowSeconds
  <2>1. SUFFICES ASSUME Ttl >= WindowSeconds + 1 PROVE FALSE
    BY <1>2, RateAssumption
  <2>2. P >= Window + Second
    <3>1. PICK e \in Nat : Ttl = WindowSeconds + 1 + e
      <4>1. Ttl - WindowSeconds - 1 \in Nat
        BY <1>2, <2>1, RateAssumption
      <4> QED BY <4>1, <1>2, RateAssumption
    <3>2. P = WindowSeconds * Second + Second + e * Second /\ e * Second \in Nat
      BY <3>1, RateAssumption
    <3> QED BY <3>2, RateAssumption DEF Window
  <2>3. 2 * P <= 2 * Expiry + Second
    BY <1>2, <1>3
  <2> HIDE DEF P
  <2> QED BY <2>2, <2>3, <1>3, RateAssumption, Lengths
<1> QED BY <1>2, <1>4, <1>5, RateAssumption

(* What a refused client is told is a legal Retry-After and covers the time. *)
LEMMA ToldCovers ==
  ASSUME Expiry \in 0..Window
  PROVE  /\ RetryAfter \in 1..WindowSeconds
         /\ Told \in 0..Longest
         /\ Expiry <= Told
<1>1. RetryAfter \in 1..WindowSeconds /\ RetryAfter >= Ttl /\ Ttl \in Nat
  BY TtlRounds, RateAssumption DEF RetryAfter
<1>2. \A m, n \in Nat : m <= n => m * Second \in Nat /\ m * Second <= n * Second
  <2> TAKE m, n \in Nat
  <2> HAVE m <= n
  <2>1. PICK e \in Nat : n = m + e
    <3>1. n - m \in Nat
      OBVIOUS
    <3> QED BY <3>1
  <2>2. n * Second = m * Second + e * Second /\ m * Second \in Nat /\ e * Second \in Nat
    BY <2>1, RateAssumption
  <2> QED BY <2>2
<1>3. /\ Ttl * Second <= RetryAfter * Second
      /\ RetryAfter * Second <= WindowSeconds * Second
      /\ RetryAfter * Second \in Nat /\ Ttl * Second \in Nat
      /\ WindowSeconds * Second \in Nat
  BY <1>1, <1>2, RateAssumption
<1> QED BY <1>1, <1>3, TtlRounds, Lengths DEF Told, Longest, Window

(* The indices of the histories.                                             *)
LEMMA LatestFacts ==
  /\ 2 * Limit + 1 \in Latest /\ 2 * Limit \in Latest /\ 1 \in Latest
  /\ Latest \subseteq Nat \ {0}
  /\ \A k \in Latest \ {1} : k - 1 \in Latest
  /\ LatestCalls \subseteq Nat \ {0}
  /\ \A k \in LatestCalls \ {1} : k - 1 \in LatestCalls
  BY RateAssumption DEF Latest, LatestCalls

(* The invariant holds at the start.                                         *)
LEMMA InitSound == Init => InductiveInvariant
<1> SUFFICES ASSUME Init PROVE InductiveInvariant
  OBVIOUS
<1>1. TypeOK
  BY RateAssumption, Lengths DEF Init, TypeOK, NoTtl
<1>2. AtMostTwiceTheLimit /\ WaitingIsEnough /\ EarlierAreOlder
  BY Lengths, LatestFacts DEF Init, AtMostTwiceTheLimit, WaitingIsEnough, EarlierAreOlder
<1>3. CountedAreRecent /\ PromisesStartOver
  BY DEF Init, CountedAreRecent, PromisesStartOver
<1> QED BY <1>1, <1>2, <1>3 DEF InductiveInvariant

(* What the script leaves behind.                                            *)
LEMMA ScriptLeaves ==
  ASSUME InductiveInvariant
  PROVE  /\ Expiry \in 1..Window
         /\ Expiry <= promised
         /\ Expiry = left \/ Expiry = Window
         /\ Counted \in 1..(Limit + 1) /\ Counted >= count
         /\ left = 0 => Expiry = Window
         /\ WithinQuota => Counted = count + 1 /\ count < Limit
<1>1. /\ count \in 0..(Limit + 1) /\ left \in NoTtl..Window /\ promised \in 0..Longest
      /\ (left = 0 <=> count = 0) /\ left <= promised
      /\ (left <= 0 => promised = Longest)
  BY DEF InductiveInvariant, TypeOK, EarlierAreOlder, WaitingIsEnough, PromisesStartOver
<1>2. /\ Counted \in 1..(Limit + 1) /\ Counted >= count
      /\ (Counted = 1 <=> count = 0)
      /\ (Counted <= Limit => Counted = count + 1 /\ count < Limit)
  BY <1>1, RateAssumption DEF Counted
<1>3. CASE left \in {0, NoTtl}
  BY <1>1, <1>2, <1>3, Lengths DEF Expiry, NoTtl, WithinQuota
<1>4. CASE left \notin {0, NoTtl}
  BY <1>1, <1>2, <1>4, Lengths DEF Expiry, NoTtl, WithinQuota
<1> QED BY <1>3, <1>4

(* Another call is counted: it is the latest, and those before it are as     *)
(* recent as they were, or came before the window.                           *)
LEMMA CallCounted ==
  ASSUME InductiveInvariant, RunScript
  PROVE  calls' \in [LatestCalls -> 0..Window] /\ CountedAreRecent'
<1>1. /\ count' \in 1..(Limit + 1) /\ count' <= count + 1 /\ count \in Nat
      /\ left' \in 1..Window /\ losses' = losses
      /\ left' = left \/ (left' = Window /\ (left = 0 => count' = 1))
      /\ losses = 0 /\ left # 0 => left' = left \/ count' = 1
      /\ calls \in [LatestCalls -> 0..Window]
  BY ScriptLeaves, RateAssumption DEF InductiveInvariant, TypeOK, RunScript, Counted,
     Expiry, EarlierAreOlder, CountedAreRecent, NoTtl
<1>2. /\ calls' \in [LatestCalls -> 0..Window]
      /\ 1 \in LatestCalls => calls'[1] = 0
      /\ \A k \in LatestCalls \ {1} : calls'[k] = calls[k - 1]
  BY <1>1, LatestFacts, Lengths DEF RunScript
<1>3. ASSUME losses = 0, NEW k \in LatestCalls, k <= count'
      PROVE  calls'[k] <= Window - left'
  <2>1. CASE k = 1
    BY <1>1, <1>2, <2>1, Lengths
  <2>2. CASE k # 1
    <3>1. k - 1 \in LatestCalls /\ k - 1 <= count /\ k \in Nat \ {0} /\ count' # 1
      BY <1>1, <1>3, <2>2, LatestFacts
    <3>2. left # 0 /\ left' = left
      BY <1>1, <1>3, <3>1
    <3>3. calls[k - 1] <= Window - left
      BY <1>1, <1>3, <3>1, <3>2 DEF InductiveInvariant, CountedAreRecent
    <3> QED BY <1>2, <2>2, <3>2, <3>3
  <2> QED BY <2>1, <2>2
<1> QED BY <1>1, <1>2, <1>3 DEF CountedAreRecent

(* A run of the script whose request is not admitted on the quota.           *)
LEMMA ScriptKeeps ==
  ASSUME InductiveInvariant, RunScript, UNCHANGED ages,
         answer' \in {Allowed} \cup 1..WindowSeconds,
         promised' \in 0..Longest, Expiry <= promised'
  PROVE  InductiveInvariant'
<1> USE DEF InductiveInvariant
<1>1. /\ count' = Counted /\ left' = Expiry /\ losses' = losses /\ ages' = ages
      /\ left' \in 1..Window /\ count' \in 1..(Limit + 1) /\ count' >= count
      /\ (left' = left \/ left' = Window)
  BY ScriptLeaves DEF RunScript
<1>2. TypeOK' /\ CountedAreRecent'
  BY <1>1, Lengths, CallCounted DEF TypeOK, NoTtl
<1>3. AtMostTwiceTheLimit' /\ WaitingIsEnough' /\ PromisesStartOver'
  BY <1>1, Lengths DEF AtMostTwiceTheLimit, WaitingIsEnough, PromisesStartOver
<1>4. EarlierAreOlder'
  <2>1. ASSUME NEW k \in Latest
        PROVE  /\ k > count' + Limit => ages[k] = Window
               /\ k > count' \/ k > Limit => ages[k] >= Window - left'
    <3>1. k \in Nat /\ ages[k] \in 0..Window /\ count \in Nat /\ Limit \in Nat
      BY LatestFacts, RateAssumption DEF TypeOK
    <3>2. k > count' + Limit => ages[k] = Window
      BY <1>1, <3>1 DEF EarlierAreOlder
    <3>3. k > count' \/ k > Limit => ages[k] >= Window - left'
      BY <1>1, <3>1, Lengths DEF EarlierAreOlder
    <3> QED BY <3>2, <3>3
  <2> QED BY <1>1, <2>1 DEF EarlierAreOlder
<1> QED BY <1>2, <1>3, <1>4

(* Admitting a request keeps the invariant.                                  *)
LEMMA AllowKeeps ==
  ASSUME InductiveInvariant, Allow
  PROVE  InductiveInvariant'
<1> USE DEF InductiveInvariant
<1>1. /\ count' = count + 1 /\ count < Limit /\ left' = Expiry /\ losses' = losses
      /\ left' \in 1..Window /\ (left' = left \/ left' = Window)
      /\ promised' = promised /\ left' <= promised /\ answer' = Allowed
      /\ count \in Nat /\ Limit \in Nat
  BY ScriptLeaves, RateAssumption DEF Allow, RunScript, TypeOK
<1>2. /\ ages' \in [Latest -> 0..Window]
      /\ ages'[1] = 0
      /\ \A k \in Latest \ {1} : ages'[k] = ages[k - 1]
  BY LatestFacts, Lengths DEF Allow, Admitted, TypeOK
<1>3. TypeOK' /\ CountedAreRecent'
  <2>1. RunScript
    BY DEF Allow
  <2> QED BY <1>1, <1>2, <2>1, Lengths, CallCounted DEF TypeOK, NoTtl
<1>4. AtMostTwiceTheLimit'
  <2>1. ages[2 * Limit] = Window
    BY <1>1, LatestFacts DEF EarlierAreOlder
  <2>2. 2 * Limit + 1 # 1 /\ (2 * Limit + 1) - 1 = 2 * Limit
    BY RateAssumption
  <2> QED BY <1>2, <2>1, <2>2, LatestFacts DEF AtMostTwiceTheLimit
<1>5. WaitingIsEnough' /\ PromisesStartOver'
  BY <1>1, Lengths DEF WaitingIsEnough, PromisesStartOver
<1>6. EarlierAreOlder'
  <2>1. ASSUME NEW k \in Latest
        PROVE  /\ k > count' + Limit => ages'[k] = Window
               /\ k > count' \/ k > Limit => ages'[k] >= Window - left'
    <3>1. CASE k = 1
      BY <1>1, <3>1, RateAssumption
    <3>2. CASE k # 1
      <4>1. k - 1 \in Latest /\ ages'[k] = ages[k - 1] /\ k \in Nat
            /\ ages[k - 1] \in 0..Window
        BY <1>2, <3>2, LatestFacts DEF TypeOK
      <4>2. k > count' + Limit => ages[k - 1] = Window
        BY <1>1, <4>1 DEF EarlierAreOlder
      <4>3. k > count' \/ k > Limit => ages[k - 1] >= Window - left'
        BY <1>1, <4>1, Lengths DEF EarlierAreOlder
      <4> QED BY <4>1, <4>2, <4>3
    <3> QED BY <3>1, <3>2
  <2> QED BY <1>1, <2>1 DEF EarlierAreOlder
<1> QED BY <1>3, <1>4, <1>5, <1>6

(* Refusing one keeps it.                                                    *)
LEMMA RefuseKeeps ==
  ASSUME InductiveInvariant, Refuse
  PROVE  InductiveInvariant'
<1>1. Expiry \in 1..Window /\ Expiry <= promised /\ promised \in 0..Longest
  BY ScriptLeaves DEF InductiveInvariant, TypeOK
<1>2. /\ RetryAfter \in 1..WindowSeconds /\ Told \in 0..Longest /\ Expiry <= Told
  BY <1>1, ToldCovers, Lengths
<1>3. promised' \in {Told, promised} /\ answer' = RetryAfter /\ UNCHANGED ages /\ RunScript
  BY DEF Refuse
<1> QED BY <1>1, <1>2, <1>3, ScriptKeeps

(* A call that raised keeps it, whether or not the script ran.               *)
LEMMA EvalFailsKeeps ==
  ASSUME InductiveInvariant, EvalFails
  PROVE  InductiveInvariant'
<1>1. promised' = promised /\ answer' = Allowed /\ UNCHANGED ages
  BY DEF EvalFails
<1>2. CASE RunScript
  <2>1. Expiry <= promised /\ promised \in 0..Longest
    BY ScriptLeaves DEF InductiveInvariant, TypeOK
  <2> QED BY <1>1, <1>2, <2>1, ScriptKeeps
<1>3. CASE UNCHANGED <<count, left, losses, calls>>
  BY <1>1, <1>3 DEF InductiveInvariant, TypeOK, AtMostTwiceTheLimit, WaitingIsEnough,
     EarlierAreOlder, CountedAreRecent, PromisesStartOver
<1> QED BY <1>2, <1>3 DEF EvalFails

(* The passing of time keeps it.                                             *)
LEMMA TickKeeps ==
  ASSUME InductiveInvariant, Tick
  PROVE  InductiveInvariant'
<1> USE DEF InductiveInvariant
<1>1. /\ count \in 0..(Limit + 1) /\ left \in NoTtl..Window /\ promised \in 0..Longest
      /\ (left = 0 <=> count = 0) /\ left <= promised /\ Limit \in Nat
      /\ left' = (IF left > 0 THEN left - 1 ELSE left)
      /\ count' = (IF left = 1 THEN 0 ELSE count)
      /\ promised' = (IF left > 1 THEN promised - 1 ELSE Longest)
      /\ answer' = answer /\ losses' = losses
  BY RateAssumption DEF Tick, TypeOK, EarlierAreOlder, WaitingIsEnough
<1>2. /\ ages' \in [Latest -> 0..Window]
      /\ \A k \in Latest : /\ ages[k] \in 0..Window
                            /\ ages'[k] = (IF ages[k] < Window THEN ages[k] + 1 ELSE Window)
      /\ calls' \in [LatestCalls -> 0..Window]
      /\ \A k \in LatestCalls : calls[k] \in 0..Window /\ calls'[k] <= calls[k] + 1
  BY Lengths DEF Tick, Older, TypeOK
<1>3. TypeOK' /\ CountedAreRecent'
  <2>1. TypeOK'
    BY <1>1, <1>2, Lengths DEF TypeOK, NoTtl
  <2>2. CountedAreRecent'
    BY <1>1, <1>2, LatestFacts, Lengths DEF CountedAreRecent, NoTtl
  <2> QED BY <2>1, <2>2
<1>4. AtMostTwiceTheLimit' /\ WaitingIsEnough' /\ PromisesStartOver'
  BY <1>1, <1>2, Lengths, LatestFacts DEF AtMostTwiceTheLimit, WaitingIsEnough,
     PromisesStartOver, NoTtl
<1>5. (left = 0 <=> count = 0)'
  BY <1>1 DEF NoTtl
<1>6. ASSUME NEW k \in Latest
      PROVE  /\ k > count' + Limit => ages'[k] = Window
             /\ (k > count' \/ k > Limit) /\ left' > 0 => ages'[k] >= Window - left'
  <2>1. /\ k \in Nat /\ ages[k] \in 0..Window
        /\ ages'[k] = (IF ages[k] < Window THEN ages[k] + 1 ELSE Window)
        /\ (k > count + Limit => ages[k] = Window)
        /\ ((k > count \/ k > Limit) /\ left > 0 => ages[k] >= Window - left)
    BY <1>2, LatestFacts DEF EarlierAreOlder
  <2>2. CASE left = 1
    BY <1>1, <2>1, <2>2, Lengths
  <2>3. CASE left # 1
    BY <1>1, <2>1, <2>3, Lengths DEF NoTtl
  <2> QED BY <2>2, <2>3
<1>7. EarlierAreOlder'
  BY <1>5, <1>6 DEF EarlierAreOlder
<1> QED BY <1>3, <1>4, <1>7

(* Losing the TTL, or all of Redis, keeps it.                                *)
LEMMA LossesKeep ==
  ASSUME InductiveInvariant, LoseTtl \/ LoseRedis
  PROVE  InductiveInvariant'
<1> USE DEF InductiveInvariant
<1>1. CASE LoseTtl
  <2>1. TypeOK'
    BY <1>1, Lengths, RateAssumption DEF TypeOK, LoseTtl, NoTtl
  <2>2. AtMostTwiceTheLimit' /\ WaitingIsEnough' /\ EarlierAreOlder'
        /\ CountedAreRecent' /\ PromisesStartOver'
    BY <1>1, Lengths DEF TypeOK, LoseTtl, NoTtl, AtMostTwiceTheLimit, WaitingIsEnough,
       EarlierAreOlder, CountedAreRecent, PromisesStartOver
  <2> QED BY <2>1, <2>2
<1>2. CASE LoseRedis
  <2>1. TypeOK'
    BY <1>2, Lengths, RateAssumption DEF TypeOK, LoseRedis, NoTtl
  <2>2. AtMostTwiceTheLimit' /\ WaitingIsEnough' /\ EarlierAreOlder'
        /\ CountedAreRecent' /\ PromisesStartOver'
    BY <1>2, Lengths, LatestFacts DEF LoseRedis, AtMostTwiceTheLimit, WaitingIsEnough,
       EarlierAreOlder, CountedAreRecent, PromisesStartOver
  <2> QED BY <2>1, <2>2
<1> QED BY <1>1, <1>2

(* Every step keeps the invariant.                                           *)
LEMMA StepKeeps == InductiveInvariant /\ [Next]_vars => InductiveInvariant'
<1> SUFFICES ASSUME InductiveInvariant, [Next]_vars PROVE InductiveInvariant'
  OBVIOUS
<1>1. CASE UNCHANGED vars
  BY <1>1 DEF vars, InductiveInvariant, TypeOK, AtMostTwiceTheLimit, WaitingIsEnough,
     EarlierAreOlder, CountedAreRecent, PromisesStartOver
<1>2. CASE Next
  BY <1>2, AllowKeeps, RefuseKeeps, EvalFailsKeeps, TickKeeps, LossesKeep DEF Next, Consume
<1> QED BY <1>1, <1>2

----------------------------------------------------------------------------
(* The invariant of the limiter holds always.                                *)
THEOREM InductiveInvariantHolds == Spec => []InductiveInvariant
  BY InitSound, StepKeeps, PTL DEF Spec

(* Counters, lifetimes and answers keep their types: a refusal always says   *)
(* to come back after at least one second and at most the window.            *)
THEOREM TypeCorrect == Spec => []TypeOK
<1>1. InductiveInvariant => TypeOK
  BY DEF InductiveInvariant
<1> QED BY <1>1, InductiveInvariantHolds, PTL

(* One counter admits at most twice the limit in any stretch of a window's   *)
(* length.                                                                   *)
THEOREM AtMostTwiceTheLimitHolds == Spec => []AtMostTwiceTheLimit
<1>1. InductiveInvariant => AtMostTwiceTheLimit
  BY DEF InductiveInvariant
<1> QED BY <1>1, InductiveInvariantHolds, PTL

(* A refused client that waits as long as it was told, and half a second     *)
(* more, is past the window that refused it.                                 *)
THEOREM WaitingIsEnoughHolds == Spec => []WaitingIsEnough
<1>1. InductiveInvariant => WaitingIsEnough
  BY DEF InductiveInvariant
<1> QED BY <1>1, InductiveInvariantHolds, PTL

(* Whoever is refused has used up the limit within the last window, unless   *)
(* the key lost its TTL.                                                     *)
THEOREM RefusedOnlyOverLimitHolds == Spec => RefusedOnlyOverLimit
<1>1. ASSUME InductiveInvariant, Refuse, losses = 0, NEW k \in LatestCalls
      PROVE  calls[k] < Window
  <2>1. count >= Limit /\ count \in Nat /\ Limit \in Nat \ {0}
    BY <1>1, RateAssumption DEF InductiveInvariant, TypeOK, Refuse, WithinQuota, Counted
  <2>2. left > 0 /\ left \in Nat
    BY <1>1, <2>1 DEF InductiveInvariant, TypeOK, EarlierAreOlder, CountedAreRecent, NoTtl
  <2>3. k <= count /\ calls[k] \in 0..Window
    BY <1>1, <2>1 DEF InductiveInvariant, TypeOK, LatestCalls
  <2> QED BY <1>1, <2>2, <2>3, Lengths DEF InductiveInvariant, CountedAreRecent
<1>2. InductiveInvariant /\ [Next]_vars =>
        [Refuse /\ losses = 0 => \A k \in LatestCalls : calls[k] < Window]_vars
  BY <1>1
<1> QED BY <1>2, InductiveInvariantHolds, PTL DEF Spec, RefusedOnlyOverLimit

----------------------------------------------------------------------------
(* Windows are fixed: while a key is going to expire, no request, admitted,  *)
(* refused or lost on the way, moves its end away, and the counter starts    *)
(* over only with a key of its own. Only a key that is new, or has lost its  *)
(* TTL, gets a window, and a whole one. This is why a client that never      *)
(* stops trying is still let through in the end.                             *)
WindowChanges ==
  /\ left' > left => left <= 0 /\ left' \in {0, Window}
  /\ count' < count => count' = 0 /\ left' = 0
WindowsAreFixed == [][WindowChanges]_vars

(* No request moves the end of a window.                                     *)
THEOREM WindowsAreFixedHolds == Spec => WindowsAreFixed
<1>1. InductiveInvariant /\ [Next]_vars => [WindowChanges]_vars
  <2> SUFFICES ASSUME InductiveInvariant, Next PROVE WindowChanges
    OBVIOUS
  <2>1. /\ count \in Nat /\ count <= Limit + 1 /\ Limit \in Nat /\ Limit > 0
        /\ left \in Int /\ left >= -1 /\ Window \in Nat /\ left <= Window
        /\ left = 0 <=> count = 0
    BY RateAssumption, Lengths DEF InductiveInvariant, TypeOK, EarlierAreOlder, NoTtl
  <2>2. CASE RunScript
    BY <2>1, <2>2 DEF RunScript, Counted, Expiry, NoTtl, WindowChanges
  <2>3. CASE UNCHANGED <<count, left>>
    BY <2>1, <2>3 DEF WindowChanges
  <2>4. CASE Tick
    BY <2>1, <2>4 DEF Tick, WindowChanges
  <2>5. CASE LoseTtl \/ LoseRedis
    BY <2>1, <2>5 DEF LoseTtl, LoseRedis, NoTtl, WindowChanges
  <2> QED BY <2>2, <2>3, <2>4, <2>5 DEF Next, Consume, Allow, Refuse, EvalFails
<1> QED BY <1>1, InductiveInvariantHolds, PTL DEF Spec, WindowsAreFixed
=============================================================================
