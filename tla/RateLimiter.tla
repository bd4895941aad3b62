---------------------------- MODULE RateLimiter ----------------------------
(* One key of the fixed-window limiter: the logins from one address, or the  *)
(* tickets one customer creates. Redis runs the script atomically, so the    *)
(* actors are the clock, the requests and the ways Redis lets them down.     *)
(* Time passes in ticks, fractions of a second, since expiry has a finer     *)
(* grain than the TTL the script reads.                                      *)
EXTENDS Integers

CONSTANTS
  Limit,          \* LOGIN_RATE_LIMIT or TICKET_CREATE_RATE_LIMIT
  WindowSeconds,  \* RATE_LIMIT_WINDOW_SECONDS
  Second,         \* ticks of a second
  Allowed,        \* the decision that carries no Retry-After
  MaxLosses       \* bound: how often the key may lose its TTL

ASSUME RateAssumption ==
  /\ Limit \in Nat \ {0}
  /\ WindowSeconds \in Nat \ {0}
  /\ Second \in Nat \ {0}
  /\ MaxLosses \in Nat
ASSUME AllowedAssumption == Allowed \notin 1..WindowSeconds

Window == WindowSeconds * Second
NoTtl == -1

(* A refused client is never told to come back later than this many ticks:   *)
(* TTL rounds by half a second at most.                                      *)
Half == Second \div 2
Longest == Window + Half

VARIABLES
  count,        \* the counter, 0 when the key is absent; past Limit + 1 it
                \* makes no difference to anything and stays there
  left,         \* ticks until the key expires, NoTtl, or 0 when it is absent
  answer,       \* the last decision: Allowed or a Retry-After
  losses,       \* how often the TTL was lost
  ages,         \* history: ages[k] is how long ago the k-th latest request was
                \* admitted by this counter, up to Window
  calls,        \* history: the same of the latest runs of the script, whether
                \* their requests were admitted, refused or never told
  promised      \* history: the soonest that a client refused in this window
                \* was told it would end, in ticks from now

vars == <<count, left, answer, losses, ages, calls, promised>>

Latest == 1..(2 * Limit + 1)
LatestCalls == 1..Limit

TypeOK ==
  /\ count \in 0..(Limit + 1)
  /\ left \in NoTtl..Window
  /\ answer \in {Allowed} \cup 1..WindowSeconds
  /\ losses \in 0..MaxLosses
  /\ ages \in [Latest -> 0..Window]
  /\ calls \in [LatestCalls -> 0..Window]
  /\ promised \in 0..Longest

Init ==
  /\ count = 0
  /\ left = 0
  /\ answer = Allowed
  /\ losses = 0
  /\ ages = [k \in Latest |-> Window]
  /\ calls = [k \in LatestCalls |-> Window]
  /\ promised = Longest

----------------------------------------------------------------------------
(* The script.                                                               *)
Counted == IF count > Limit THEN count ELSE count + 1

(* As Expiry, had every call pushed the end of the window away. *)
ExpiryPushed == Window

(* As Expiry, without the repair of a key that has no TTL. *)
ExpiryUnrepaired == IF Counted = 1 THEN Window ELSE left

(* The key's remaining life after EXPIRE for a first call or a missing TTL.  *)
Expiry == IF Counted = 1 \/ left = NoTtl THEN Window ELSE left

(* TTL: whole seconds, rounded. *)
Ttl == (2 * Expiry + Second) \div (2 * Second)

RunScript ==
  /\ count' = Counted
  /\ left' = Expiry
  /\ calls' = [k \in LatestCalls |-> IF k = 1 THEN 0 ELSE calls[k - 1]]
  /\ UNCHANGED losses

----------------------------------------------------------------------------
(* consume_rate_limit.                                                       *)
Admitted == [k \in Latest |-> IF k = 1 THEN 0 ELSE ages[k - 1]]

(* As WithinQuota, with the limit taken for the first refusal. *)
WithinQuotaStrictly == Counted < Limit

(* As WithinQuota, off by one. *)
WithinQuotaBeforehand == count <= Limit

WithinQuota == Counted <= Limit

Allow ==
  /\ WithinQuota
  /\ RunScript
  /\ answer' = Allowed
  /\ ages' = Admitted
  /\ UNCHANGED promised

(* As RetryAfter, without max. *)
RetryAfterTtl == Ttl

RetryAfter == IF Ttl > 1 THEN Ttl ELSE 1

Told == RetryAfter * Second + Half

Refuse ==
  /\ ~WithinQuota
  /\ RunScript
  /\ answer' = RetryAfter
  /\ promised' = IF Told < promised THEN Told ELSE promised
  /\ UNCHANGED ages

(* The call raises, whether the script had run by then or not: the request   *)
(* is let through, or the Redis client sends the script again. Requests let  *)
(* through this way are on nobody's quota.                                   *)
EvalFails ==
  /\ RunScript \/ UNCHANGED <<count, left, losses, calls>>
  /\ answer' = Allowed
  /\ UNCHANGED <<ages, promised>>

----------------------------------------------------------------------------
(* Time and faults.                                                          *)
Older(age) == IF age < Window THEN age + 1 ELSE Window

Tick ==
  /\ left' = IF left > 0 THEN left - 1 ELSE left
  /\ count' = IF left = 1 THEN 0 ELSE count
  /\ promised' = IF left > 1 THEN promised - 1 ELSE Longest
  /\ ages' = [k \in Latest |-> Older(ages[k])]
  /\ calls' = [k \in LatestCalls |-> Older(calls[k])]
  /\ UNCHANGED <<answer, losses>>

LoseTtl ==
  /\ count > 0
  /\ losses < MaxLosses
  /\ left' = NoTtl
  /\ losses' = losses + 1
  /\ promised' = Longest
  /\ UNCHANGED <<count, answer, ages, calls>>

(* The counter is gone and the next one knows nothing of it. *)
LoseRedis ==
  /\ count' = 0
  /\ left' = 0
  /\ ages' = [k \in Latest |-> Window]
  /\ calls' = [k \in LatestCalls |-> Window]
  /\ promised' = Longest
  /\ UNCHANGED <<answer, losses>>

Consume == Allow \/ Refuse

Next ==
  \/ Consume
  \/ EvalFails
  \/ Tick
  \/ LoseTtl
  \/ LoseRedis

Spec == Init /\ [][Next]_vars

(* Time passes, and the client keeps trying: a blocked client that gives up  *)
(* is not what has to be shown.                                              *)
FairSpec == Spec /\ WF_vars(Tick) /\ WF_vars(Consume)

----------------------------------------------------------------------------
(* In any stretch as long as the window one counter admits at most twice the *)
(* limit: the request before the latest 2 * Limit is a window old. Only the  *)
(* windows' fixed edges lie between this and the limit the README states.    *)
AtMostTwiceTheLimit == ages[2 * Limit + 1] = Window

(* The window that refused a client is over when the client was told, give   *)
(* or take the half second that TTL rounds away, however often it and others *)
(* ask again meanwhile.                                                      *)
WaitingIsEnough == left <= promised

(* Nobody is refused early: while the key keeps its TTL, a refusal follows as *)
(* many calls as the limit allows, each of them less than a window ago. They *)
(* need not all have been answered, since a lost answer counts.              *)
RefusedOnlyOverLimit ==
  [][Refuse /\ losses = 0 => \A k \in LatestCalls : calls[k] < Window]_vars

(* Nobody is blocked for ever: the counter comes back to within the limit,   *)
(* although the client never stops trying and the key may lose its TTL.      *)
NeverBlockedForever == []<>(count <= Limit)

(* What the proof of AtMostTwiceTheLimit needs: of the requests before the   *)
(* counted ones, Limit at most are younger than a window; they and, once the *)
(* quota is used up, those before Limit others came before this window.      *)
EarlierAreOlder ==
  /\ left = 0 <=> count = 0
  /\ \A k \in Latest :
       /\ k > count + Limit => ages[k] = Window
       /\ (k > count \/ k > Limit) /\ left > 0 => ages[k] >= Window - left

(* What the counter counts came within its window. *)
CountedAreRecent ==
  losses = 0 =>
    /\ left >= 0
    /\ left > 0 => \A k \in LatestCalls : k <= count => calls[k] <= Window - left

(* Nobody is promised anything before the window that refuses them begins.   *)
PromisesStartOver == left <= 0 => promised = Longest

InductiveInvariant ==
  /\ TypeOK
  /\ AtMostTwiceTheLimit
  /\ WaitingIsEnough
  /\ EarlierAreOlder
  /\ CountedAreRecent
  /\ PromisesStartOver
=============================================================================
