-------------------------- MODULE TimerAlignProofs --------------------------
(***************************************************************************)
(* What the timer arithmetic of src/ypmainloop.c guarantees for every      *)
(* delay, every clock value and every set of timers to line up with.       *)
(***************************************************************************)
EXTENDS TimerAlign, WellFoundedInduction, TLAPS

\* A nonempty set of natural numbers has a least element.
LEMMA LeastNatural ==
  ASSUME NEW S \in SUBSET Nat, S # {}
  PROVE  \E m \in S : \A n \in S : m <= n
<1>1. PICK m \in S : \A n \in S : ~ (<<n, m>> \in OpToRel(<, Nat))
  BY NatLessThanWellFounded, WFMin
<1>2. ASSUME NEW n \in S PROVE m <= n
  <2>1. n \in Nat /\ m \in Nat
    OBVIOUS
  <2>2. (n < m) => <<n, m>> \in OpToRel(<, Nat)
    BY <2>1 DEF OpToRel
  <2>3. ~ (n < m)
    BY <1>1, <2>2
  <2>. QED  BY <2>1, <2>3
<1>. QED  BY <1>2

\* Ordering by a natural key and then by index leaves exactly one first
\* element to choose: what the searches "lowest value, first slot" rely on.
LEMMA FirstOfLowest ==
  ASSUME NEW S \in SUBSET Nat, S # {}, NEW key, \A i \in S : key[i] \in Nat
  PROVE  \E i \in S : \A j \in S : \/ key[i] < key[j]
                                   \/ key[i] = key[j] /\ i <= j
<1>1. PICK k \in {key[i] : i \in S} : \A l \in {key[i] : i \in S} : k <= l
  <2>1. {key[i] : i \in S} \in SUBSET Nat /\ {key[i] : i \in S} # {}
    OBVIOUS
  <2>. QED  BY <2>1, LeastNatural
<1>2. PICK i \in {j \in S : key[j] = k} : \A n \in {j \in S : key[j] = k} : i <= n
  <2>1. {j \in S : key[j] = k} \in SUBSET Nat /\ {j \in S : key[j] = k} # {}
    BY <1>1
  <2>. QED  BY <2>1, LeastNatural
<1>3. ASSUME NEW j \in S PROVE \/ key[i] < key[j]
                               \/ key[i] = key[j] /\ i <= j
  <2>1. k <= key[j] /\ k \in Nat /\ key[j] \in Nat
    BY <1>1
  <2>2. CASE key[j] = k
    BY <2>2, <1>2
  <2>3. CASE key[j] # k
    BY <2>1, <2>3, <1>2
  <2>. QED  BY <2>2, <2>3
<1>. QED  BY <1>2, <1>3

\* Division with remainder, for a positive divisor.
LEMMA DivRemainder ==
  ASSUME NEW a \in Nat, NEW d \in Nat \ {0}
  PROVE  /\ a \div d \in Nat
         /\ (a \div d) * d \in Nat
         /\ (a \div d) * d <= a
         /\ a < (a \div d) * d + d
OBVIOUS

\* The aligned expiry lies within one delay from now and a whole number of
\* delays away from the reference: a periodic timer that
\* yp_mlint_schedule_timer lines up with another one meets its ticks, never
\* fires in the past and never later than without the optimisation.
THEOREM AlignBounds ==
  ASSUME NEW ref \in Nat, NEW now \in Nat, NEW delay \in Nat \ {0}
  PROVE  /\ AlignTo(ref, delay, now) \in now..(now + delay)
         /\ \E k \in Int : AlignTo(ref, delay, now) = ref + k * delay
<1>1. CASE ref > now
  <2>. DEFINE q == (ref - now) \div delay
  <2>1. q \in Nat /\ q * delay \in Nat /\ q * delay <= ref - now /\ ref - now < q * delay + delay
    BY <1>1, DivRemainder
  <2>2. AlignTo(ref, delay, now) = ref - q * delay
    BY <1>1 DEF AlignTo
  <2>3. -q \in Int /\ ref - q * delay = ref + (-q) * delay
    BY <2>1
  <2>. HIDE DEF q
  <2>. QED  BY <1>1, <2>1, <2>2, <2>3
<1>2. CASE ref <= now
  <2>. DEFINE q == (now - ref) \div delay
  <2>1. q \in Nat /\ q * delay \in Nat /\ q * delay <= now - ref /\ now - ref < q * delay + delay
    BY <1>2, DivRemainder
  <2>2. (q + 1) * delay = q * delay + delay
    BY <2>1
  <2>3. AlignTo(ref, delay, now) = ref + (q + 1) * delay
    BY <1>2 DEF AlignTo
  <2>. HIDE DEF q
  <2>4. q + 1 \in Int
    BY <2>1
  <2>. QED  BY <1>2, <2>1, <2>2, <2>3, <2>4
<1>. QED  BY <1>1, <1>2

\* A score is a number of periods.
LEMMA ScoreType ==
  ASSUME NEW check \in Nat, NEW exist \in Nat
  PROVE  OverlapScore(check, exist) \in Nat
<1>. DEFINE longer  == IF exist > check THEN exist ELSE check
            shorter == IF exist > check THEN check ELSE exist
            meets   == {i \in 1..MaxMultiple : (longer * i) % shorter = 0}
            first   == CHOOSE i \in meets : \A j \in meets : i <= j
<1>1. CASE check = 0 \/ exist = 0 \/ meets = {}
  BY <1>1 DEF OverlapScore
<1>2. CASE check # 0 /\ exist # 0 /\ meets # {}
  <2>1. meets \in SUBSET Nat
    BY DEF MaxMultiple
  <2>2. first \in Nat
    BY <1>2, <2>1, LeastNatural
  <2>3. exist * first \in Nat
    BY <2>2
  <2>4. (exist * first) \div check \in Nat
    BY <1>2, <2>3, DivRemainder
  <2>5. OverlapScore(check, exist) = IF exist > check THEN (exist * first) \div check ELSE first
    BY <1>2 DEF OverlapScore
  <2>. HIDE DEF first
  <2>. QED  BY <2>2, <2>4, <2>5
<1>. QED  BY <1>1, <1>2

\* The first expiry of a timer lies between now and one delay from now,
\* whatever timers are in the list; without the optimisation it is exactly
\* one delay away.
THEOREM FirstExpireBounds ==
  ASSUME NEW refs, DOMAIN refs \in SUBSET Nat,
         \A i \in DOMAIN refs : refs[i].interval \in Nat /\ refs[i].expire \in Nat,
         NEW delay \in Nat, NEW optimize \in BOOLEAN, NEW now \in Nat
  PROVE  /\ FirstExpire(refs, delay, optimize, now) \in now..(now + delay)
         /\ ~optimize => FirstExpire(refs, delay, optimize, now) = now + delay
<1>1. CASE optimize /\ Candidates(refs, delay) # {}
  <2>. DEFINE C == Candidates(refs, delay)
              score == [i \in C |-> OverlapScore(delay, refs[i].interval)]
  <2>1. C \in SUBSET Nat /\ C # {} /\ C \subseteq DOMAIN refs
    BY <1>1 DEF Candidates
  <2>2. \A i \in C : score[i] = OverlapScore(delay, refs[i].interval) /\ score[i] \in Nat
    BY <2>1, ScoreType
  <2>. HIDE DEF score
  <2>3. \E i \in C : \A j \in C : \/ score[i] < score[j]
                                  \/ score[i] = score[j] /\ i <= j
    BY <2>1, <2>2, FirstOfLowest
  <2>4. BestRef(refs, delay) \in C
    BY <2>2, <2>3 DEF BestRef
  <2>5. delay # 0
    BY <2>1 DEF Candidates, OverlapScore
  <2>6. refs[BestRef(refs, delay)].expire \in Nat
    BY <2>1, <2>4
  <2>. QED  BY <1>1, <2>5, <2>6, AlignBounds DEF FirstExpire
<1>2. CASE ~(optimize /\ Candidates(refs, delay) # {})
  BY <1>2 DEF FirstExpire
<1>. QED  BY <1>1, <1>2
=============================================================================
