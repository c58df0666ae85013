--------------------------- MODULE ComponentProofs ---------------------------
(***************************************************************************)
(* What CoreComponents keeps, for every value of the constants.  The places *)
(* p1, p2, ... stand for the variables of a component in the order of its    *)
(* instance,                                                                *)
(*   ServiceClient:   p1 the breaker, p2 the stacks, p3 answered, p4 lost,   *)
(*                    p5 reading                                            *)
(*   RateLimiter:     p1 now, p2 the times counted, p3 the times allowed     *)
(*   ServiceRegistry: p1 instance, p2 lock, p3 callers, p4 made, p5 health,  *)
(*                    p6 stop, p7 checkers, p8 startup, p9 last, p10 starts  *)
(*   AlertAdmission:  p1 now, p2 maintenance, p3 the limiter's times,        *)
(*                    p4 dedup, p5 counts, p6 alerts counted, p7 sink,       *)
(*                    p8 last fired, p9 alerts of the manager                *)
(*   RemoteExport:    p1 kind, p2 queue, p3 closed, p4 stop, p5 thread,      *)
(*                    p6 processes, p7 calls begun, p8 next event, p9 counts,*)
(*                    p10 received, p11 in order, p12 rejected, p13 overlap  *)
(*   CostBudget:      p1 records, p2 fired, p3 calls, p4 resets,             *)
(*                    p5 notified, p6 stale                                  *)
(***************************************************************************)
EXTENDS CoreComponents, SequenceTheorems, FunctionTheorems, FiniteSetTheorems,
        WellFoundedInduction, TLAPS

(***************************************************************************)
(* The sliding window                                                      *)
(***************************************************************************)

LeastOf(S) == CHOOSE x \in S : \A y \in S : x <= y

LEMMA NumbersCompare == \A i, j \in Nat : ~ (j < i) => i <= j
OBVIOUS

(* A set of numbers has a least one. *)
LEMMA LeastIsLeast ==
  ASSUME NEW S, S \subseteq Nat, S # {}
  PROVE  LeastOf(S) \in S /\ \A y \in S : LeastOf(S) <= y
<1> PICK R : R = OpToRel(<, Nat)
  OBVIOUS
<1>1. PICK i \in S : \A j \in S : ~ (<<j, i>> \in R)
  BY NatLessThanWellFounded, WFMin
<1>2. \A j \in Nat, k \in Nat : j < k => <<j, k>> \in R
  BY DEF OpToRel
<1>3. ASSUME NEW j \in S PROVE i <= j
  <2>1. j \in Nat /\ i \in Nat /\ ~ (j < i)
    BY <1>1, <1>2
  <2> QED
    BY <2>1, NumbersCompare, Zenon
<1> QED
  BY <1>3, Zenon DEF LeastOf

(* Equal sequences, element by element. *)
LEMMA SameSequence ==
  ASSUME NEW S, NEW a \in Seq(S), NEW b \in Seq(S), Len(a) = Len(b),
         \A i \in 1..Len(a) : a[i] = b[i]
  PROVE  a = b
  BY SeqEqual

(* A sequence with values in T. *)
LEMMA SequenceIn ==
  ASSUME NEW S, NEW T, NEW s \in Seq(S), \A i \in 1..Len(s) : s[i] \in T
  PROVE  s \in Seq(T)
<1>1. PICK n \in Nat : n = Len(s)
  BY LenProperties
<1>2. s \in [1..n -> T]
  BY <1>1, LenProperties
<1> QED
  BY <1>1, <1>2

(* What the eviction leaves of the times at now. *)
Kept(times, now, window) ==
    LET stay == {n \in 1..Len(times) : now - times[n] < window}
    IN IF stay = {} THEN <<>> ELSE SubSeq(times, LeastOf(stay), Len(times))

(* From place m on. *)
Rest(s, m) == SubSeq(s, m, Len(s))

LEMMA RestIs ==
  ASSUME NEW S, NEW s \in Seq(S), NEW m \in 1..Len(s) + 1
  PROVE  /\ Rest(s, m) \in Seq(S) /\ Len(Rest(s, m)) = Len(s) - m + 1
         /\ \A i \in 1..(Len(s) - m + 1) : Rest(s, m)[i] = s[m + i - 1]
  BY SubSeqProperties DEF Rest

(* The eviction takes away times until it meets one of the window. *)
LEMMA KeptIs ==
  ASSUME NEW now \in Nat, NEW window \in Nat, NEW times \in Seq(Nat)
  PROVE  \E m \in 1..Len(times) + 1 :
            /\ Kept(times, now, window) = Rest(times, m)
            /\ \A i \in 1..m - 1 : now - times[i] >= window
            /\ m <= Len(times) => now - times[m] < window
<1> DEFINE stay == {n \in 1..Len(times) : now - times[n] < window}
<1>0. \A i \in 1..Len(times) : times[i] \in Nat
  OBVIOUS
<1>1. CASE stay = {}
  <2>1. Kept(times, now, window) = <<>>
    BY <1>1 DEF Kept
  <2>2. Rest(times, Len(times) + 1) = <<>>
    BY RestIs, EmptySeq
  <2>3. \A i \in 1..Len(times) : now - times[i] >= window
    BY SMTT(30), <1>0, <1>1
  <2>4. Len(times) + 1 \in 1..Len(times) + 1 /\ (Len(times) + 1) - 1 = Len(times)
    OBVIOUS
  <2> QED
    BY <2>1, <2>2, <2>3, <2>4
<1>2. CASE stay # {}
  <2>1. PICK m : m = LeastOf(stay)
    OBVIOUS
  <2>2. stay \subseteq Nat
    OBVIOUS
  <2>3. m \in stay /\ \A y \in stay : m <= y
    BY <1>2, <2>1, <2>2, LeastIsLeast, Zenon
  <2>4. Kept(times, now, window) = Rest(times, m)
    BY <1>2, <2>1, Zenon DEF Kept, Rest
  <2>5. m \in 1..Len(times) /\ now - times[m] < window
    BY <2>3
  <2>6. \A i \in 1..m - 1 : now - times[i] >= window
    <3> SUFFICES ASSUME NEW i \in 1..m - 1, ~ (now - times[i] >= window) PROVE FALSE
      OBVIOUS
    <3>1. i \in 1..Len(times) /\ times[i] \in Nat
      BY <1>0, <2>5
    <3>2. i \in stay
      BY <3>1
    <3> QED
      BY <2>3, <2>5, <3>2
  <2>7. m \in 1..Len(times) + 1
    BY <2>5
  <2> HIDE DEF stay
  <2> QED
    BY <2>4, <2>5, <2>6, <2>7
<1> QED
  BY <1>1, <1>2

(* The limiter's invariant: of all the times it allowed, which increase, it *)
(* counts the last ones; those before them have left the window; and each   *)
(* time is a whole window after the one limit places before it.             *)
Windowed(times, allowed, now, limit, window) ==
    /\ allowed \in Seq(Nat) /\ Len(times) <= limit
    /\ \A i \in 1..Len(allowed) : allowed[i] <= now
    /\ \A i, j \in 1..Len(allowed) : i <= j => allowed[i] <= allowed[j]
    /\ \A i, j \in 1..Len(allowed) : j = i + limit => allowed[j] - allowed[i] >= window
    /\ \E m \in 1..Len(allowed) + 1 : /\ times = Rest(allowed, m)
                                      /\ \A i \in 1..m - 1 : now - allowed[i] >= window

LEMMA WindowPasses ==
  ASSUME NEW now \in Nat, NEW limit \in Nat, NEW window \in Nat, NEW times, NEW allowed,
         Windowed(times, allowed, now, limit, window)
  PROVE  Windowed(times, allowed, now + 1, limit, window)
<1>1. PICK m \in 1..Len(allowed) + 1 : /\ times = Rest(allowed, m)
                                      /\ \A i \in 1..m - 1 : now - allowed[i] >= window
  BY DEF Windowed
<1>2. \A i \in 1..m - 1 : (now + 1) - allowed[i] >= window
  BY <1>1 DEF Windowed
<1>3. \A i \in 1..Len(allowed) : allowed[i] <= now + 1
  BY DEF Windowed
<1> QED
  BY <1>1, <1>2, <1>3 DEF Windowed

(* The eviction takes the same from the times counted and from all of them. *)
LEMMA WindowEvicts ==
  ASSUME NEW now \in Nat, NEW limit \in Nat, NEW window \in Nat, NEW times, NEW allowed,
         Windowed(times, allowed, now, limit, window)
  PROVE  /\ times \in Seq(Nat)
         /\ Kept(times, now, window) = Kept(allowed, now, window)
         /\ Windowed(Kept(times, now, window), allowed, now, limit, window)
<1>1. PICK m \in 1..Len(allowed) + 1 : /\ times = Rest(allowed, m)
                                      /\ \A i \in 1..m - 1 : now - allowed[i] >= window
  BY DEF Windowed
<1>2. allowed \in Seq(Nat) /\ Len(allowed) \in Nat /\ \A i \in 1..Len(allowed) : allowed[i] \in Nat
  BY DEF Windowed
<1>3. /\ times \in Seq(Nat) /\ Len(times) = Len(allowed) - m + 1
      /\ \A i \in 1..(Len(allowed) - m + 1) : times[i] = allowed[m + i - 1]
  BY <1>1, <1>2, RestIs
<1>4. PICK k \in 1..Len(times) + 1 :
         /\ Kept(times, now, window) = Rest(times, k)
         /\ \A i \in 1..k - 1 : now - times[i] >= window
         /\ k <= Len(times) => now - times[k] < window
  BY <1>3, KeptIs
<1>5. PICK l \in 1..Len(allowed) + 1 :
         /\ Kept(allowed, now, window) = Rest(allowed, l)
         /\ \A i \in 1..l - 1 : now - allowed[i] >= window
         /\ l <= Len(allowed) => now - allowed[l] < window
  BY <1>2, KeptIs
<1>6. l = m + k - 1
  <2>1. l >= m
    BY <1>1, <1>2, <1>5
  <2>2. ~ (l < m + k - 1)
    <3> SUFFICES ASSUME l < m + k - 1 PROVE FALSE
      OBVIOUS
    <3>1. l - m + 1 \in 1..k - 1 /\ l - m + 1 \in 1..Len(allowed) - m + 1 /\ m + (l - m + 1) - 1 = l
      BY <2>1, <1>3
    <3>2. times[l - m + 1] = allowed[l] /\ now - times[l - m + 1] >= window
      BY <1>3, <1>4, <3>1
    <3>3. l \in 1..Len(allowed)
      BY <1>2, <1>3
    <3>4. now - allowed[l] < window /\ allowed[l] \in Nat
      BY <1>2, <1>5, <3>3
    <3> QED
      BY <3>2, <3>4
  <2>3. ~ (l > m + k - 1)
    <3> SUFFICES ASSUME l > m + k - 1 PROVE FALSE
      OBVIOUS
    <3>1. m + k - 1 \in 1..l - 1 /\ k \in 1..Len(allowed) - m + 1
      BY <1>3
    <3>2. times[k] = allowed[m + k - 1] /\ now - times[k] < window
      BY <1>3, <1>4, <3>1
    <3>3. now - allowed[m + k - 1] >= window /\ m + k - 1 \in 1..Len(allowed)
      BY <1>2, <1>5, <3>1
    <3> QED
      BY SMTT(30), <1>2, <3>2, <3>3
  <2> QED
    BY <2>2, <2>3
<1>7. Rest(times, k) = Rest(allowed, l)
  <2>1. /\ Rest(times, k) \in Seq(Nat) /\ Len(Rest(times, k)) = Len(times) - k + 1
        /\ \A i \in 1..(Len(times) - k + 1) : Rest(times, k)[i] = times[k + i - 1]
    BY <1>3, RestIs
  <2>2. /\ Rest(allowed, l) \in Seq(Nat) /\ Len(Rest(allowed, l)) = Len(allowed) - l + 1
        /\ \A i \in 1..(Len(allowed) - l + 1) : Rest(allowed, l)[i] = allowed[l + i - 1]
    BY <1>2, RestIs
  <2>3. Len(times) - k + 1 = Len(allowed) - l + 1
    BY <1>3, <1>6, <1>2
  <2>4. ASSUME NEW i \in 1..(Len(times) - k + 1) PROVE Rest(times, k)[i] = Rest(allowed, l)[i]
    <3>1. k + i - 1 \in 1..(Len(allowed) - m + 1) /\ m + (k + i - 1) - 1 = l + i - 1
      BY <1>3, <1>6, <1>2
    <3>2. times[k + i - 1] = allowed[m + (k + i - 1) - 1]
      BY <1>3, <3>1
    <3> QED
      BY <2>1, <2>2, <2>3, <3>1, <3>2
  <2> QED
    BY <2>1, <2>2, <2>3, <2>4, SameSequence
<1>8. Len(Rest(allowed, l)) <= Len(times)
  <2>1. Len(Rest(allowed, l)) = Len(allowed) - l + 1
    BY <1>2, RestIs
  <2> QED
    BY <1>2, <1>3, <1>6, <2>1
<1> QED
  <2>1. Windowed(Rest(allowed, l), allowed, now, limit, window)
    <3>1. Len(Rest(allowed, l)) <= limit
      BY <1>2, <1>3, <1>8, RestIs DEF Windowed
    <3> QED
      BY <1>5, <3>1, Zenon DEF Windowed
  <2> QED
    BY <1>3, <1>4, <1>5, <1>7, <2>1

(* A request that finds less than limit times counted is counted too. *)
LEMMA WindowCounts ==
  ASSUME NEW now \in Nat, NEW limit \in Nat \ {0}, NEW window \in Nat, NEW kept, NEW allowed,
         Windowed(kept, allowed, now, limit, window), Len(kept) < limit
  PROVE  Windowed(Append(kept, now), Append(allowed, now), now, limit, window)
<1>1. PICK m \in 1..Len(allowed) + 1 : /\ kept = Rest(allowed, m)
                                      /\ \A i \in 1..m - 1 : now - allowed[i] >= window
  BY DEF Windowed
<1>2. allowed \in Seq(Nat) /\ Len(allowed) \in Nat /\ \A i \in 1..Len(allowed) : allowed[i] \in Nat
  BY DEF Windowed
<1>3. /\ kept \in Seq(Nat) /\ Len(kept) = Len(allowed) - m + 1
      /\ \A i \in 1..(Len(allowed) - m + 1) : kept[i] = allowed[m + i - 1]
  BY <1>1, <1>2, RestIs
<1>4. PICK all : all = Append(allowed, now)
  OBVIOUS
<1>5. PICK n : n = Len(allowed) + 1
  OBVIOUS
<1>6. /\ all \in Seq(Nat) /\ Len(all) = n /\ n \in Nat
      /\ \A i \in 1..n - 1 : all[i] = allowed[i]
      /\ all[n] = now
  BY <1>2, <1>4, <1>5
<1>7. \A i \in 1..n : all[i] \in Nat /\ all[i] <= now
  <2> SUFFICES ASSUME NEW i \in 1..n PROVE all[i] \in Nat /\ all[i] <= now
    OBVIOUS
  <2>1. CASE i = n
    BY <1>6, <2>1
  <2>2. CASE i # n
    <3>1. i \in 1..Len(allowed) /\ i \in 1..n - 1
      BY <1>5, <1>6, <2>2
    <3>2. allowed[i] <= now /\ allowed[i] \in Nat
      BY <1>2, <3>1 DEF Windowed
    <3> QED
      BY <1>6, <3>1, <3>2
  <2> QED
    BY <2>1, <2>2
<1>8. \A i, j \in 1..n : i <= j => all[i] <= all[j]
  <2> SUFFICES ASSUME NEW i \in 1..n, NEW j \in 1..n, i <= j PROVE all[i] <= all[j]
    OBVIOUS
  <2>1. CASE j = n
    BY <1>6, <1>7, <2>1
  <2>2. CASE j # n
    <3>1. i \in 1..Len(allowed) /\ j \in 1..Len(allowed)
      BY <1>5, <1>6, <2>2
    <3> QED
      BY <1>5, <1>6, <3>1 DEF Windowed
  <2> QED
    BY <2>1, <2>2
<1>9. \A i, j \in 1..n : j = i + limit => all[j] - all[i] >= window
  <2> SUFFICES ASSUME NEW i \in 1..n, NEW j \in 1..n, j = i + limit PROVE all[j] - all[i] >= window
    OBVIOUS
  <2>1. CASE j = n
    <3>1. i \in 1..m - 1 /\ i \in 1..n - 1
      BY <1>3, <1>5, <1>6, <2>1
    <3> QED
      BY <1>1, <1>2, <1>5, <1>6, <2>1, <3>1
  <2>2. CASE j # n
    <3>1. i \in 1..Len(allowed) /\ j \in 1..Len(allowed)
      BY SMTT(30), <1>5, <1>6, <2>2
    <3> QED
      BY <1>5, <1>6, <3>1 DEF Windowed
  <2> QED
    BY <2>1, <2>2
<1>10. Append(kept, now) = Rest(all, m)
  <2>1. m \in 1..Len(all) + 1 /\ Len(all) = Len(allowed) + 1
    BY <1>5, <1>6
  <2>2. /\ Rest(all, m) \in Seq(Nat) /\ Len(Rest(all, m)) = Len(all) - m + 1
        /\ \A i \in 1..(Len(all) - m + 1) : Rest(all, m)[i] = all[m + i - 1]
    BY <1>6, <2>1, RestIs
  <2>3. PICK k : k = Append(kept, now)
    OBVIOUS
  <2>4. /\ k \in Seq(Nat) /\ Len(k) = Len(kept) + 1 /\ k[Len(kept) + 1] = now
        /\ \A i \in 1..Len(kept) : k[i] = kept[i]
    <3>1. kept \in Seq(Nat) /\ now \in Nat
      BY <1>3
    <3> QED
      BY <2>3, <3>1, AppendProperties
  <2>5. Len(k) = Len(all) - m + 1
    BY <1>3, <2>1, <2>4
  <2>6. ASSUME NEW i \in 1..Len(k) PROVE k[i] = Rest(all, m)[i]
    <3>1. CASE i = Len(k)
      <4>1. m + i - 1 = n
        BY <1>3, <1>5, <1>6, <2>5, <3>1
      <4> QED
        BY <1>6, <2>2, <2>4, <2>5, <3>1, <4>1
    <3>2. CASE i # Len(k)
      <4>1. i \in 1..Len(kept) /\ i \in 1..(Len(allowed) - m + 1) /\ m + i - 1 \in 1..n - 1
        BY SMTT(30), <1>3, <1>5, <1>6, <2>4, <3>2
      <4> QED
        BY <1>3, <1>6, <2>2, <2>4, <2>5, <4>1
    <3> QED
      BY <3>1, <3>2
  <2> QED
    BY <2>2, <2>3, <2>4, <2>5, <2>6, SameSequence
<1>11. Len(Append(kept, now)) <= limit
  BY <1>3
<1>12. m \in 1..Len(all) + 1 /\ \A i \in 1..m - 1 : now - all[i] >= window
  <2>1. m \in 1..Len(all) + 1 /\ \A i \in 1..m - 1 : i \in 1..n - 1
    BY <1>5, <1>6
  <2>2. ASSUME NEW i \in 1..m - 1 PROVE now - all[i] >= window
    BY <1>1, <1>6, <2>1
  <2> QED
    BY <2>1, <2>2
<1> QED
  BY <1>4, <1>6, <1>7, <1>8, <1>9, <1>10, <1>11, <1>12 DEF Windowed

(* So no window, wherever it begins, holds more than limit times. *)
InWindow(allowed, x, window) == {i \in 1..Len(allowed) : x <= allowed[i] /\ allowed[i] < x + window}

LEMMA WindowIsLimited ==
  ASSUME NEW now \in Nat, NEW limit \in Nat \ {0}, NEW window \in Nat, NEW times, NEW allowed,
         Windowed(times, allowed, now, limit, window), NEW x \in Nat
  PROVE  Cardinality(InWindow(allowed, x, window)) <= limit
<1> DEFINE in == InWindow(allowed, x, window)
<1> USE DEF InWindow
<1>0. Len(allowed) \in Nat /\ \A i \in 1..Len(allowed) : allowed[i] \in Nat
  BY DEF Windowed
<1>1. in \subseteq Nat
  BY <1>0
<1>2. CASE in = {}
  BY <1>2, FS_EmptySet
<1>3. CASE in # {}
  <2>1. PICK m : m = LeastOf(in)
    OBVIOUS
  <2>2. m \in in /\ \A y \in in : m <= y
    BY <1>1, <1>3, <2>1, LeastIsLeast, Zenon
  <2>3. ASSUME NEW j \in in PROVE j \in m..(m + limit - 1)
    <3>1. SUFFICES ASSUME j >= m + limit PROVE FALSE
      BY <1>0, <2>2
    <3>2. m + limit \in 1..Len(allowed) /\ m \in 1..Len(allowed) /\ j \in 1..Len(allowed)
      BY <1>0, <2>2, <3>1
    <3>3. allowed[m + limit] - allowed[m] >= window /\ allowed[m + limit] <= allowed[j]
      BY <3>1, <3>2 DEF Windowed
    <3>4. x <= allowed[m] /\ allowed[j] < x + window
      BY <2>2
    <3> QED
      BY SMTT(30), <1>0, <3>2, <3>3, <3>4
  <2>4. in \subseteq m..(m + limit - 1) /\ m \in Nat
    BY <1>1, <2>2, <2>3
  <2> HIDE DEF in, InWindow
  <2>5. IsFiniteSet(m..(m + limit - 1)) /\ Cardinality(m..(m + limit - 1)) = limit
    BY <2>4, FS_Interval
  <2>6. Cardinality(in) <= Cardinality(m..(m + limit - 1))
    BY <2>4, <2>5, FS_Subset
  <2> QED
    BY <2>5, <2>6 DEF in
<1> QED
  BY <1>2, <1>3

(***************************************************************************)
(* RateLimiter                                                             *)
(***************************************************************************)

LimiterInv == p1 \in 0..RlEnd /\ Windowed(p2, p3, p1, RlLimit, RlWindow)

LEMMA LimiterEvicts == \A times : Limiter!Evict(times) = Kept(times, p1, RlWindow)
  BY DEF Limiter!Evict, Limiter!Min, Kept, LeastOf

LEMMA LimiterCardinality == \A S : Limiter!Cardinality(S) = Cardinality(S)
  BY DEF Limiter!Cardinality, Cardinality

(* A window of nothing. *)
LEMMA NothingIsWindowed ==
  ASSUME NEW now \in Nat, NEW limit \in Nat, NEW window \in Nat
  PROVE  Windowed(<<>>, <<>>, now, limit, window)
<1>1. <<>> \in Seq(Nat) /\ Len(<<>>) = 0
  BY EmptySeq
<1>2. 1 \in 1..Len(<<>>) + 1 /\ Len(<<>>) - 1 + 1 = 0
  BY <1>1
<1>3. Rest(<<>>, 1) \in Seq(Nat) /\ Len(Rest(<<>>, 1)) = 0
  BY <1>1, <1>2, RestIs
<1>4. <<>> = Rest(<<>>, 1)
  BY <1>3, EmptySeq
<1> QED
  BY <1>1, <1>2, <1>4 DEF Windowed

LEMMA LimiterInit == Limiter!Init => LimiterInv
  BY NothingIsWindowed, LimiterAssumption DEF Limiter!Init, LimiterInv

LEMMA LimiterStepKeeps ==
  ASSUME LimiterInv, Limiter!Next
  PROVE  LimiterInv'
<1>1. p1 \in Nat /\ RlLimit \in Nat \ {0} /\ RlWindow \in Nat /\ RlEnd \in Nat
  BY LimiterAssumption DEF LimiterInv
<1>2. Windowed(Kept(p2, p1, RlWindow), p3, p1, RlLimit, RlWindow)
  BY <1>1, WindowEvicts DEF LimiterInv
<1>3. CASE Limiter!check_limit
  BY <1>2, <1>3, LimiterEvicts DEF LimiterInv, Limiter!check_limit
<1>4. CASE Limiter!record_request
  <2>1. CASE Len(Kept(p2, p1, RlWindow)) >= RlLimit
    BY <1>2, <1>4, <2>1, LimiterEvicts DEF LimiterInv, Limiter!record_request
  <2>2. CASE ~ (Len(Kept(p2, p1, RlWindow)) >= RlLimit)
    <3>1. /\ p2' = Append(Kept(p2, p1, RlWindow), p1)
          /\ p3' = Append(p3, p1) /\ p1' = p1
      BY <1>4, <2>2, LimiterEvicts DEF Limiter!record_request
    <3>2. Kept(p2, p1, RlWindow) \in Seq(Nat)
      <4>1. p2 \in Seq(Nat)
        BY <1>1, WindowEvicts DEF LimiterInv
      <4> QED
        BY <1>1, <4>1, KeptIs, RestIs
    <3>3. Len(Kept(p2, p1, RlWindow)) < RlLimit
      BY <1>1, <2>2, <3>2
    <3>4. Windowed(Append(Kept(p2, p1, RlWindow), p1), Append(p3, p1), p1, RlLimit, RlWindow)
      BY <1>1, <1>2, <3>3, WindowCounts
    <3> QED
      BY <3>1, <3>4 DEF LimiterInv
  <2> QED
    BY <2>1, <2>2
<1>5. CASE Limiter!clear_key
  BY <1>1, <1>5, NothingIsWindowed DEF LimiterInv, Limiter!clear_key
<1>6. CASE Limiter!Tick
  <2>1. p1' = p1 + 1 /\ p1 < RlEnd /\ p2' = p2 /\ p3' = p3
    BY <1>6 DEF Limiter!Tick
  <2>2. Windowed(p2, p3, p1 + 1, RlLimit, RlWindow)
    BY <1>1, WindowPasses DEF LimiterInv
  <2>3. p1 + 1 \in 0..RlEnd
    BY <1>1, <2>1
  <2> QED
    BY <2>1, <2>2, <2>3 DEF LimiterInv
<1> QED
  BY <1>3, <1>4, <1>5, <1>6 DEF Limiter!Next

LEMMA LimiterFollows == LimiterInv => Limiter!LimiterTypeOK /\ Limiter!NoWindowExceedsTheLimit
<1> SUFFICES ASSUME LimiterInv PROVE Limiter!LimiterTypeOK /\ Limiter!NoWindowExceedsTheLimit
  OBVIOUS
<1>1. p1 \in 0..RlEnd /\ p1 \in Nat /\ RlLimit \in Nat \ {0} /\ RlWindow \in Nat /\ RlEnd \in Nat
  BY LimiterAssumption DEF LimiterInv
<1>2. Windowed(p2, p3, p1, RlLimit, RlWindow)
  BY DEF LimiterInv
<1>3. /\ p2 \in Seq(Nat) /\ Kept(p2, p1, RlWindow) = Kept(p3, p1, RlWindow)
      /\ Windowed(Kept(p2, p1, RlWindow), p3, p1, RlLimit, RlWindow)
  BY <1>1, <1>2, WindowEvicts
<1>4. Limiter!remaining \in 0..RlLimit
  <2>1. PICK m \in 1..Len(p2) + 1 : Kept(p2, p1, RlWindow) = Rest(p2, m)
    BY <1>1, <1>3, KeptIs
  <2>2. Len(Kept(p2, p1, RlWindow)) \in Nat
    BY <1>3, <2>1, RestIs
  <2>3. Len(Kept(p2, p1, RlWindow)) <= RlLimit
    BY <1>3 DEF Windowed
  <2> QED
    BY <1>1, <2>2, <2>3, LimiterEvicts DEF Limiter!remaining
<1>5. p3 \in Seq(0..RlEnd)
  <2>1. p3 \in Seq(Nat) /\ \A i \in 1..Len(p3) : p3[i] \in 0..RlEnd
    BY <1>1, <1>2 DEF Windowed
  <2> QED
    BY <2>1, SequenceIn
<1>6. p2 \in Seq(0..RlEnd)
  <2>1. PICK m \in 1..Len(p3) + 1 : p2 = Rest(p3, m)
    BY <1>2 DEF Windowed
  <2> QED
    BY <1>5, <2>1, RestIs
<1>7. Limiter!Evict(p2) = Limiter!Evict(p3)
  BY <1>3, LimiterEvicts
<1>8. ASSUME NEW x \in 0..p1
      PROVE  Cardinality(InWindow(p3, x, RlWindow)) <= RlLimit
  <2>1. x \in Nat
    OBVIOUS
  <2> QED
    BY <1>1, <1>2, <2>1, WindowIsLimited
<1>9. Limiter!LimiterTypeOK
  BY <1>1, <1>4, <1>5, <1>6 DEF Limiter!LimiterTypeOK
<1>10. Limiter!NoWindowExceedsTheLimit
  BY <1>7, <1>8, LimiterCardinality DEF Limiter!NoWindowExceedsTheLimit, InWindow
<1> QED
  BY <1>9, <1>10

(***************************************************************************)
(* ServiceRegistry                                                         *)
(***************************************************************************)

(* One object is made, and a thread that is about to return finds it made.   *)
InstanceInv ==
    /\ p1 = p4 /\ p4 \in {0, 1} /\ p2 \in SrThreads \cup {"free"}
    /\ DOMAIN p3 = SrThreads
    /\ \A t \in SrThreads : /\ p3[t][1] = "return" => p1 = 1
                            /\ p3[t][1] = "got" => p3[t] = <<"got", 1>>

Checker == [pc : {"made", "wait", "round", "ended"}, at : 0..SrServices, raced : BOOLEAN]
Start == [pc : {"idle", "make", "launch"}, overlaps : BOOLEAN]

(* A startup check raises at its last service. *)
HealthInv ==
    /\ p5 \in [1..SrServices -> {"up", "degraded", "down"}] /\ p6 \in BOOLEAN
    /\ p8 \in [next : 0..SrServices, found : SUBSET {"up", "degraded", "down"},
               fallback : BOOLEAN, raised : BOOLEAN]
    /\ p8.raised => ~p8.fallback /\ p8.next = SrServices

(* A live checker is the last one, or was replaced in a race.                *)
CheckersInv ==
    /\ p7 \in Seq(Checker) /\ p9 \in 0..Len(p7)
    /\ \A c \in 1..Len(p7) : p7[c].pc = "round" => p7[c].at >= 1
    /\ \A c \in 1..Len(p7) : p7[c].pc \in {"wait", "round"} => c = p9 \/ p7[c].raced

(* Two starts under way overlap each other; one that overlaps none finds the *)
(* last checker dead until it has replaced it.                               *)
StartsInv ==
    /\ p10 \in [SrThreads -> Start]
    /\ \A t, u \in SrThreads :
         t # u /\ p10[t].pc # "idle" /\ p10[u].pc # "idle" => p10[t].overlaps
    /\ \A t \in SrThreads : p10[t].pc = "make" /\ ~p10[t].overlaps /\ p9 # 0
                              => p7[p9].pc \notin {"wait", "round"}
    /\ \A t \in SrThreads : p10[t].pc = "launch" => p9 # 0

RegistryInv == InstanceInv /\ HealthInv /\ CheckersInv /\ StartsInv

LEMMA RegistryInit == Registry!Init => RegistryInv
<1> SUFFICES ASSUME Registry!Init PROVE RegistryInv
  OBVIOUS
<1> USE RegistryAssumption DEF Registry!Init, Registry!Services, Registry!NoStartup
<1>1. InstanceInv
  BY DEF InstanceInv
<1>2. p7 \in Seq(Checker) /\ Len(p7) = 0
  BY EmptySeq
<1>3. /\ p8 \in [next : 0..SrServices, found : SUBSET {"up", "degraded", "down"},
                fallback : BOOLEAN, raised : BOOLEAN]
      /\ ~p8.raised
  <2>1. 0 \in 0..SrServices /\ {} \in SUBSET {"up", "degraded", "down"}
    OBVIOUS
  <2> QED
    BY <2>1
<1>4. p5 \in [1..SrServices -> {"up", "degraded", "down"}] /\ p6 \in BOOLEAN
  OBVIOUS
<1>5. HealthInv
  BY <1>3, <1>4 DEF HealthInv
<1>6. CheckersInv
  BY <1>2 DEF CheckersInv
<1>7. StartsInv
  BY DEF StartsInv, Start, Registry!NoStart
<1> QED
  BY <1>1, <1>5, <1>6, <1>7 DEF RegistryInv

(* get_instance, step by step. *)
LEMMA InstanceStepKeeps ==
  ASSUME InstanceInv, NEW t \in SrThreads,
         \/ Registry!get_instance(t) \/ Registry!get_lock(t)
         \/ Registry!get_create(t) \/ Registry!get_return(t)
  PROVE  InstanceInv' /\ UNCHANGED <<p5, p6, p7, p8, p9, p10>>
<1> USE DEF InstanceInv, Registry!At, Registry!Goto, Registry!healthVars
<1>1. CASE Registry!get_instance(t)
  BY <1>1 DEF Registry!get_instance
<1>2. CASE Registry!get_lock(t)
  BY <1>2 DEF Registry!get_lock
<1>3. CASE Registry!get_create(t)
  BY <1>3 DEF Registry!get_create
<1>4. CASE Registry!get_return(t)
  BY <1>4 DEF Registry!get_return
<1> QED
  BY <1>1, <1>2, <1>3, <1>4

(* A checker that lives moves: what holds of all of them and of the starts.  *)
LEMMA CheckerMoves ==
  ASSUME CheckersInv, StartsInv, NEW c \in 1..Len(p7), p7[c].pc \in {"wait", "round"},
         NEW r \in Checker, r.pc # "made", r.pc = "round" => r.at >= 1, r.raced = p7[c].raced,
         p7' = [p7 EXCEPT ![c] = r], UNCHANGED <<p9, p10>>
  PROVE  CheckersInv' /\ StartsInv'
<1>1. /\ p7' \in Seq(Checker) /\ Len(p7') = Len(p7)
      /\ \A d \in 1..Len(p7) : p7'[d] = IF d = c THEN r ELSE p7[d]
  BY ExceptSeq DEF CheckersInv
<1>2. CheckersInv'
  BY <1>1 DEF CheckersInv
<1>3. StartsInv'
  <2>1. ASSUME NEW t \in SrThreads, p10[t].pc = "make", ~p10[t].overlaps, p9 # 0
        PROVE  p7'[p9].pc \notin {"wait", "round"}
    <3>1. p7[p9].pc \notin {"wait", "round"} /\ p9 \in 1..Len(p7)
      BY <2>1 DEF StartsInv, CheckersInv
    <3>2. p7'[p9] = p7[p9]
      BY <1>1, <3>1
    <3> QED
      BY <3>1, <3>2
  <2> QED
    BY <2>1 DEF StartsInv
<1> QED
  BY <1>2, <1>3

(* A caller that found no live checker is in start_background_checker.       *)
LEMMA StartTestKeeps ==
  ASSUME CheckersInv, StartsInv, NEW t \in SrThreads, Registry!start_test(t)
  PROVE  CheckersInv' /\ StartsInv' /\ UNCHANGED <<p1, p2, p3, p4, p5, p6, p8>>
<1> USE DEF Registry!InStart
<1>1. /\ p10[t].pc = "idle" /\ UNCHANGED <<p1, p2, p3, p4, p5, p6, p7, p8, p9>>
      /\ p10' = [u \in SrThreads |->
           IF u = t THEN [pc |-> "make", overlaps |-> \E v \in SrThreads : p10[v].pc # "idle"]
           ELSE IF p10[u].pc # "idle" THEN [p10[u] EXCEPT !.overlaps = TRUE] ELSE p10[u]]
      /\ p9 # 0 => p7[p9].pc \notin {"wait", "round"}
  BY DEF Registry!start_test, Registry!Begin, Registry!Alive, Registry!instanceVars
<1>2. \A u \in SrThreads : p10[u] \in Start
  BY DEF StartsInv
<1>3. p10'[t] = [pc |-> "make", overlaps |-> \E v \in SrThreads : p10[v].pc # "idle"]
  BY <1>1
<1>4. ASSUME NEW u \in SrThreads, u # t
      PROVE  /\ p10'[u] \in Start /\ p10'[u].pc = p10[u].pc
             /\ p10[u].pc # "idle" => p10'[u].overlaps
             /\ p10[u].overlaps => p10'[u].overlaps
  <2>1. p10[u] \in Start
    BY <1>2
  <2>2. CASE p10[u].pc # "idle"
    <3>1. p10'[u] = [p10[u] EXCEPT !.overlaps = TRUE]
      BY <1>1, <1>4, <2>2
    <3> QED
      BY <2>1, <3>1 DEF Start
  <2>3. CASE p10[u].pc = "idle"
    <3>1. p10'[u] = p10[u]
      BY <1>1, <1>4, <2>3
    <3> QED
      BY <2>1, <2>3, <3>1
  <2> QED
    BY <2>2, <2>3
<1>5. p10'[t] \in Start /\ p10'[t].pc = "make"
  BY <1>3 DEF Start
<1>6. p10' \in [SrThreads -> Start]
  <2>1. \A u \in SrThreads : p10'[u] \in Start
    BY <1>4, <1>5
  <2>2. p10' = [u \in SrThreads |-> p10'[u]]
    BY <1>1
  <2> QED
    BY <2>1, <2>2, Zenon
<1>7. ASSUME NEW u \in SrThreads, NEW v \in SrThreads, u # v, p10'[u].pc # "idle",
             p10'[v].pc # "idle"
      PROVE  p10'[u].overlaps
  <2>1. CASE u = t
    BY <1>3, <1>4, <1>7, <2>1
  <2>2. CASE u # t
    BY <1>4, <1>7, <2>2
  <2> QED
    BY <2>1, <2>2
<1>8. StartsInv'
  <2>1. \A u \in SrThreads : p10'[u].pc = "launch" => p9' # 0
    BY <1>1, <1>4, <1>5 DEF StartsInv
  <2> QED
    BY <1>1, <1>6, <1>7, <2>1 DEF StartsInv
<1> QED
  BY <1>1, <1>8 DEF CheckersInv

(* It makes a thread: the one it replaces is dead, or the start is in a race. *)
LEMMA StartMakeKeeps ==
  ASSUME CheckersInv, StartsInv, NEW t \in SrThreads, Registry!start_make(t)
  PROVE  CheckersInv' /\ StartsInv' /\ p6' \in BOOLEAN /\ UNCHANGED <<p1, p2, p3, p4, p5, p8>>
<1>1. PICK k : k = [pc |-> "made", at |-> 0, raced |-> FALSE]
  OBVIOUS
<1>2. PICK q : q = IF p9 = 0 THEN p7 ELSE [p7 EXCEPT ![p9].raced = p10[t].overlaps]
  OBVIOUS
<1>3. /\ p10[t].pc = "make" /\ p6' = FALSE /\ UNCHANGED <<p1, p2, p3, p4, p5, p8>>
      /\ p7' = Append(q, k) /\ p9' = Len(p7) + 1
      /\ p10' = [p10 EXCEPT ![t].pc = "launch"]
  BY <1>1, <1>2 DEF Registry!start_make, Registry!instanceVars
<1>4. /\ k \in Checker /\ k.pc = "made" /\ p7 \in Seq(Checker) /\ Len(p7) \in Nat
      /\ p9 \in 0..Len(p7) /\ p10[t] \in Start /\ p10[t].overlaps \in BOOLEAN
  BY <1>1, RegistryAssumption DEF Checker, CheckersInv, StartsInv, Start
<1>5. /\ q \in Seq(Checker) /\ Len(q) = Len(p7)
      /\ \A c \in 1..Len(p7) : /\ q[c].pc = p7[c].pc /\ q[c].at = p7[c].at
                               /\ q[c].raced = IF c = p9 THEN p10[t].overlaps ELSE p7[c].raced
  <2>1. CASE p9 = 0
    BY <1>2, <1>4, <2>1
  <2>2. CASE p9 # 0
    <3>1. p9 \in 1..Len(p7) /\ p7[p9] \in Checker
      BY <1>4, <2>2
    <3>2. PICK r : r = [p7[p9] EXCEPT !.raced = p10[t].overlaps]
      OBVIOUS
    <3>3. /\ r \in Checker /\ r.pc = p7[p9].pc /\ r.at = p7[p9].at
          /\ r.raced = p10[t].overlaps
      BY <1>4, <3>1, <3>2 DEF Checker
    <3>4. q = [p7 EXCEPT ![p9] = r]
      BY <1>2, <2>2, <3>2
    <3>5. /\ q \in Seq(Checker) /\ Len(q) = Len(p7)
          /\ \A c \in 1..Len(p7) : q[c] = IF c = p9 THEN r ELSE p7[c]
      BY <1>4, <3>1, <3>3, <3>4, ExceptSeq
    <3> QED
      BY <3>3, <3>5
  <2> QED
    BY <2>1, <2>2
<1>6. /\ p7' \in Seq(Checker) /\ Len(p7') = Len(p7) + 1 /\ p7'[Len(p7) + 1] = k
      /\ \A c \in 1..Len(p7) : p7'[c] = q[c]
  BY <1>3, <1>4, <1>5, AppendProperties
<1>7. CheckersInv'
  <2>1. ASSUME NEW c \in 1..Len(p7'), p7'[c].pc \in {"wait", "round"}
        PROVE  c = p9' \/ p7'[c].raced
    <3>1. CASE c = Len(p7) + 1
      BY <1>3, <3>1
    <3>2. CASE c # Len(p7) + 1
      <4>1. c \in 1..Len(p7) /\ p7'[c] = q[c] /\ p7[c].pc \in {"wait", "round"}
        BY <1>4, <1>5, <1>6, <2>1, <3>2
      <4>2. CASE c = p9
        BY <1>3, <1>5, <4>1, <4>2 DEF StartsInv
      <4>3. CASE c # p9
        BY <1>5, <4>1, <4>3 DEF CheckersInv
      <4> QED
        BY <4>2, <4>3
    <3> QED
      BY <3>1, <3>2
  <2>2. ASSUME NEW c \in 1..Len(p7'), p7'[c].pc = "round" PROVE p7'[c].at >= 1
    <3>1. c \in 1..Len(p7) /\ p7'[c] = q[c]
      BY <1>1, <1>4, <1>6, <2>2
    <3> QED
      BY <1>5, <2>2, <3>1 DEF CheckersInv
  <2>3. p9' \in 0..Len(p7')
    BY <1>3, <1>4, <1>6
  <2> QED
    BY <1>6, <2>1, <2>2, <2>3 DEF CheckersInv
<1>8. StartsInv'
  <2>1. PICK m : m = [p10[t] EXCEPT !.pc = "launch"]
    OBVIOUS
  <2>2. m \in Start /\ m.pc = "launch" /\ m.overlaps = p10[t].overlaps
    BY <1>4, <2>1 DEF Start
  <2>3. p10' = [p10 EXCEPT ![t] = m] /\ p10 \in [SrThreads -> Start]
    BY <1>3, <2>1 DEF StartsInv
  <2>4. /\ p10' \in [SrThreads -> Start] /\ p10'[t] = m
        /\ \A u \in SrThreads : u # t => p10'[u] = p10[u]
    BY <2>2, <2>3
  <2>5. \A u, v \in SrThreads :
          u # v /\ p10'[u].pc # "idle" /\ p10'[v].pc # "idle" => p10'[u].overlaps
    BY <1>3, <2>2, <2>4 DEF StartsInv
  <2>6. ASSUME NEW u \in SrThreads, p10'[u].pc = "make", ~p10'[u].overlaps PROVE FALSE
    <3>1. u # t /\ p10[u].pc = "make" /\ ~p10[u].overlaps
      BY <2>2, <2>4, <2>6
    <3> QED
      BY <1>3, <3>1 DEF StartsInv
  <2>7. p9' # 0
    BY <1>3, <1>4
  <2> QED
    BY <2>4, <2>5, <2>6, <2>7 DEF StartsInv
<1> QED
  BY <1>3, <1>7, <1>8

(* It starts the thread it finds as the last one. *)
LEMMA StartLaunchKeeps ==
  ASSUME CheckersInv, StartsInv, NEW t \in SrThreads, Registry!start_launch(t)
  PROVE  CheckersInv' /\ StartsInv' /\ UNCHANGED <<p1, p2, p3, p4, p5, p6, p8>>
<1>1. /\ p10[t].pc = "launch" /\ UNCHANGED <<p1, p2, p3, p4, p5, p6, p8, p9>>
      /\ p7' = IF p7[p9].pc = "made" THEN [p7 EXCEPT ![p9].pc = "wait"] ELSE p7
      /\ p10' = [p10 EXCEPT ![t] = [pc |-> "idle", overlaps |-> FALSE]]
  BY DEF Registry!start_launch, Registry!instanceVars, Registry!NoStart
<1>2. p9 \in 1..Len(p7) /\ p7 \in Seq(Checker) /\ p7[p9] \in Checker
  <2>1. p9 \in 0..Len(p7) /\ p9 # 0 /\ p7 \in Seq(Checker)
    BY <1>1 DEF CheckersInv, StartsInv
  <2> QED
    BY <2>1
<1>3. CheckersInv'
  <2>1. CASE p7[p9].pc = "made"
    <3>1. PICK r : r = [p7[p9] EXCEPT !.pc = "wait"]
      OBVIOUS
    <3>2. r \in Checker /\ r.pc = "wait"
      BY <1>2, <3>1 DEF Checker
    <3>3. p7' = [p7 EXCEPT ![p9] = r]
      BY <1>1, <2>1, <3>1
    <3>4. /\ p7' \in Seq(Checker) /\ Len(p7') = Len(p7)
          /\ \A c \in 1..Len(p7) : p7'[c] = IF c = p9 THEN r ELSE p7[c]
      BY <1>2, <3>2, <3>3, ExceptSeq
    <3> QED
      BY <1>1, <3>2, <3>4 DEF CheckersInv
  <2>2. CASE p7[p9].pc # "made"
    BY <1>1, <2>2 DEF CheckersInv
  <2> QED
    BY <2>1, <2>2
<1>4. StartsInv'
  <2>1. /\ p10' \in [SrThreads -> Start] /\ p10'[t].pc = "idle"
        /\ \A u \in SrThreads : u # t => p10'[u] = p10[u]
    BY <1>1 DEF StartsInv, Start
  <2>2. \A u, v \in SrThreads :
          u # v /\ p10'[u].pc # "idle" /\ p10'[v].pc # "idle" => p10'[u].overlaps
    BY <2>1 DEF StartsInv
  <2>3. ASSUME NEW u \in SrThreads, p10'[u].pc = "make", ~p10'[u].overlaps PROVE FALSE
    <3>1. u # t /\ p10[u].pc = "make" /\ ~p10[u].overlaps
      BY <2>1, <2>3
    <3> QED
      BY <1>1, <3>1 DEF StartsInv
  <2>4. \A u \in SrThreads : p10'[u].pc = "launch" => p9' # 0
    BY <1>1, <2>1 DEF StartsInv
  <2> QED
    BY <2>1, <2>2, <2>3, <2>4 DEF StartsInv
<1> QED
  BY <1>1, <1>3, <1>4

(* The background checkers.                                                  *)
LEMMA CheckerStepKeeps ==
  ASSUME HealthInv, CheckersInv, StartsInv, NEW c \in 1..Len(p7),
         \/ Registry!checker_wakes(c)
         \/ \E status \in Registry!check_service : Registry!background_check(c, status)
  PROVE  HealthInv' /\ CheckersInv' /\ StartsInv' /\ UNCHANGED <<p1, p2, p3, p4>>
<1> USE RegistryAssumption DEF Registry!instanceVars, Registry!check_service
<1>1. p7[c] \in Checker
  BY ElementOfSeq DEF CheckersInv
<1>2. CASE Registry!checker_wakes(c)
  <2>1. PICK pc, at : /\ pc = IF p6 THEN "ended" ELSE "round"
                      /\ at = IF p6 THEN 0 ELSE 1
    OBVIOUS
  <2>2. PICK r : r = [p7[c] EXCEPT !.pc = pc, !.at = at]
    OBVIOUS
  <2>3. /\ r \in Checker /\ r.pc # "made" /\ r.raced = p7[c].raced
        /\ r.pc = "round" => r.at >= 1
        /\ p7' = [p7 EXCEPT ![c] = r]
    <3>1. /\ pc \in {"made", "wait", "round", "ended"} /\ at \in 0..SrServices
          /\ pc # "made" /\ (pc = "round" => at >= 1)
      BY <2>1
    <3>2. r \in Checker /\ r.pc = pc /\ r.at = at /\ r.raced = p7[c].raced
      <4>1. PICK m : m = [p7[c] EXCEPT !.pc = pc]
        OBVIOUS
      <4>2. m \in Checker /\ m.pc = pc /\ m.raced = p7[c].raced
        BY <1>1, <3>1, <4>1 DEF Checker
      <4>3. r = [m EXCEPT !.at = at]
        BY <2>2, <4>1, Zenon
      <4> QED
        BY <3>1, <4>2, <4>3 DEF Checker
    <3>3. p7' = [p7 EXCEPT ![c] = r]
      BY <1>2, <2>1, <2>2, Zenon DEF Registry!checker_wakes
    <3> QED
      BY <3>1, <3>2, <3>3
  <2>4. /\ p7[c].pc \in {"wait", "round"} /\ UNCHANGED <<p1, p2, p3, p4, p5, p6, p8, p9, p10>>
    BY <1>2 DEF Registry!checker_wakes
  <2>5. CheckersInv' /\ StartsInv'
    BY <2>3, <2>4, CheckerMoves
  <2> QED
    BY <2>4, <2>5 DEF HealthInv
<1>3. ASSUME NEW status \in {"up", "degraded", "down"}, Registry!background_check(c, status)
      PROVE  HealthInv' /\ CheckersInv' /\ StartsInv' /\ UNCHANGED <<p1, p2, p3, p4>>
  <2> DEFINE last == p7[c].at = SrServices
  <2>1. PICK pc, at : /\ pc = IF last THEN "wait" ELSE "round"
                      /\ at = IF last THEN 0 ELSE p7[c].at + 1
    OBVIOUS
  <2>2. PICK r : r = [p7[c] EXCEPT !.pc = pc, !.at = at]
    OBVIOUS
  <2>3. /\ r \in Checker /\ r.pc # "made" /\ r.raced = p7[c].raced
        /\ r.pc = "round" => r.at >= 1
        /\ p7' = [p7 EXCEPT ![c] = r]
    <3>1. /\ pc \in {"made", "wait", "round", "ended"} /\ at \in 0..SrServices
          /\ pc # "made" /\ (pc = "round" => at >= 1)
      BY <1>1, <2>1 DEF Checker
    <3>2. r \in Checker /\ r.pc = pc /\ r.at = at /\ r.raced = p7[c].raced
      <4>1. PICK m : m = [p7[c] EXCEPT !.pc = pc]
        OBVIOUS
      <4>2. m \in Checker /\ m.pc = pc /\ m.raced = p7[c].raced
        BY <1>1, <3>1, <4>1 DEF Checker
      <4>3. r = [m EXCEPT !.at = at]
        BY <2>2, <4>1, Zenon
      <4> QED
        BY <3>1, <4>2, <4>3 DEF Checker
    <3>3. p7' = [p7 EXCEPT ![c] = r]
      BY <1>3, <2>1, <2>2, Zenon DEF Registry!background_check
    <3> QED
      BY <3>1, <3>2, <3>3
  <2>4. /\ p7[c].pc = "round" /\ UNCHANGED <<p1, p2, p3, p4, p6, p8, p9, p10>>
        /\ p5' = [p5 EXCEPT ![p7[c].at] = status]
    BY <1>3 DEF Registry!background_check
  <2>5. CheckersInv' /\ StartsInv'
    BY <2>3, <2>4, CheckerMoves
  <2> QED
    BY <2>4, <2>5 DEF HealthInv
<1> QED
  BY <1>2, <1>3

LEMMA HealthStepKeeps ==
  ASSUME HealthInv, NEW status \in {"up", "degraded", "down"},
         \/ \E s \in Registry!Services : Registry!update_health(s, status)
         \/ \E fallback \in BOOLEAN : Registry!startup_check(status, fallback)
  PROVE  HealthInv' /\ UNCHANGED <<p1, p2, p3, p4, p7, p9, p10>>
<1> USE RegistryAssumption DEF Registry!instanceVars, Registry!Services
<1>1. ASSUME NEW s \in 1..SrServices, Registry!update_health(s, status)
      PROVE  HealthInv' /\ UNCHANGED <<p1, p2, p3, p4, p7, p9, p10>>
  BY <1>1 DEF HealthInv, Registry!update_health
<1>2. ASSUME NEW fallback \in BOOLEAN, Registry!startup_check(status, fallback)
      PROVE  HealthInv' /\ UNCHANGED <<p1, p2, p3, p4, p7, p9, p10>>
  <2>1. /\ p8.next < SrServices /\ UNCHANGED <<p1, p2, p3, p4, p6, p7, p9, p10>>
        /\ p5' = [p5 EXCEPT ![p8.next + 1] = status]
        /\ p8' = [next |-> p8.next + 1, found |-> p8.found \cup {status}, fallback |-> fallback,
                  raised |-> /\ p8.next + 1 = SrServices /\ ~fallback
                             /\ "down" \in p8.found \cup {status}]
    BY <1>2 DEF Registry!startup_check
  <2>2. p8.next \in 0..SrServices /\ p8.found \subseteq {"up", "degraded", "down"}
    BY DEF HealthInv
  <2>3. p5' \in [1..SrServices -> {"up", "degraded", "down"}]
    BY <2>1 DEF HealthInv
  <2>4. /\ p8' \in [next : 0..SrServices, found : SUBSET {"up", "degraded", "down"},
                    fallback : BOOLEAN, raised : BOOLEAN]
        /\ p8'.raised => ~p8'.fallback /\ p8'.next = SrServices
    BY <2>1, <2>2
  <2> QED
    BY <2>1, <2>3, <2>4 DEF HealthInv
<1> QED
  BY <1>1, <1>2

LEMMA RegistryStepKeeps ==
  ASSUME RegistryInv, Registry!Next
  PROVE  RegistryInv'
<1>1. ASSUME NEW t \in SrThreads, \/ Registry!get_instance(t) \/ Registry!get_lock(t)
                                  \/ Registry!get_create(t) \/ Registry!get_return(t)
      PROVE  RegistryInv'
  BY <1>1, InstanceStepKeeps DEF RegistryInv, HealthInv, CheckersInv, StartsInv
<1>2. ASSUME NEW t \in SrThreads, \/ Registry!start_test(t) \/ Registry!start_make(t)
                                  \/ Registry!start_launch(t)
      PROVE  RegistryInv'
  <2>1. /\ CheckersInv' /\ StartsInv' /\ UNCHANGED <<p1, p2, p3, p4, p5, p8>>
        /\ p6' = p6 \/ p6' \in BOOLEAN
    BY <1>2, StartTestKeeps, StartMakeKeeps, StartLaunchKeeps DEF RegistryInv
  <2> QED
    BY <2>1 DEF RegistryInv, HealthInv, InstanceInv
<1>3. CASE Registry!stop_background_checker
  BY <1>3 DEF Registry!stop_background_checker, Registry!instanceVars, RegistryInv, InstanceInv,
              HealthInv, CheckersInv, StartsInv
<1>4. ASSUME NEW c \in 1..Len(p7),
             \/ Registry!checker_wakes(c)
             \/ \E status \in Registry!check_service : Registry!background_check(c, status)
      PROVE  RegistryInv'
  BY <1>4, CheckerStepKeeps DEF RegistryInv, InstanceInv
<1>5. ASSUME NEW status \in Registry!check_service,
             \/ \E s \in Registry!Services : Registry!update_health(s, status)
             \/ \E fallback \in BOOLEAN : Registry!startup_check(status, fallback)
      PROVE  RegistryInv'
  <2>1. status \in {"up", "degraded", "down"}
    BY DEF Registry!check_service
  <2> QED
    BY <1>5, <2>1, HealthStepKeeps DEF RegistryInv, InstanceInv, CheckersInv, StartsInv
<1> QED
  BY <1>1, <1>2, <1>3, <1>4, <1>5 DEF Registry!Next

LEMMA RegistryFollows == RegistryInv => Registry!RegistryTypeOK /\ Registry!OneRegistryOneChecker
  BY SMTT(30), RegistryAssumption
     DEF RegistryInv, InstanceInv, HealthInv, CheckersInv, StartsInv, Checker, Start,
         Registry!RegistryTypeOK, Registry!Services,
         Registry!ServiceStatus, Registry!OneRegistryOneChecker, Registry!At, Registry!Alive

(***************************************************************************)
(* AlertAdmission                                                          *)
(***************************************************************************)

Counted == [topic : AdTopics, at : 0..AdEnd, duplicate : BOOLEAN]
TimesOf(s) == [i \in 1..Len(s) |-> s[i].at]

(* The alerts counted by the rate limiter, of which those that were admitted *)
(* are no older than the time that is noted for their topic.                 *)
CountedInv ==
    /\ p1 \in 0..AdEnd /\ p4 \in [AdTopics -> 0..AdEnd] /\ p6 \in Seq(Counted)
    /\ Windowed(p3, TimesOf(p6), p1, AdRateLimit, AdMinute)
    /\ \A i \in Admission!Admitted : p6[i].at <= p4[p6[i].topic]
    /\ \A t \in AdTopics : p4[t] # 0 => \E i \in Admission!Admitted : p6[i].topic = t
    /\ \A i, j \in Admission!Admitted : i < j /\ p6[i].topic = p6[j].topic
                                        => p6[j].at - p6[i].at >= AdDedup

(* Every alert is suppressed or admitted. *)
PublishedInv ==
    /\ p2 \in BOOLEAN /\ p5 \in [published : 0..AdEnd, suppressed : 0..AdEnd]
    /\ p5.published = p5.suppressed + Cardinality(Admission!Admitted)

SinkInv == /\ p7 \in [failures : 0..AdThreshold, open : BOOLEAN]
           /\ p7.open <=> p7.failures >= AdThreshold

ManagerInv == /\ p8 \in 0..AdEnd /\ p9 \in Seq(0..AdEnd)
              /\ p9 # <<>> => p9[Len(p9)] = p8
              /\ \A i \in 2..Len(p9) : p9[i] - p9[i - 1] >= AdDedup

AdmissionInv == CountedInv /\ PublishedInv /\ SinkInv /\ ManagerInv

LEMMA AdmissionEvicts == \A times : Admission!Recent(times) = Kept(times, p1, AdMinute)
  BY DEF Admission!Recent, Admission!Min, Kept, LeastOf

LEMMA AdmissionCardinality == \A S : Admission!Cardinality(S) = Cardinality(S)
  BY DEF Admission!Cardinality, Cardinality

LEMMA TimesAre ==
  ASSUME NEW s \in Seq(Counted)
  PROVE  /\ TimesOf(s) \in Seq(0..AdEnd) /\ Len(TimesOf(s)) = Len(s)
         /\ \A i \in 1..Len(s) : TimesOf(s)[i] = s[i].at
<1>1. PICK n \in Nat : n = Len(s)
  BY LenProperties
<1>2. \A i \in 1..n : s[i].at \in 0..AdEnd
  <2>1. \A r \in Counted : r.at \in 0..AdEnd
    BY DEF Counted
  <2>2. \A i \in 1..n : s[i] \in Counted
    BY <1>1, ElementOfSeq
  <2> QED
    BY <2>1, <2>2
<1>3. TimesOf(s) \in [1..n -> 0..AdEnd]
  BY <1>1, <1>2 DEF TimesOf
<1>4. TimesOf(s) \in Seq(0..AdEnd)
  <2>1. PICK T, u : T = 0..AdEnd /\ u = TimesOf(s)
    OBVIOUS
  <2>2. u \in [1..n -> T]
    BY <1>3, <2>1
  <2>3. u \in Seq(T)
    BY <2>2
  <2> QED
    BY <2>1, <2>3
<1> QED
  BY <1>1, <1>3, <1>4, LenProperties DEF TimesOf

LEMMA TimesAppend ==
  ASSUME NEW s \in Seq(Counted), NEW r \in Counted
  PROVE  TimesOf(Append(s, r)) = Append(TimesOf(s), r.at)
<1>1. PICK u : u = Append(s, r)
  OBVIOUS
<1>2. /\ u \in Seq(Counted) /\ Len(u) = Len(s) + 1 /\ Len(s) \in Nat /\ u[Len(s) + 1] = r
      /\ \A i \in 1..Len(s) : u[i] = s[i]
  BY <1>1, AppendProperties, LenProperties
<1>3. /\ TimesOf(u) \in Seq(0..AdEnd) /\ Len(TimesOf(u)) = Len(u)
      /\ \A i \in 1..Len(u) : TimesOf(u)[i] = u[i].at
  BY <1>2, TimesAre
<1>4. /\ TimesOf(s) \in Seq(0..AdEnd) /\ Len(TimesOf(s)) = Len(s)
      /\ \A i \in 1..Len(s) : TimesOf(s)[i] = s[i].at
  BY TimesAre
<1>5. PICK v : v = Append(TimesOf(s), r.at)
  OBVIOUS
<1>6. r.at \in 0..AdEnd
  BY DEF Counted
<1>7. /\ v \in Seq(0..AdEnd) /\ Len(v) = Len(s) + 1 /\ v[Len(s) + 1] = r.at
      /\ \A i \in 1..Len(s) : v[i] = TimesOf(s)[i]
  BY <1>4, <1>5, <1>6, AppendProperties
<1>8. \A i \in 1..Len(u) : TimesOf(u)[i] = v[i]
  BY <1>2, <1>3, <1>4, <1>7
<1> QED
  BY <1>1, <1>2, <1>3, <1>5, <1>7, <1>8, SameSequence

LEMMA AdmittedIs ==
  ASSUME CountedInv
  PROVE  /\ Len(p6) \in Nat /\ \A i \in 1..Len(p6) : p6[i] \in Counted
         /\ Admission!Admitted \subseteq 1..Len(p6)
         /\ IsFiniteSet(Admission!Admitted) /\ Cardinality(Admission!Admitted) \in Nat
<1>1. Len(p6) \in Nat /\ \A i \in 1..Len(p6) : p6[i] \in Counted
  BY ElementOfSeq, LenProperties DEF CountedInv
<1>2. Admission!Admitted \subseteq 1..Len(p6)
  BY DEF Admission!Admitted
<1>3. IsFiniteSet(1..Len(p6))
  BY <1>1, FS_Interval
<1> QED
  BY <1>1, <1>2, <1>3, FS_Subset, FS_CardinalityType

LEMMA AdmissionInit == Admission!Init => AdmissionInv
<1> SUFFICES ASSUME Admission!Init PROVE AdmissionInv
  OBVIOUS
<1> USE AdmissionAssumption DEF Admission!Init
<1>1. /\ p6 \in Seq(Counted) /\ Len(p6) = 0 /\ TimesOf(p6) = <<>>
      /\ p9 \in Seq(0..AdEnd) /\ Len(p9) = 0 /\ p9 = <<>>
  <2>1. p6 \in Seq(Counted) /\ Len(p6) = 0 /\ p9 \in Seq(0..AdEnd) /\ Len(p9) = 0 /\ p9 = <<>>
    BY EmptySeq
  <2> QED
    BY <2>1, TimesAre, EmptySeq
<1>2. Admission!Admitted = {}
  BY <1>1 DEF Admission!Admitted
<1>3. Windowed(p3, TimesOf(p6), p1, AdRateLimit, AdMinute)
  BY <1>1, NothingIsWindowed
<1>4. p1 \in 0..AdEnd /\ p4 \in [AdTopics -> 0..AdEnd] /\ \A t \in AdTopics : p4[t] = 0
  OBVIOUS
<1>5. CountedInv
  BY <1>1, <1>2, <1>3, <1>4 DEF CountedInv
<1>6. PublishedInv
  <2>1. p5 = [published |-> 0, suppressed |-> 0] /\ p2 = FALSE /\ 0 \in 0..AdEnd
    OBVIOUS
  <2>3. p5 \in [published : 0..AdEnd, suppressed : 0..AdEnd] /\ p5.published = 0 /\ p5.suppressed = 0
    BY <2>1
  <2>2. Cardinality(Admission!Admitted) = 0
    BY <1>2, FS_EmptySet
  <2> QED
    <3> HIDE DEF Admission!Init
    <3>1. p5.published = p5.suppressed + Cardinality(Admission!Admitted)
      BY <2>2, <2>3
    <3>2. p2 \in BOOLEAN
      BY <2>1
    <3> QED
      BY <2>3, <3>1, <3>2, Zenon DEF PublishedInv
<1>7. SinkInv
  BY DEF SinkInv
<1>8. ManagerInv
  BY <1>1 DEF ManagerInv
<1> QED
  BY <1>5, <1>6, <1>7, <1>8 DEF AdmissionInv

(* The rate limiter counts one more alert. *)
LEMMA CountKeeps ==
  ASSUME AdmissionInv, NEW t \in AdTopics, NEW duplicate \in BOOLEAN,
         Len(Admission!Recent(p3)) < AdRateLimit, Admission!Count(t, duplicate),
         p1' = p1
  PROVE  /\ p6' \in Seq(Counted) /\ Len(p6') = Len(p6) + 1
         /\ p6'[Len(p6) + 1] = [topic |-> t, at |-> p1, duplicate |-> duplicate]
         /\ \A i \in 1..Len(p6) : p6'[i] = p6[i]
         /\ Windowed(p3', TimesOf(p6'), p1', AdRateLimit, AdMinute)
         /\ Admission!Admitted' = IF duplicate THEN Admission!Admitted
                                  ELSE Admission!Admitted \cup {Len(p6) + 1}
<1> USE AdmissionAssumption
<1>1. /\ p6 \in Seq(Counted) /\ p1 \in 0..AdEnd /\ Len(p6) \in Nat
      /\ \A i \in 1..Len(p6) : p6[i] \in Counted
      /\ Admission!Admitted \subseteq 1..Len(p6)
      /\ Windowed(p3, TimesOf(p6), p1, AdRateLimit, AdMinute)
  BY AdmittedIs DEF AdmissionInv, CountedInv
<1>2. PICK r : r = [topic |-> t, at |-> p1, duplicate |-> duplicate]
  OBVIOUS
<1>3. r \in Counted /\ r.at = p1 /\ r.duplicate = duplicate
  BY <1>1, <1>2 DEF Counted
<1>4. p6' = Append(p6, r) /\ p3' = Append(Kept(p3, p1, AdMinute), p1)
  BY <1>2, AdmissionEvicts DEF Admission!Count
<1>5. /\ p6' \in Seq(Counted) /\ Len(p6') = Len(p6) + 1 /\ p6'[Len(p6) + 1] = r
      /\ \A i \in 1..Len(p6) : p6'[i] = p6[i]
  BY <1>1, <1>3, <1>4, AppendProperties
<1>6. Windowed(p3', TimesOf(p6'), p1', AdRateLimit, AdMinute)
  <2>1. p1 \in Nat /\ AdRateLimit \in Nat /\ AdMinute \in Nat
    BY <1>1
  <2>2. Windowed(Kept(p3, p1, AdMinute), TimesOf(p6), p1, AdRateLimit, AdMinute)
    BY <1>1, <2>1, WindowEvicts
  <2>3. Len(Kept(p3, p1, AdMinute)) < AdRateLimit
    BY AdmissionEvicts
  <2>4. Windowed(Append(Kept(p3, p1, AdMinute), p1), Append(TimesOf(p6), p1), p1, AdRateLimit, AdMinute)
    BY <2>1, <2>2, <2>3, WindowCounts
  <2>5. TimesOf(p6') = Append(TimesOf(p6), p1)
    BY <1>1, <1>3, <1>4, TimesAppend
  <2> QED
    BY <1>4, <2>4, <2>5
<1>7. Admission!Admitted' = IF duplicate THEN Admission!Admitted
                            ELSE Admission!Admitted \cup {Len(p6) + 1}
  <2>1. Admission!Admitted' = {i \in 1..Len(p6) + 1 : ~p6'[i].duplicate}
    BY <1>5 DEF Admission!Admitted
  <2>2. Admission!Admitted = {i \in 1..Len(p6) : ~p6[i].duplicate}
    BY DEF Admission!Admitted
  <2>3. p6'[Len(p6) + 1].duplicate = duplicate
    BY <1>3, <1>5
  <2>4. 1..Len(p6) + 1 = 1..Len(p6) \cup {Len(p6) + 1}
    BY <1>1
  <2> QED
    BY <1>1, <1>5, <2>1, <2>2, <2>3, <2>4
<1> QED
  BY <1>2, <1>5, <1>6, <1>7

\* One more alert is published and not admitted.
LEMMA SuppressedAdds ==
  ASSUME CountedInv, PublishedInv, p5.published < AdEnd, UNCHANGED p2,
         p5' = [published |-> p5.published + 1, suppressed |-> p5.suppressed + 1],
         Admission!Admitted' = Admission!Admitted
  PROVE  PublishedInv'
<1>1. PICK c, a, b : /\ c = Cardinality(Admission!Admitted) /\ c \in Nat
                     /\ a = p5.published /\ b = p5.suppressed
                     /\ a \in 0..AdEnd /\ b \in 0..AdEnd /\ a = b + c
  BY AdmittedIs DEF PublishedInv
<1>2. a + 1 \in 0..AdEnd /\ b + 1 \in 0..AdEnd /\ a + 1 = (b + 1) + c
  BY <1>1, AdmissionAssumption
<1>3. p5' = [published |-> a + 1, suppressed |-> b + 1]
  BY <1>1
<1>4. p5' \in [published : 0..AdEnd, suppressed : 0..AdEnd]
  BY <1>2, <1>3
<1>5. p5'.published = p5'.suppressed + c
  BY <1>2, <1>3
<1> QED
  BY <1>1, <1>4, <1>5 DEF PublishedInv

LEMMA AdmissionStepKeeps ==
  ASSUME AdmissionInv, Admission!Next
  PROVE  AdmissionInv'
<1> USE AdmissionAssumption
<1> USE DEF Admission!admissionVars, Admission!managerVars
<1>0. CountedInv /\ PublishedInv /\ SinkInv /\ ManagerInv /\ p1 \in Nat
  BY DEF AdmissionInv, CountedInv
<1>1. CASE Admission!Tick
  <2>1. p1 < AdEnd /\ p1' = p1 + 1 /\ UNCHANGED <<p2, p3, p4, p5, p6, p7, p8, p9>>
    BY <1>1 DEF Admission!Tick
  <2>2. Admission!Admitted' = Admission!Admitted
    BY <2>1 DEF Admission!Admitted
  <2>3. Windowed(p3, TimesOf(p6), p1 + 1, AdRateLimit, AdMinute)
    BY <1>0, WindowPasses DEF CountedInv
  <2>4. p1 + 1 \in 0..AdEnd
    BY <1>0, <2>1
  <2>5. CountedInv'
    BY <1>0, <2>1, <2>2, <2>3, <2>4 DEF CountedInv
  <2>6. PublishedInv' /\ SinkInv' /\ ManagerInv'
    BY <1>0, <2>1, <2>2 DEF PublishedInv, SinkInv, ManagerInv
  <2> QED
    BY <2>5, <2>6 DEF AdmissionInv
<1>2. CASE Admission!set_maintenance_window \/ Admission!remove_maintenance_windows
  <2>1. p2' \in BOOLEAN /\ UNCHANGED <<p1, p3, p4, p5, p6, p7, p8, p9>>
    BY <1>2 DEF Admission!set_maintenance_window, Admission!remove_maintenance_windows
  <2>2. Admission!Admitted' = Admission!Admitted
    BY <2>1 DEF Admission!Admitted
  <2> QED
    BY <1>0, <2>1, <2>2 DEF AdmissionInv, CountedInv, PublishedInv, SinkInv, ManagerInv
<1>3. ASSUME p5.published < AdEnd, Admission!publish_in_window \/ Admission!publish_rate_limited
      PROVE  AdmissionInv'
  <2>1. /\ UNCHANGED <<p1, p2, p4, p6, p7, p8, p9>>
        /\ p3' = p3 \/ p3' = Kept(p3, p1, AdMinute)
        /\ p5' = [published |-> p5.published + 1, suppressed |-> p5.suppressed + 1]
    BY <1>3, AdmissionEvicts DEF Admission!publish_in_window, Admission!publish_rate_limited,
                                 Admission!Suppressed
  <2>2. Admission!Admitted' = Admission!Admitted
    BY <2>1 DEF Admission!Admitted
  <2>3. Windowed(p3', TimesOf(p6), p1, AdRateLimit, AdMinute)
    <3>1. Windowed(Kept(p3, p1, AdMinute), TimesOf(p6), p1, AdRateLimit, AdMinute)
      BY <1>0, WindowEvicts DEF CountedInv
    <3> QED
      BY <1>0, <2>1, <3>1 DEF CountedInv
  <2>4. CountedInv'
    BY <1>0, <2>1, <2>2, <2>3 DEF CountedInv
  <2>5. PublishedInv'
    BY <1>0, <1>3, <2>1, <2>2, SuppressedAdds DEF CountedInv
  <2> QED
    BY <1>0, <2>1, <2>4, <2>5 DEF AdmissionInv, SinkInv, ManagerInv
<1>4. ASSUME p5.published < AdEnd, NEW t \in AdTopics, Admission!publish_duplicate(t)
      PROVE  AdmissionInv'
  <2>1. /\ Len(Admission!Recent(p3)) < AdRateLimit /\ Admission!Count(t, TRUE)
        /\ UNCHANGED <<p1, p2, p4, p7, p8, p9>>
        /\ p5' = [published |-> p5.published + 1, suppressed |-> p5.suppressed + 1]
    BY <1>4 DEF Admission!publish_duplicate, Admission!Suppressed
  <2>2. /\ p6' \in Seq(Counted) /\ \A i \in 1..Len(p6) : p6'[i] = p6[i]
        /\ Windowed(p3', TimesOf(p6'), p1', AdRateLimit, AdMinute)
        /\ Admission!Admitted' = Admission!Admitted
    BY <2>1, CountKeeps
  <2>3. CountedInv'
    BY <1>0, <2>1, <2>2, AdmittedIs DEF CountedInv
  <2>4. PublishedInv'
    BY <1>0, <1>4, <2>1, <2>2, SuppressedAdds DEF CountedInv
  <2> QED
    BY <1>0, <2>1, <2>3, <2>4 DEF AdmissionInv, SinkInv, ManagerInv
<1>5. ASSUME p5.published < AdEnd, NEW t \in AdTopics, Admission!publish_admitted(t)
      PROVE  AdmissionInv'
  <2>1. /\ Len(Admission!Recent(p3)) < AdRateLimit /\ Admission!Count(t, FALSE)
        /\ UNCHANGED <<p1, p2, p7, p8, p9>> /\ p4' = [p4 EXCEPT ![t] = p1]
        /\ p5' = [p5 EXCEPT !.published = @ + 1] /\ ~ (p1 - p4[t] < AdDedup)
    BY <1>5 DEF Admission!publish_admitted, Admission!Duplicate
  <2>2. PICK n : n = Len(p6) + 1
    OBVIOUS
  <2>3. /\ p6' \in Seq(Counted) /\ Len(p6') = n /\ n \in Nat /\ n >= 1
        /\ p6'[n] = [topic |-> t, at |-> p1, duplicate |-> FALSE]
        /\ \A i \in 1..Len(p6) : p6'[i] = p6[i]
        /\ Windowed(p3', TimesOf(p6'), p1', AdRateLimit, AdMinute)
        /\ Admission!Admitted' = Admission!Admitted \cup {n}
    <3>1. Len(p6) \in Nat
      BY <1>0, AdmittedIs
    <3>2. /\ p6' \in Seq(Counted) /\ Len(p6') = Len(p6) + 1
          /\ p6'[Len(p6) + 1] = [topic |-> t, at |-> p1, duplicate |-> FALSE]
          /\ \A i \in 1..Len(p6) : p6'[i] = p6[i]
          /\ Windowed(p3', TimesOf(p6'), p1', AdRateLimit, AdMinute)
          /\ Admission!Admitted' = Admission!Admitted \cup {Len(p6) + 1}
      BY <2>1, CountKeeps
    <3> QED
      BY <2>2, <3>1, <3>2
  <2>4. /\ \A i \in Admission!Admitted : /\ p6'[i] = p6[i] /\ p6[i] \in Counted /\ i < n /\ i \in Nat
                                         /\ p6[i].at <= p4[p6[i].topic]
        /\ n \notin Admission!Admitted
    BY <1>0, <2>2, <2>3, AdmittedIs DEF CountedInv
  <2>5. /\ p4 \in [AdTopics -> 0..AdEnd] /\ p1 \in 0..AdEnd /\ p4' \in [AdTopics -> 0..AdEnd]
        /\ p4'[t] = p1 /\ \A u \in AdTopics : u # t => p4'[u] = p4[u]
    BY <1>0, <2>1 DEF CountedInv
  <2>6. p4[t] <= p1
    BY <1>0, <2>1, <2>5
  <2>7. \A i \in Admission!Admitted' : p6'[i].at <= p4'[p6'[i].topic]
    <3>1. ASSUME NEW i \in Admission!Admitted PROVE p6'[i].at <= p4'[p6'[i].topic]
      <4>1. p6[i].topic \in AdTopics /\ p6[i].at \in 0..AdEnd
        BY <2>4 DEF Counted
      <4> QED
        BY <2>4, <2>5, <2>6, <4>1
    <3>2. p6'[n].at <= p4'[p6'[n].topic]
      BY <2>3, <2>5
    <3> QED
      BY <2>3, <3>1, <3>2
  <2>8. ASSUME NEW u \in AdTopics, p4'[u] # 0
        PROVE  \E i \in Admission!Admitted' : p6'[i].topic = u
    <3>1. CASE u = t
      BY <2>3, <3>1
    <3>2. CASE u # t
      <4>1. PICK i \in Admission!Admitted : p6[i].topic = u
        BY <1>0, <2>5, <2>8, <3>2 DEF CountedInv
      <4> QED
        BY <2>3, <2>4, <4>1
    <3> QED
      BY <3>1, <3>2
  <2>9. \A i, j \in Admission!Admitted' : i < j /\ p6'[i].topic = p6'[j].topic
                                          => p6'[j].at - p6'[i].at >= AdDedup
    <3> SUFFICES ASSUME NEW i \in Admission!Admitted', NEW j \in Admission!Admitted',
                        i < j, p6'[i].topic = p6'[j].topic
                 PROVE  p6'[j].at - p6'[i].at >= AdDedup
      OBVIOUS
    <3>1. i \in Admission!Admitted
      BY <2>3, <2>4
    <3>2. CASE j \in Admission!Admitted
      BY <1>0, <2>4, <3>1, <3>2 DEF CountedInv
    <3>3. CASE j = n
      <4>1. p6[i].topic = t /\ p6[i].at <= p4[t] /\ p6[i].at \in 0..AdEnd
        BY <2>3, <2>4, <3>1, <3>3 DEF Counted
      <4>2. p1 - p6[i].at >= AdDedup
        BY <2>1, <2>5, <4>1
      <4> QED
        BY <2>3, <2>4, <3>1, <3>3, <4>2
    <3> QED
      BY <2>3, <3>2, <3>3
  <2>10. CountedInv'
    BY <2>1, <2>3, <2>5, <2>7, <2>8, <2>9 DEF CountedInv
  <2>11. PublishedInv'
    <3>1. Cardinality(Admission!Admitted') = Cardinality(Admission!Admitted) + 1
      BY <1>0, <2>3, <2>4, AdmittedIs, FS_AddElement
    <3>2. p5' = [published |-> p5.published + 1, suppressed |-> p5.suppressed]
      BY <1>0, <2>1 DEF PublishedInv
    <3> QED
      BY SMTT(30), <1>0, <1>5, <2>1, <3>1, <3>2, AdmittedIs DEF PublishedInv
  <2> QED
    BY <1>0, <2>1, <2>10, <2>11 DEF AdmissionInv, SinkInv, ManagerInv
<1>6. ASSUME Admission!CloseSink \/ \E result \in Admission!SendResult : Admission!dispatch(result)
      PROVE  AdmissionInv'
  <2>1. /\ UNCHANGED <<p1, p2, p3, p4, p5, p6, p8, p9>>
        /\ \/ p7' = [failures |-> 0, open |-> FALSE]
           \/ /\ ~p7.open
              /\ p7' = [failures |-> p7.failures + 1, open |-> p7.failures + 1 >= AdThreshold]
    BY <1>6 DEF Admission!CloseSink, Admission!dispatch
  <2>2. SinkInv'
    <3>1. CASE p7' = [failures |-> 0, open |-> FALSE]
      BY <3>1 DEF SinkInv
    <3>2. CASE /\ ~p7.open
               /\ p7' = [failures |-> p7.failures + 1, open |-> p7.failures + 1 >= AdThreshold]
      <4>1. p7.failures \in 0..AdThreshold /\ p7.failures < AdThreshold
        BY <1>0, <3>2 DEF SinkInv
      <4>2. PICK b \in BOOLEAN : b <=> p7.failures + 1 >= AdThreshold
        <5>1. CASE p7.failures + 1 >= AdThreshold
          BY <5>1, Zenon
        <5>2. CASE ~ (p7.failures + 1 >= AdThreshold)
          BY <5>2, Zenon
        <5> QED
          BY <5>1, <5>2
      <4>3. p7' = [failures |-> p7.failures + 1, open |-> b]
        BY <3>2, <4>2
      <4>4. p7.failures + 1 \in 0..AdThreshold
        BY <4>1
      <4>5. p7' \in [failures : 0..AdThreshold, open : BOOLEAN]
        BY <4>3, <4>4
      <4>6. p7'.failures = p7.failures + 1 /\ p7'.open = b
        BY <4>3
      <4> QED
        BY <4>1, <4>2, <4>5, <4>6 DEF SinkInv
    <3> QED
      BY <2>1, <3>1, <3>2
  <2>3. Admission!Admitted' = Admission!Admitted
    BY <2>1 DEF Admission!Admitted
  <2> QED
    BY <1>0, <2>1, <2>2, <2>3 DEF AdmissionInv, CountedInv, PublishedInv, ManagerInv
<1>7. ASSUME Admission!fire \/ Admission!reset_cooldown
      PROVE  AdmissionInv'
  <2>1. UNCHANGED <<p1, p2, p3, p4, p5, p6, p7>>
    BY <1>7 DEF Admission!fire, Admission!reset_cooldown
  <2>2. ManagerInv'
    <3>1. CASE Admission!reset_cooldown
      BY <3>1, EmptySeq DEF ManagerInv, Admission!reset_cooldown
    <3>2. CASE Admission!fire
      <4>1. p1 - p8 >= AdDedup /\ p8' = p1 /\ p9' = Append(p9, p1)
        BY <3>2 DEF Admission!fire
      <4>2. p9 \in Seq(0..AdEnd) /\ p1 \in 0..AdEnd /\ Len(p9) \in Nat
        BY <1>0 DEF ManagerInv, CountedInv
      <4>3. /\ p9' \in Seq(0..AdEnd) /\ Len(p9') = Len(p9) + 1 /\ p9'[Len(p9) + 1] = p1
            /\ \A i \in 1..Len(p9) : p9'[i] = p9[i]
        BY <4>1, <4>2, AppendProperties
      <4>4. ASSUME NEW i \in 2..Len(p9') PROVE p9'[i] - p9'[i - 1] >= AdDedup
        <5>1. CASE i = Len(p9) + 1
          <6>1. Len(p9) \in 1..Len(p9) /\ p9 # <<>> /\ i - 1 = Len(p9)
            BY <4>2, <5>1, EmptySeq
          <6> QED
            BY <1>0, <4>1, <4>3, <5>1, <6>1 DEF ManagerInv
        <5>2. CASE i # Len(p9) + 1
          <6>1. i \in 2..Len(p9) /\ i \in 1..Len(p9) /\ i - 1 \in 1..Len(p9)
            BY <4>2, <4>3, <5>2
          <6> QED
            BY <1>0, <4>3, <6>1 DEF ManagerInv
        <5> QED
          BY <5>1, <5>2
      <4> QED
        BY <4>1, <4>2, <4>3, <4>4 DEF ManagerInv
    <3> QED
      BY <1>7, <3>1, <3>2
  <2>3. Admission!Admitted' = Admission!Admitted
    BY <2>1 DEF Admission!Admitted
  <2> QED
    BY <1>0, <2>1, <2>2, <2>3 DEF AdmissionInv, CountedInv, PublishedInv, SinkInv
<1> QED
  BY <1>1, <1>2, <1>3, <1>4, <1>5, <1>6, <1>7 DEF Admission!Next

(* The tables of the sinks. *)
LEMMA TableKeepsOrder ==
  ASSUME NEW w \in Nat, NEW x \in Nat, NEW y \in Nat, NEW z \in Nat
  PROVE  Admission!KeepsOrder(<<w, x, y, z>>) <=> w <= x /\ x <= y /\ y <= z
<1>1. Len(Admission!Severities) = 4
  BY DEF Admission!Severities
<1>2. PICK a : a = <<w, x, y, z>>
  OBVIOUS
<1>3. a[1] = w /\ a[2] = x /\ a[3] = y /\ a[4] = z
  BY <1>2
<1>4. Admission!KeepsOrder(a) <=> \A i, j \in 1..4 : i < j => a[i] <= a[j]
  BY <1>1 DEF Admission!KeepsOrder
<1>5. ASSUME \A i, j \in 1..4 : i < j => a[i] <= a[j]
      PROVE  w <= x /\ x <= y /\ y <= z
  BY <1>3, <1>5
<1>6. ASSUME w <= x, x <= y, y <= z, NEW i \in 1..4, NEW j \in 1..4, i < j
      PROVE  a[i] <= a[j]
  <2>1. (i = 1 \/ i = 2 \/ i = 3) /\ (j = 2 \/ j = 3 \/ j = 4)
    BY <1>6
  <2> QED
    BY <1>3, <1>6, <2>1
<1> QED
  BY <1>2, <1>4, <1>5, <1>6

LEMMA TablesKeepOrder ==
  \A a \in Admission!Alerters : Admission!KeepsOrder(a) <=> a # Admission!SlackAlerter
<1>1. /\ <<1, 3, 4, 5>> # <<1, 2, 1, 3>> /\ <<1, 2, 3, 3>> # <<1, 2, 1, 3>>
      /\ <<1, 2, 2, 3>> # <<1, 2, 1, 3>> /\ <<1, 2, 3, 4>> # <<1, 2, 1, 3>>
  OBVIOUS
<1>2. /\ Admission!KeepsOrder(<<1, 3, 4, 5>>) /\ Admission!KeepsOrder(<<1, 2, 3, 3>>)
      /\ Admission!KeepsOrder(<<1, 2, 2, 3>>) /\ Admission!KeepsOrder(<<1, 2, 3, 4>>)
      /\ ~Admission!KeepsOrder(<<1, 2, 1, 3>>)
  BY TableKeepsOrder
<1>3. \A a \in Admission!Alerters : \/ a = <<1, 3, 4, 5>> \/ a = <<1, 2, 3, 3>> \/ a = <<1, 2, 2, 3>>
                                    \/ a = <<1, 2, 3, 4>> \/ a = <<1, 2, 1, 3>>
  BY Zenon DEF Admission!Alerters, Admission!OpsGenieAlerter, Admission!VictorOpsAlerter,
         Admission!IncidentIOAlerter, Admission!TeamsAdaptiveCardAlerter, Admission!SlackAlerter,
         Admission!TeamsAlerter, Admission!PagerDutyAlerter, Admission!WebhookAlerter
<1> QED
  BY <1>1, <1>2, <1>3, Zenon DEF Admission!SlackAlerter

LEMMA AdmissionFollows == AdmissionInv => Admission!AdmissionTypeOK /\ Admission!AdmissionIsSpaced
<1> SUFFICES ASSUME AdmissionInv PROVE Admission!AdmissionTypeOK /\ Admission!AdmissionIsSpaced
  OBVIOUS
<1> USE AdmissionAssumption
<1>0. CountedInv /\ PublishedInv /\ SinkInv /\ ManagerInv /\ p1 \in Nat
  BY DEF AdmissionInv, CountedInv
<1>1. /\ TimesOf(p6) \in Seq(0..AdEnd) /\ Len(TimesOf(p6)) = Len(p6)
      /\ \A i \in 1..Len(p6) : TimesOf(p6)[i] = p6[i].at
  BY <1>0, TimesAre DEF CountedInv
<1>2. p3 \in Seq(0..AdEnd)
  <2>1. PICK m \in 1..Len(TimesOf(p6)) + 1 : p3 = Rest(TimesOf(p6), m)
    BY <1>0 DEF CountedInv, Windowed
  <2> QED
    BY <1>1, <2>1, RestIs
<1>3. Admission!AdmissionTypeOK
  BY <1>0, <1>2 DEF Admission!AdmissionTypeOK, CountedInv, PublishedInv, SinkInv, ManagerInv
<1>4. ASSUME NEW x \in 0..p1
      PROVE  Cardinality({i \in 1..Len(p6) : x <= p6[i].at /\ p6[i].at < x + AdMinute}) <= AdRateLimit
  <2>1. x \in Nat
    OBVIOUS
  <2>2. Cardinality(InWindow(TimesOf(p6), x, AdMinute)) <= AdRateLimit
    BY <1>0, <2>1, WindowIsLimited DEF CountedInv
  <2>3. InWindow(TimesOf(p6), x, AdMinute)
          = {i \in 1..Len(p6) : x <= p6[i].at /\ p6[i].at < x + AdMinute}
    BY <1>1 DEF InWindow
  <2> QED
    BY <2>2, <2>3
<1>5. ASSUME NEW t \in AdTopics, Admission!Duplicate(t),
             \A i \in Admission!Admitted : p6[i].topic # t
      PROVE  p1 < AdDedup
  <2>1. p4[t] = 0
    BY <1>0, <1>5 DEF CountedInv
  <2> QED
    BY <1>0, <1>5, <2>1 DEF Admission!Duplicate
<1>6. Admission!Spaced(p9, AdDedup)
  BY <1>0 DEF ManagerInv, Admission!Spaced
<1>7. Admission!healthy <=> p7.failures < AdThreshold
  BY <1>0 DEF SinkInv, Admission!healthy
<1>8. /\ p5.published = p5.suppressed + Admission!Cardinality(Admission!Admitted)
      /\ \A i, j \in Admission!Admitted : i < j /\ p6[i].topic = p6[j].topic
                                          => p6[j].at - p6[i].at >= AdDedup
  BY <1>0, AdmissionCardinality DEF CountedInv, PublishedInv
<1>9. Admission!AdmissionIsSpaced
  BY <1>4, <1>5, <1>6, <1>7, <1>8, AdmissionCardinality, TablesKeepOrder, Zenon
     DEF Admission!AdmissionIsSpaced
<1> QED
  BY <1>3, <1>9

(***************************************************************************)
(* CostBudget                                                              *)
(***************************************************************************)

(* The calls that have seen the flag down and have not returned. *)
Racing == {t \in CbThreads : p3[t].pc \in {"total", "fire"}}

(* Why a budget is not missed: over the threshold and not fired, some call   *)
(* is still under way; a call that is about to fire has seen a total that no *)
(* reset has taken back, unless it outlived one; and the callbacks that ran  *)
(* and those that may still run are of different threads.                    *)
BudgetInv ==
    /\ Budget!BudgetTypeOK
    /\ p1 >= CbThreshold /\ ~p2 => \E t \in CbThreads : p3[t].pc # "idle"
    /\ \A t \in CbThreads : p3[t].epoch <= p4
    /\ \A t \in CbThreads : p3[t].pc = "fire" /\ p3[t].epoch = p4 => p1 >= CbThreshold
    /\ p2 <=> p5 > 0
    /\ p2 /\ p1 < CbThreshold => p6
    /\ p5 + Cardinality(Racing) <= Cardinality(CbThreads)

LEMMA RacingIsFinite ==
  /\ IsFiniteSet(Racing) /\ Cardinality(Racing) \in Nat
  /\ IsFiniteSet(Racing') /\ Cardinality(Racing') \in Nat
  /\ Cardinality(CbThreads) \in Nat
  /\ Cardinality(Racing) <= Cardinality(CbThreads)
  /\ Cardinality(Racing') <= Cardinality(CbThreads)
<1>1. Racing \subseteq CbThreads /\ Racing' \subseteq CbThreads
  BY DEF Racing
<1> QED
  BY <1>1, BudgetAssumption, FS_Subset, FS_CardinalityType

(* The instance counts as this module does. *)
LEMMA BudgetCardinality == \A S : Budget!Cardinality(S) = Cardinality(S)
  BY DEF Budget!Cardinality, Cardinality

LEMMA BudgetInit == Budget!Init => BudgetInv
<1> SUFFICES ASSUME Budget!Init PROVE BudgetInv
  OBVIOUS
<1>1. \A t \in CbThreads : p3[t] = [pc |-> "idle", epoch |-> 0]
  BY DEF Budget!Init, Budget!NoCall
<1>2. Budget!BudgetTypeOK
  <2>1. 0 \in 0..CbCap /\ 0 \in 0..CbResets
    BY BudgetAssumption
  <2>2. [pc |-> "idle", epoch |-> 0] \in [pc : {"idle", "flag", "total", "fire"}, epoch : 0..CbResets]
    BY <2>1
  <2> QED
    BY <2>1, <2>2 DEF Budget!Init, Budget!NoCall, Budget!BudgetTypeOK
<1>3. p1 = 0 /\ p2 = FALSE /\ p4 = 0 /\ p5 = 0
  BY DEF Budget!Init
<1> QED
  BY <1>1, <1>2, <1>3, RacingIsFinite, BudgetAssumption DEF BudgetInv

(* What a step of one thread does to the calls that race. *)
LEMMA RacingChanges ==
  ASSUME BudgetInv, NEW t \in CbThreads,
         \A u \in CbThreads \ {t} : p3'[u] = p3[u]
  PROVE  /\ t \in Racing' /\ t \notin Racing => Cardinality(Racing') = Cardinality(Racing) + 1
         /\ t \notin Racing' /\ t \in Racing => Cardinality(Racing') = Cardinality(Racing) - 1
         /\ (t \in Racing' <=> t \in Racing) => Cardinality(Racing') = Cardinality(Racing)
<1>1. ASSUME t \in Racing', t \notin Racing PROVE Racing' = Racing \cup {t}
  BY <1>1 DEF Racing
<1>2. ASSUME t \notin Racing', t \in Racing PROVE Racing' = Racing \ {t}
  BY <1>2 DEF Racing
<1>3. ASSUME t \in Racing' <=> t \in Racing PROVE Racing' = Racing
  BY <1>3 DEF Racing
<1> HIDE DEF Racing
<1> QED
  BY <1>1, <1>2, <1>3, RacingIsFinite, FS_AddElement, FS_RemoveElement

LEMMA BudgetStepKeeps ==
  ASSUME BudgetInv, Budget!Next
  PROVE  BudgetInv'
<1> USE BudgetAssumption DEF Budget!BudgetTypeOK
<1>1. CASE Budget!reset_costs
  <2> USE <1>1 DEF Budget!reset_costs
  <2>1. p1' = 0 /\ p2' = FALSE /\ p6' = FALSE /\ p5' = 0 /\ p3' = p3 /\ p4' = p4 + 1
    OBVIOUS
  <2>3. Budget!BudgetTypeOK'
    <3>1. 0 \in 0..CbCap /\ p4 + 1 \in 0..CbResets
      BY DEF BudgetInv
    <3>2. p3 \in [CbThreads -> [pc : {"idle", "flag", "total", "fire"}, epoch : 0..CbResets]]
      BY DEF BudgetInv
    <3>3. 0 \in Nat /\ FALSE \in BOOLEAN
      OBVIOUS
    <3> QED
      BY <2>1, <3>1, <3>2, <3>3, Zenon DEF Budget!BudgetTypeOK
  <2>2. Racing' = Racing
    BY <2>1 DEF Racing
  <2> QED
    BY <2>1, <2>2, <2>3, RacingIsFinite DEF BudgetInv
<1>2. ASSUME NEW t \in CbThreads, Budget!record_cost(t) PROVE BudgetInv'
  <2> USE <1>2 DEF Budget!record_cost
  <2>1. /\ p1' = p1 + 1 /\ p2' = p2 /\ p4' = p4 /\ p5' = p5 /\ p6' = p6
        /\ p3'[t] = [pc |-> "flag", epoch |-> p4] /\ p3[t].pc = "idle"
        /\ \A u \in CbThreads \ {t} : p3'[u] = p3[u]
    BY DEF BudgetInv
  <2>2. Budget!BudgetTypeOK'
    BY DEF BudgetInv
  <2>3. Cardinality(Racing') = Cardinality(Racing)
    BY <2>1, RacingChanges DEF Racing
  <2> QED
    BY <2>1, <2>2, <2>3 DEF BudgetInv
<1>3. ASSUME NEW t \in CbThreads, Budget!check_flag(t) PROVE BudgetInv'
  <2> USE <1>3 DEF Budget!check_flag, Budget!Goto
  <2>1. /\ p1' = p1 /\ p2' = p2 /\ p4' = p4 /\ p5' = p5 /\ p6' = p6
        /\ p3'[t] = [pc |-> IF p2 THEN "idle" ELSE "total", epoch |-> p3[t].epoch]
        /\ p3[t].pc = "flag"
        /\ \A u \in CbThreads \ {t} : p3'[u] = p3[u]
    BY DEF BudgetInv
  <2>2. Budget!BudgetTypeOK'
    BY DEF BudgetInv
  <2>3. CASE p2
    <3>1. Cardinality(Racing') = Cardinality(Racing)
      BY <2>1, <2>3, RacingChanges DEF Racing
    <3> QED
      BY <2>1, <2>2, <2>3, <3>1 DEF BudgetInv
  <2>4. CASE ~p2
    <3>1. p5' = 0 /\ Cardinality(Racing') <= Cardinality(CbThreads) /\ Cardinality(Racing') \in Nat
      BY <2>1, <2>4, RacingIsFinite DEF BudgetInv
    <3>2. \E u \in CbThreads : p3'[u].pc # "idle"
      BY <2>1, <2>4
    <3>3. \A u \in CbThreads : p3'[u].epoch <= p4' /\ (p3'[u].pc = "fire" => p3[u].pc = "fire" /\ p3'[u].epoch = p3[u].epoch)
      BY <2>1, <2>4 DEF BudgetInv
    <3> QED
      BY <2>1, <2>2, <2>4, <3>1, <3>2, <3>3, RacingIsFinite DEF BudgetInv
  <2> QED
    BY <2>3, <2>4
<1>4. ASSUME NEW t \in CbThreads, Budget!check_total(t) PROVE BudgetInv'
  <2> USE <1>4 DEF Budget!check_total, Budget!Goto, Budget!total_usd
  <2>1. /\ p1' = p1 /\ p2' = p2 /\ p4' = p4 /\ p5' = p5 /\ p6' = p6
        /\ p3'[t] = [pc |-> IF p1 >= CbThreshold THEN "fire" ELSE "idle", epoch |-> p3[t].epoch]
        /\ p3[t].pc = "total"
        /\ \A u \in CbThreads \ {t} : p3'[u] = p3[u]
    BY DEF BudgetInv
  <2>2. Budget!BudgetTypeOK'
    BY DEF BudgetInv
  <2>3. Cardinality(Racing') <= Cardinality(Racing)
    <3>1. t \in Racing
      BY <2>1 DEF Racing
    <3> QED
      BY <2>1, <3>1, RacingChanges, RacingIsFinite
  <2> QED
    BY <2>1, <2>2, <2>3, RacingIsFinite DEF BudgetInv
<1>5. ASSUME NEW t \in CbThreads, Budget!check_fire(t) PROVE BudgetInv'
  <2> USE <1>5 DEF Budget!check_fire, Budget!Goto
  <2>1. /\ p1' = p1 /\ p2' = TRUE /\ p4' = p4 /\ p5' = p5 + 1
        /\ p6' = (p6 \/ p3[t].epoch # p4)
        /\ p3'[t] = [pc |-> "idle", epoch |-> p3[t].epoch]
        /\ p3[t].pc = "fire"
        /\ \A u \in CbThreads \ {t} : p3'[u] = p3[u]
    BY DEF BudgetInv
  <2>2. Budget!BudgetTypeOK'
    BY DEF BudgetInv
  <2>3. Cardinality(Racing') = Cardinality(Racing) - 1
    BY <2>1, RacingChanges DEF Racing
  <2>4. p5' + Cardinality(Racing') <= Cardinality(CbThreads) /\ p5' > 0
    BY <2>1, <2>3, RacingIsFinite DEF BudgetInv
  <2>5. p1' < CbThreshold => p6'
    <3>1. p1 < CbThreshold => p3[t].epoch # p4
      BY <2>1 DEF BudgetInv
    <3> QED
      BY <2>1, <3>1, Zenon
  <2>6. \A u \in CbThreads : /\ p3'[u].epoch <= p4'
                              /\ p3'[u].pc = "fire" /\ p3'[u].epoch = p4' => p1' >= CbThreshold
    BY <2>1 DEF BudgetInv
  <2> QED
    BY <2>1, <2>2, <2>4, <2>5, <2>6 DEF BudgetInv
<1> QED
  BY <1>1, <1>2, <1>3, <1>4, <1>5 DEF Budget!Next

LEMMA BudgetFollows == BudgetInv => Budget!BudgetTypeOK /\ Budget!BudgetIsNeverMissed
<1> SUFFICES ASSUME BudgetInv PROVE Budget!BudgetTypeOK /\ Budget!BudgetIsNeverMissed
  OBVIOUS
<1>1. p1 \in Nat /\ p5 \in Nat /\ p2 \in BOOLEAN
  BY BudgetAssumption DEF BudgetInv, Budget!BudgetTypeOK
<1>2. p5 <= Cardinality(CbThreads)
  BY <1>1, RacingIsFinite DEF BudgetInv
<1> QED
  BY <1>1, <1>2, BudgetCardinality, BudgetAssumption
     DEF BudgetInv, Budget!BudgetIsNeverMissed, Budget!Idle

(***************************************************************************)
(* ServiceClient                                                           *)
(***************************************************************************)

\* An open breaker has counted to the threshold, and only an open one is due.
IsBreaker(b) ==
    /\ b \in [open : BOOLEAN, failures : 0..THRESHOLD, due : BOOLEAN]
    /\ b.open <=> b.failures >= THRESHOLD
    /\ b.due => b.open

\* A request that is being attempted was answered before only if that attempt is a
\* later one, and each answer was lost; one that waits for a refresh, or reads its
\* answer, may have been answered once more.
IsCall(s, answered, lost, reading) ==
    /\ s \in Seq(1..max_retries + 1) /\ Len(s) <= ScDepth
    /\ answered \in Nat /\ lost \in Nat /\ reading \in BOOLEAN
    /\ answered <= lost + 1 /\ answered <= max_retries + 1
    /\ Len(s) = 1 /\ ~reading => answered <= lost /\ answered + 1 <= s[1]
    /\ Len(s) >= 1 => answered <= s[1]
    /\ reading => Len(s) >= 1

ClientInv ==
    /\ IsBreaker(p1)
    /\ p2 = [t \in ScThreads |-> p2[t]] /\ p3 = [t \in ScThreads |-> p3[t]]
    /\ p4 = [t \in ScThreads |-> p4[t]] /\ p5 = [t \in ScThreads |-> p5[t]]
    /\ \A t \in ScThreads : IsCall(p2[t], p3[t], p4[t], p5[t])

(* A set of numbers below a bound has a greatest one. *)
LEMMA GreatestIsIn ==
  ASSUME NEW n \in Nat, NEW S, S \subseteq 1..n, S # {}
  PROVE  Client!Max(S) \in S
<1> DEFINE T == {y \in Nat : \A x \in S : x <= y}
<1>1. T \subseteq Nat /\ n \in T
  OBVIOUS
<1> HIDE DEF T
<1>2. PICK m : m \in T /\ \A y \in T : m <= y
  BY <1>1, LeastIsLeast
<1>3. m \in Nat /\ \A x \in S : x <= m
  BY <1>2 DEF T
<1>4. m \in S
  <2> SUFFICES ASSUME m \notin S PROVE FALSE
    OBVIOUS
  <2>1. PICK x \in S : x \in 1..n
    OBVIOUS
  <2>2. m >= 1
    BY <1>3, <2>1
  <2>3. m - 1 \in T
    BY <1>3, <2>2 DEF T
  <2> QED
    BY <1>2, <1>3, <2>3
<1>5. \A y \in S : m >= y
  BY <1>3
<1> QED
  BY <1>4, <1>5, Zenon DEF Client!Max

LEMMA ClosedIsBreaker == IsBreaker(Client!Closed)
  BY ClientAssumption DEF IsBreaker, Client!Closed

LEMMA StateIsBreaker ==
  ASSUME NEW b, IsBreaker(b)
  PROVE  IsBreaker(Client!state(b))
  BY ClosedIsBreaker, Zenon DEF Client!state

LEMMA FailureIsCounted ==
  ASSUME NEW b, IsBreaker(b), NEW times \in Nat
  PROVE  IsBreaker(Client!record_failure(b, times))
<1> USE ClientAssumption
<1>1. b.failures \in Nat /\ b.failures <= THRESHOLD /\ b.open \in BOOLEAN /\ b.due \in BOOLEAN
  BY DEF IsBreaker
<1>2. CASE b.failures + times >= THRESHOLD
  <2>1. PICK c : c = [open |-> TRUE, failures |-> THRESHOLD, due |-> FALSE]
    OBVIOUS
  <2>2. c \in [open : BOOLEAN, failures : 0..THRESHOLD, due : BOOLEAN]
        /\ c.open = TRUE /\ c.failures = THRESHOLD /\ c.due = FALSE
    BY <2>1
  <2>3. Client!record_failure(b, times) = c
    BY <1>2, <2>1 DEF Client!record_failure
  <2> QED
    BY <2>2, <2>3 DEF IsBreaker
<1>3. CASE ~ (b.failures + times >= THRESHOLD)
  <2>1. PICK c : c = [b EXCEPT !.failures = b.failures + times]
    OBVIOUS
  <2>2. b.failures + times \in 0..THRESHOLD /\ b.failures < THRESHOLD
    BY <1>1, <1>3
  <2>3. c \in [open : BOOLEAN, failures : 0..THRESHOLD, due : BOOLEAN]
    BY <2>1, <2>2 DEF IsBreaker
  <2>4. c.open = b.open /\ c.due = b.due /\ c.failures = b.failures + times
    BY <2>1 DEF IsBreaker
  <2>5. ~ b.open /\ ~ b.due
    BY <2>2 DEF IsBreaker
  <2>6. Client!record_failure(b, times) = c
    BY <1>3, <2>1 DEF Client!record_failure
  <2>7. ~ (b.failures + times >= THRESHOLD)
    BY <1>3
  <2> QED
    BY <2>3, <2>4, <2>5, <2>6, <2>7 DEF IsBreaker
<1> QED
  BY <1>2, <1>3

(* A failed attempt: the call goes on as a call whose answers are accounted  *)
(* for, whichever request of the stack makes the next attempt.               *)
LEMMA CallAfterFailure ==
  ASSUME NEW s, NEW b, NEW answered, NEW lost, NEW reading,
         IsCall(s, answered, lost, reading), Len(s) > 0, IsBreaker(b)
  PROVE  LET a == Client!AfterFailure(s, b, reading)
         IN IsBreaker(a.breaker) /\ IsCall(a.stack, answered, lost + a.lost, FALSE)
<1> USE ClientAssumption
<1> DEFINE retrying == {n \in 1..Len(s) : /\ s[n] <= max_retries
                                          /\ local_fallback_enabled \/ n = Len(s)}
           next == IF retrying = {} THEN 0 ELSE Client!Max(retrying)
           failures == IF ~local_fallback_enabled THEN 1
                       ELSE IF next = 0 THEN Len(s) ELSE Len(s) - next + 1
<1>1. /\ s \in Seq(1..max_retries + 1) /\ Len(s) \in Nat /\ Len(s) >= 1 /\ Len(s) <= ScDepth
      /\ \A i \in 1..Len(s) : s[i] \in 1..max_retries + 1
      /\ answered \in Nat /\ lost \in Nat /\ reading \in BOOLEAN
  BY DEF IsCall
<1>2. \/ next = 0
      \/ /\ next \in 1..Len(s) /\ s[next] <= max_retries
         /\ local_fallback_enabled \/ next = Len(s)
  <2>1. CASE retrying = {}
    BY <2>1
  <2>2. CASE retrying # {}
    <3>1. Client!Max(retrying) \in retrying
      BY <1>1, <2>2, GreatestIsIn
    <3> QED
      BY <2>2, <3>1
  <2> QED
    BY <2>1, <2>2
<1>3. PICK a : a = Client!AfterFailure(s, b, reading)
  OBVIOUS
<1>4. /\ a.breaker = Client!record_failure(b, failures)
      /\ a.stack = SubSeq(s, 1, next - 1) \o (IF next = 0 THEN <<>> ELSE <<s[next] + 1>>)
      /\ a.lost = IF next < 2 /\ (Len(s) > 1 \/ reading) THEN 1 ELSE 0
  BY <1>3 DEF Client!AfterFailure
<1>5. PICK k : k = next
  OBVIOUS
<1> HIDE DEF retrying, next
<1>6. /\ k \in Nat /\ k <= Len(s)
      /\ k # 0 => s[k] <= max_retries /\ (local_fallback_enabled \/ k = Len(s))
  BY <1>1, <1>2, <1>5
<1>7. /\ a.stack = SubSeq(s, 1, k - 1) \o (IF k = 0 THEN <<>> ELSE <<s[k] + 1>>)
      /\ a.lost = IF k < 2 /\ (Len(s) > 1 \/ reading) THEN 1 ELSE 0
      /\ a.lost \in 0..1
  BY <1>4, <1>5
<1>8. IsBreaker(a.breaker)
  <2>1. failures \in Nat
    BY <1>1, <1>5, <1>6
  <2> QED
    BY <1>4, <2>1, FailureIsCounted
<1>9. IsCall(a.stack, answered, lost + a.lost, FALSE)
  <2>1. answered <= lost + a.lost + 1 /\ answered <= max_retries + 1 /\ lost + a.lost \in Nat
    BY <1>1, <1>7 DEF IsCall
  <2>2. CASE k = 0
    <3>1. SubSeq(s, 1, 0 - 1) = <<>>
      BY <1>1
    <3>2. a.stack = <<>>
      BY <1>7, <2>2, <3>1
    <3>3. a.stack \in Seq(1..max_retries + 1) /\ Len(a.stack) = 0
      BY <3>2
    <3> QED
      BY <1>1, <2>1, <3>3 DEF IsCall
  <2>3. CASE k = 1
    <3>1. SubSeq(s, 1, 1 - 1) = <<>>
      BY <1>1
    <3>2. PICK m : m = s[1] + 1 /\ m \in 1..max_retries + 1
      BY <1>1, <1>6, <2>3
    <3>3. a.stack = <<m>>
      <4>1. a.stack = <<>> \o <<m>>
        <5>1. k # 0 /\ k - 1 = 1 - 1 /\ <<s[k] + 1>> = <<m>>
          BY <2>3, <3>2
        <5>2. SubSeq(s, 1, k - 1) = <<>>
          BY <3>1, <5>1
        <5>3. (IF k = 0 THEN <<>> ELSE <<s[k] + 1>>) = <<m>>
          BY <5>1
        <5> QED
          BY <1>7, <5>2, <5>3
      <4>2. <<>> \o <<m>> = <<m>>
        BY <3>2
      <4> QED
        BY <4>1, <4>2
    <3>4. a.stack \in Seq(1..max_retries + 1) /\ Len(a.stack) = 1 /\ a.stack[1] = m
      BY <3>2, <3>3
    <3>5. answered <= lost + a.lost /\ answered + 1 <= m
      <4>1. PICK d : d = Len(s)
        OBVIOUS
      <4>2. d \in Nat /\ d >= 1 /\ answered <= s[1] /\ answered <= lost + 1
            /\ (d = 1 /\ ~reading => answered <= lost)
        BY <1>1, <4>1 DEF IsCall
      <4>3. a.lost = IF d > 1 \/ reading THEN 1 ELSE 0
        BY <1>7, <2>3, <4>1
      <4>4. s[1] \in 1..max_retries + 1
        BY <1>1
      <4>5. answered <= lost + a.lost
        <5>1. CASE reading
          BY <1>1, <4>2, <4>3, <5>1
        <5>2. CASE ~reading
          BY <1>1, <4>2, <4>3, <5>2
        <5> QED
          BY <5>1, <5>2
      <4> QED
        BY <1>1, <3>2, <4>2, <4>4, <4>5
    <3> QED
      BY <1>1, <2>1, <3>4, <3>5 DEF IsCall
  <2>4. CASE k > 1
    <3>1. PICK m : m = s[k] + 1 /\ m \in 1..max_retries + 1
      BY <1>1, <1>6, <2>4
    <3>2. k \in 1..Len(s) /\ k - 1 \in 1..Len(s)
      BY <1>1, <1>6, <2>4
    <3>3. PICK r : r = SubSeq(s, 1, k - 1)
      OBVIOUS
    <3>4. r \in Seq(1..max_retries + 1) /\ Len(r) = k - 1 /\ r[1] = s[1]
      BY <1>1, <2>4, <3>2, <3>3, SubSeqProperties
    <3>5. a.stack = r \o <<m>>
      BY <1>6, <1>7, <2>4, <3>1, <3>3
    <3>6. a.stack = Append(r, m)
      BY <3>1, <3>4, <3>5, AppendIsConcat
    <3>7. /\ a.stack \in Seq(1..max_retries + 1) /\ Len(a.stack) = k
          /\ a.stack[1] = s[1]
      BY <2>4, <3>1, <3>2, <3>4, <3>6, AppendProperties
    <3>8. answered <= s[1]
      BY <1>1, <2>4, <3>2 DEF IsCall
    <3> QED
      BY <1>1, <2>1, <2>4, <3>2, <3>7, <3>8 DEF IsCall
  <2>5. k = 0 \/ k = 1 \/ k > 1
    BY <1>6
  <2> QED
    BY <2>2, <2>3, <2>4, <2>5, Zenon
<1> QED
  BY <1>3, <1>8, <1>9

LEMMA ClientInit == Client!Init => ClientInv
<1> SUFFICES ASSUME Client!Init PROVE ClientInv
  OBVIOUS
<1> USE ClientAssumption
<1>1. p1 = Client!Closed
  BY DEF Client!Init, Client!Closed
<1>2. IsCall(<<>>, 0, 0, FALSE)
  BY EmptySeq DEF IsCall
<1> QED
  BY <1>1, <1>2, ClosedIsBreaker DEF Client!Init, ClientInv

(* What a step of a thread does to its call and to the others.               *)
LEMMA OthersKeepTheirCalls ==
  ASSUME ClientInv, NEW t \in ScThreads, NEW s, NEW answered, NEW lost, NEW reading,
         IsCall(s, answered, lost, reading), IsBreaker(p1'),
         p2' = [p2 EXCEPT ![t] = s], p3' = [p3 EXCEPT ![t] = answered],
         p4' = [p4 EXCEPT ![t] = lost], p5' = [p5 EXCEPT ![t] = reading]
  PROVE  ClientInv'
<1>1. \A u \in ScThreads : IsCall(p2[u], p3[u], p4[u], p5[u])
  BY DEF ClientInv
<1>2. /\ p2 = [u \in ScThreads |-> p2[u]] /\ p3 = [u \in ScThreads |-> p3[u]]
      /\ p4 = [u \in ScThreads |-> p4[u]] /\ p5 = [u \in ScThreads |-> p5[u]]
  BY DEF ClientInv
<1>3. /\ p2' = [u \in ScThreads |-> p2'[u]] /\ p3' = [u \in ScThreads |-> p3'[u]]
      /\ p4' = [u \in ScThreads |-> p4'[u]] /\ p5' = [u \in ScThreads |-> p5'[u]]
  BY <1>2
<1>4. ASSUME NEW u \in ScThreads PROVE IsCall(p2'[u], p3'[u], p4'[u], p5'[u])
  <2>1. CASE u = t
    BY <1>2, <2>1
  <2>2. CASE u # t
    <3>1. p2'[u] = p2[u] /\ p3'[u] = p3[u] /\ p4'[u] = p4[u] /\ p5'[u] = p5[u]
      BY <1>2, <2>2
    <3> QED
      BY <1>1, <3>1
  <2> QED
    BY <2>1, <2>2
<1> QED
  BY <1>3, <1>4, Zenon DEF ClientInv

(* A call that is answered.                                                  *)
LEMMA AnsweredIs ==
  ASSUME ClientInv, NEW t \in ScThreads, Client!Answered(t)
  PROVE  p3' = [p3 EXCEPT ![t] = IF Len(p2[t]) = 1 THEN p3[t] + 1 ELSE p3[t]]
<1>1. p3 = [u \in ScThreads |-> p3[u]]
  BY DEF ClientInv
<1> QED
  BY <1>1 DEF Client!Answered, Client!Depth

(* The top request of a call returns to the one below, or the call ends.     *)
LEMMA ReturnKeeps ==
  ASSUME ClientInv, NEW t \in ScThreads, Len(p2[t]) > 0, p5[t] \/ Len(p2[t]) > 1,
         Client!Return(t), UNCHANGED <<p3, p4>>, IsBreaker(p1')
  PROVE  ClientInv'
<1> DEFINE s == SubSeq(p2[t], 1, Len(p2[t]) - 1)
<1>1. /\ IsCall(p2[t], p3[t], p4[t], p5[t])
      /\ p2 = [u \in ScThreads |-> p2[u]] /\ p3 = [u \in ScThreads |-> p3[u]]
      /\ p4 = [u \in ScThreads |-> p4[u]] /\ p5 = [u \in ScThreads |-> p5[u]]
  BY DEF ClientInv
<1>2. p2' = [p2 EXCEPT ![t] = s] /\ p5' = [p5 EXCEPT ![t] = Len(p2[t]) > 1]
  BY <1>1 DEF Client!Return, Client!Reading, Client!Depth
<1>3. p2[t] \in Seq(1..max_retries + 1) /\ Len(p2[t]) \in Nat /\ Len(p2[t]) <= ScDepth
  BY <1>1 DEF IsCall
<1>4. PICK d : d = Len(p2[t])
  OBVIOUS
<1>5. d \in Nat /\ d > 0 /\ d <= ScDepth /\ ScDepth \in Nat
  BY <1>3, <1>4, ClientAssumption
<1>6. CASE d = 1
  <2>1. s = <<>>
    BY <1>4, <1>6
  <2>2. IsCall(<<>>, p3[t], p4[t], FALSE)
    BY <1>1, EmptySeq, ClientAssumption DEF IsCall
  <2>3. p5' = [p5 EXCEPT ![t] = FALSE]
    <3>1. (Len(p2[t]) > 1) = FALSE
      BY <1>4, <1>6
    <3> QED
      BY <1>2, <3>1, Zenon
  <2>4. p3' = [p3 EXCEPT ![t] = p3[t]] /\ p4' = [p4 EXCEPT ![t] = p4[t]]
    BY <1>1
  <2> QED
    BY <1>2, <2>1, <2>2, <2>3, <2>4, OthersKeepTheirCalls
<1>7. CASE d > 1
  <2>1. PICK r : r = s
    OBVIOUS
  <2>2. r \in Seq(1..max_retries + 1) /\ Len(r) = d - 1 /\ r[1] = p2[t][1]
    <3>1. PICK q : q = p2[t]
      OBVIOUS
    <3>2. /\ 1 \in Int /\ d - 1 \in Int /\ 1 <= d - 1
          /\ \A i \in 1..d - 1 : q[i] \in 1..max_retries + 1
      <4>1. q \in Seq(1..max_retries + 1) /\ Len(q) = d
        BY <1>3, <1>4, <3>1
      <4>2. ASSUME NEW i \in 1..d - 1 PROVE q[i] \in 1..max_retries + 1
        <5>1. i \in 1..Len(q)
          BY <1>5, <4>1
        <5> QED
          BY <4>1, <5>1, ElementOfSeq
      <4> QED
        BY <1>5, <1>7, <4>2
    <3>3. r = SubSeq(q, 1, d - 1)
      BY <1>4, <2>1, <3>1
    <3>4. /\ r \in Seq(1..max_retries + 1) /\ Len(r) = (d - 1) - 1 + 1
          /\ \A i \in 1..(d - 1) - 1 + 1 : r[i] = q[1 + i - 1]
      BY <3>2, <3>3, SubSeqProperties
    <3> QED
      BY <1>5, <1>7, <3>1, <3>4
  <2>3. IsCall(r, p3[t], p4[t], TRUE)
    <3>1. p3[t] <= p2[t][1]
      BY <1>1, <1>4, <1>5 DEF IsCall
    <3> QED
      BY <1>1, <1>5, <1>7, <2>2, <3>1 DEF IsCall
  <2>4. p5' = [p5 EXCEPT ![t] = TRUE]
    <3>1. (Len(p2[t]) > 1) = TRUE
      BY <1>4, <1>7
    <3> QED
      BY <1>2, <3>1, Zenon
  <2>5. /\ p2' = [p2 EXCEPT ![t] = r]
        /\ p3' = [p3 EXCEPT ![t] = p3[t]] /\ p4' = [p4 EXCEPT ![t] = p4[t]]
    BY <1>1, <1>2, <2>1
  <2> QED
    BY <2>3, <2>4, <2>5, OthersKeepTheirCalls, Zenon
<1> QED
  BY <1>5, <1>6, <1>7

LEMMA EndCallKeeps ==
  ASSUME ClientInv, NEW t \in ScThreads, Client!EndCall(t), UNCHANGED <<p1, p3, p4>>
  PROVE  ClientInv'
<1>1. /\ IsCall(p2[t], p3[t], p4[t], p5[t]) /\ IsBreaker(p1)
      /\ p2 = [u \in ScThreads |-> p2[u]] /\ p3 = [u \in ScThreads |-> p3[u]]
      /\ p4 = [u \in ScThreads |-> p4[u]] /\ p5 = [u \in ScThreads |-> p5[u]]
  BY DEF ClientInv
<1>2. IsCall(<<>>, p3[t], p4[t], FALSE)
  BY <1>1, EmptySeq, ClientAssumption DEF IsCall
<1>3. p3' = [p3 EXCEPT ![t] = p3[t]] /\ p4' = [p4 EXCEPT ![t] = p4[t]] /\ IsBreaker(p1')
  BY <1>1
<1>4. p2' = [p2 EXCEPT ![t] = <<>>] /\ p5' = [p5 EXCEPT ![t] = FALSE]
  BY DEF Client!EndCall, Client!Reading
<1> QED
  BY <1>2, <1>3, <1>4, OthersKeepTheirCalls

(* An answer: what its request may still count on.                           *)
LEMMA AnswerCounts ==
  ASSUME ClientInv, NEW t \in ScThreads, Len(p2[t]) > 0, ~p5[t], Client!Answered(t)
  PROVE  \E n : /\ p3' = [p3 EXCEPT ![t] = n]
                /\ n \in Nat /\ n <= p4[t] + 1 /\ n <= max_retries + 1 /\ n <= p2[t][1]
                /\ Len(p2[t]) > 1 => n = p3[t]
<1> DEFINE n == IF Len(p2[t]) = 1 THEN p3[t] + 1 ELSE p3[t]
<1>1. p3' = [p3 EXCEPT ![t] = n]
  BY AnsweredIs
<1>2. IsCall(p2[t], p3[t], p4[t], p5[t]) /\ p5[t] \in BOOLEAN
  BY DEF ClientInv, IsCall
<1>3. PICK v, w, l, m : v = p3[t] /\ w = p2[t][1] /\ l = Len(p2[t]) /\ m = p4[t]
  OBVIOUS
<1>4. p2[t] \in Seq(1..max_retries + 1) /\ p2[t][1] \in 1..max_retries + 1
  <2>1. p2[t] \in Seq(1..max_retries + 1) /\ 1 \in 1..Len(p2[t])
    BY <1>2 DEF IsCall
  <2> QED
    BY <2>1, ElementOfSeq
<1>5. /\ v \in Nat /\ m \in Nat /\ w \in 1..max_retries + 1 /\ l \in Nat /\ l > 0
      /\ v <= m + 1 /\ v <= max_retries + 1 /\ (l = 1 => v <= m /\ v + 1 <= w) /\ v <= w
  BY <1>2, <1>3, <1>4 DEF IsCall
<1>6. n = IF l = 1 THEN v + 1 ELSE v
  BY <1>3
<1>7. n \in Nat /\ n <= m + 1 /\ n <= max_retries + 1 /\ n <= w /\ (l > 1 => n = v)
  BY <1>5, <1>6, ClientAssumption
<1> QED
  BY <1>1, <1>3, <1>7

LEMMA ClientStepKeeps ==
  ASSUME ClientInv, Client!Next
  PROVE  ClientInv'
<1> USE ClientAssumption
<1>1. /\ IsBreaker(p1) /\ \A t \in ScThreads : IsCall(p2[t], p3[t], p4[t], p5[t])
      /\ p2 = [t \in ScThreads |-> p2[t]] /\ p3 = [t \in ScThreads |-> p3[t]]
      /\ p4 = [t \in ScThreads |-> p4[t]] /\ p5 = [t \in ScThreads |-> p5[t]]
  BY DEF ClientInv
<1>2. CASE Client!Reset
  <2>1. p1.open /\ p1' = [p1 EXCEPT !.due = TRUE] /\ UNCHANGED <<p2, p3, p4, p5>>
    BY <1>2 DEF Client!Reset
  <2>2. p1 \in [open : BOOLEAN, failures : 0..THRESHOLD, due : BOOLEAN]
    BY <1>1 DEF IsBreaker
  <2>3. /\ p1' \in [open : BOOLEAN, failures : 0..THRESHOLD, due : BOOLEAN]
        /\ p1'.open = p1.open /\ p1'.failures = p1.failures
    BY <2>1, <2>2
  <2>4. IsBreaker(p1)'
    BY <1>1, <2>1, <2>3, Zenon DEF IsBreaker
  <2> QED
    BY <1>1, <2>1, <2>4, Zenon DEF ClientInv
<1>3. ASSUME NEW t \in ScThreads, Client!request(t) PROVE ClientInv'
  <2>1. PICK s : s = IF Client!state(p1).open THEN <<>> ELSE <<1>>
    OBVIOUS
  <2>2. ~p5[t]
    BY <1>1, <1>3 DEF IsCall, Client!request, Client!Depth
  <2>3. IsCall(s, 0, 0, p5[t])
    <3>1. p5[t] = FALSE
      BY <1>1, <2>2 DEF IsCall
    <3>2. IsCall(<<>>, 0, 0, FALSE)
      BY EmptySeq DEF IsCall
    <3>3. IsCall(<<1>>, 0, 0, FALSE)
      <4>1. <<1>> \in Seq(1..max_retries + 1) /\ Len(<<1>>) = 1 /\ <<1>>[1] = 1
        OBVIOUS
      <4> QED
        BY <4>1 DEF IsCall
    <3> QED
      BY <2>1, <3>1, <3>2, <3>3
  <2>4. IsBreaker(p1')
    BY <1>1, <1>3, StateIsBreaker DEF Client!request
  <2>5. /\ p2' = [p2 EXCEPT ![t] = s] /\ p3' = [p3 EXCEPT ![t] = 0]
        /\ p4' = [p4 EXCEPT ![t] = 0] /\ p5' = [p5 EXCEPT ![t] = p5[t]]
    BY <1>1, <1>3, <2>1 DEF Client!request
  <2> QED
    BY <2>3, <2>4, <2>5, OthersKeepTheirCalls
<1>4. ASSUME NEW t \in ScThreads, Client!respond(t) PROVE ClientInv'
  <2>1. /\ Len(p2[t]) > 0 /\ ~p5[t] /\ UNCHANGED <<p1, p2, p4>> /\ Client!Answered(t)
        /\ p5' = [p5 EXCEPT ![t] = TRUE]
    BY <1>4 DEF Client!respond, Client!Depth, Client!Reading
  <2>2. PICK n : /\ p3' = [p3 EXCEPT ![t] = n]
                 /\ n \in Nat /\ n <= p4[t] + 1 /\ n <= max_retries + 1 /\ n <= p2[t][1]
    BY <2>1, AnswerCounts
  <2>3. IsCall(p2[t], n, p4[t], TRUE)
    <3>1. /\ p2[t] \in Seq(1..max_retries + 1) /\ Len(p2[t]) \in Nat /\ Len(p2[t]) <= ScDepth
          /\ p4[t] \in Nat
      BY <1>1 DEF IsCall
    <3> QED
      BY <2>1, <2>2, <3>1 DEF IsCall
  <2>4. p2' = [p2 EXCEPT ![t] = p2[t]] /\ p4' = [p4 EXCEPT ![t] = p4[t]] /\ IsBreaker(p1')
    BY <1>1, <2>1
  <2> QED
    BY <2>1, <2>2, <2>3, <2>4, OthersKeepTheirCalls
<1>5. ASSUME NEW t \in ScThreads, Client!respond_near_expiry(t) PROVE ClientInv'
  <2>1. PICK s : s = IF Client!state(p1).open THEN <<>> ELSE Append(p2[t], 1)
    OBVIOUS
  <2>2. /\ Len(p2[t]) \in 1..ScDepth - 1 /\ ~p5[t]
        /\ p2' = [p2 EXCEPT ![t] = s] /\ p4' = p4 /\ p5' = p5
        /\ p1' = Client!state(p1) /\ Client!Answered(t)
    BY <1>1, <1>5, <2>1 DEF Client!respond_near_expiry, Client!Depth
  <2>3. PICK n : /\ p3' = [p3 EXCEPT ![t] = n]
                 /\ n \in Nat /\ n <= p4[t] + 1 /\ n <= max_retries + 1 /\ n <= p2[t][1]
    <3>1. Len(p2[t]) > 0
      BY <2>2
    <3> QED
      BY <2>2, <3>1, AnswerCounts
  <2>4. p2[t] \in Seq(1..max_retries + 1) /\ p4[t] \in Nat /\ p5[t] = FALSE
    BY <1>1, <2>2 DEF IsCall
  <2>5. IsCall(<<>>, n, p4[t], FALSE)
    BY <2>3, <2>4, EmptySeq DEF IsCall
  <2>6. IsCall(Append(p2[t], 1), n, p4[t], FALSE)
    <3>1. PICK a : a = Append(p2[t], 1)
      OBVIOUS
    <3>2. /\ a \in Seq(1..max_retries + 1) /\ Len(a) = Len(p2[t]) + 1 /\ a[1] = p2[t][1]
      BY <2>2, <2>4, <3>1, AppendProperties
    <3>3. Len(a) <= ScDepth /\ Len(a) > 1
      BY <2>2, <2>4, <3>2
    <3> QED
      BY <2>3, <2>4, <3>1, <3>2, <3>3 DEF IsCall
  <2>7. IsCall(s, n, p4[t], p5[t])
    BY <2>1, <2>4, <2>5, <2>6
  <2>8. IsBreaker(p1')
    BY <1>1, <2>2, StateIsBreaker
  <2>9. /\ p2' = [p2 EXCEPT ![t] = s] /\ p3' = [p3 EXCEPT ![t] = n]
        /\ p4' = [p4 EXCEPT ![t] = p4[t]] /\ p5' = [p5 EXCEPT ![t] = p5[t]]
    BY <1>1, <2>2, <2>3
  <2> QED
    BY <2>7, <2>8, <2>9, OthersKeepTheirCalls
<1>6. ASSUME NEW t \in ScThreads, Client!read_body(t) PROVE ClientInv'
  <2>1. /\ p5[t] /\ p1' = Client!Closed /\ UNCHANGED <<p3, p4>> /\ Client!Return(t)
    BY <1>6 DEF Client!read_body, Client!record_success
  <2>2. Len(p2[t]) > 0
    <3>1. IsCall(p2[t], p3[t], p4[t], p5[t])
      BY <1>1
    <3> QED
      BY <2>1, <3>1 DEF IsCall
  <2> QED
    BY <2>1, <2>2, ClosedIsBreaker, ReturnKeeps
<1>7. ASSUME NEW t \in ScThreads, NEW auth \in BOOLEAN, Client!reject(t, auth) PROVE ClientInv'
  <2>1. /\ Len(p2[t]) > 0 /\ UNCHANGED <<p1, p3, p4>>
        /\ Client!EndCall(t) \/ (Len(p2[t]) > 1 /\ Client!Return(t))
    BY <1>7 DEF Client!reject, Client!Depth
  <2> QED
    BY <1>1, <2>1, EndCallKeeps, ReturnKeeps
<1>8. ASSUME NEW t \in ScThreads, Client!escape(t) PROVE ClientInv'
  BY <1>8, EndCallKeeps DEF Client!escape
<1>9. ASSUME NEW t \in ScThreads, Client!fail(t) PROVE ClientInv'
  <2>1. PICK a : a = Client!AfterFailure(p2[t], p1, p5[t])
    OBVIOUS
  <2>2. /\ Len(p2[t]) > 0 /\ p2' = [p2 EXCEPT ![t] = a.stack] /\ p1' = a.breaker /\ p3' = p3
        /\ p4' = [p4 EXCEPT ![t] = p4[t] + a.lost] /\ p5' = [p5 EXCEPT ![t] = FALSE]
    BY <1>1, <1>9, <2>1 DEF Client!fail, Client!Depth, Client!Reading
  <2>3. IsBreaker(a.breaker) /\ IsCall(a.stack, p3[t], p4[t] + a.lost, FALSE)
    BY <1>1, <2>1, <2>2, CallAfterFailure
  <2>4. p3' = [p3 EXCEPT ![t] = p3[t]]
    BY <1>1, <2>2
  <2>5. IsBreaker(p1')
    BY <2>2, <2>3
  <2> QED
    BY <2>2, <2>3, <2>4, <2>5, OthersKeepTheirCalls
<1> QED
  BY <1>2, <1>3, <1>4, <1>5, <1>6, <1>7, <1>8, <1>9 DEF Client!Next

LEMMA ClientFollows ==
  ClientInv => Client!ServiceTypeOK /\ Client!ResentOnlyAfterALostAnswer
  BY DEF ClientInv, IsBreaker, IsCall, Client!ServiceTypeOK, Client!ResentOnlyAfterALostAnswer

(***************************************************************************)
(* RemoteExport                                                            *)
(***************************************************************************)

Elems(s) == {s[i] : i \in 1..Len(s)}
Distinct(s) == \A i, j \in 1..Len(s) : s[i] = s[j] => i = j
Rising(s) == \A i, j \in 1..Len(s) : i < j => s[i] < s[j]

Places == {"idle", "appending", "ensuring", "starting", "flushing", "taking", "sending",
           "shutting", "off", "waiting"}
ProcState == [at : Places, batch : Seq(Nat), tries : 0..ExRetries - 1, flush : BOOLEAN,
              closing : BOOLEAN]

Processes == Shipping!Procs
BatchOf(w) == p6[w].batch
Sends(w) == p6[w].at = "sending"

\* Only a process that sends has a batch.
ProcInv ==
    /\ p6 \in [Processes -> ProcState]
    /\ \A w \in Processes : Len(BatchOf(w)) <= ExBatchSize /\ (~Sends(w) => BatchOf(w) = <<>>)

\* An event is in one place at most, and an accepted one is somewhere.
PlacesInv ==
    /\ p8 \in Nat \ {0} /\ p2 \in Seq(Nat) /\ Distinct(p2)
    /\ Elems(p2) \subseteq 1..p8 - 1 /\ p10 \subseteq 1..p8 - 1 /\ p12 \subseteq 1..p8 - 1
    /\ \A w \in Processes : /\ Distinct(BatchOf(w)) /\ Elems(BatchOf(w)) \subseteq 1..p8 - 1
                            /\ Elems(BatchOf(w)) \cap Elems(p2) = {}
    /\ \A v, w \in Processes : v # w => Elems(BatchOf(v)) \cap Elems(BatchOf(w)) = {}
    /\ p1 # "splunk" => \A e \in 1..p8 - 1 :
                            \/ e \in Elems(p2) \cup p10 \cup p12
                            \/ \E w \in Processes : e \in Elems(BatchOf(w))

\* One sender: what is under way is in order, and before what waits; an event the endpoint
\* has not got is later than all it has.
OrderInv ==
    /\ p11 \in BOOLEAN /\ p13 \in BOOLEAN
    /\ p1 # "webhook" /\ ~p13 =>
         /\ p11 /\ Rising(p2)
         /\ \A v, w \in Processes : Sends(v) /\ Sends(w) => v = w
         /\ \A w \in Processes : /\ Rising(BatchOf(w))
                                 /\ \A e \in Elems(BatchOf(w)), f \in Elems(p2) : e < f
         /\ \A w \in Processes : \A e \in Elems(BatchOf(w)), f \in p10 : e < f => e \in p10
         /\ \A e \in Elems(p2), f \in p10 : e < f => e \in p10

\* Splunk's exporter sends in the call, and only what the endpoint has not got.
SplunkInv ==
    /\ p1 \in {"none", "cloud", "splunk", "webhook"}
    /\ p9 \in [sent : Nat, errors : Nat]
    /\ p1 = "none" => p2 = <<>> /\ p8 = 1 /\ p9.sent = 0 /\ p9.errors = 0
    /\ p1 \in {"none", "splunk"} => \A w \in Processes : p6[w].at \in {"idle", "off"}
    /\ p1 = "splunk" => /\ p9.sent + p9.errors + Len(p2) = p8 - 1
                        /\ p9.sent <= Cardinality(p10) /\ Len(p2) < ExBatchSize
                        /\ Elems(p2) \cap p10 = {}

OtherInv == p5 \in ExCallers \cup {"none"} /\ p7 \in 0..ExCalls

ShippingInv == ProcInv /\ PlacesInv /\ OrderInv /\ SplunkInv /\ OtherInv

LEMMA ElemsAre ==
  ASSUME NEW s
  PROVE  /\ \A i \in 1..Len(s) : s[i] \in Elems(s)
         /\ \A e \in Elems(s) : \E i \in 1..Len(s) : e = s[i]
  BY DEF Elems

LEMMA ElemsAppend ==
  ASSUME NEW s \in Seq(Nat), NEW n \in Nat, NEW u, u = Append(s, n)
  PROVE  /\ u \in Seq(Nat) /\ Len(u) = Len(s) + 1 /\ Elems(u) = Elems(s) \cup {n}
         /\ Distinct(s) /\ n \notin Elems(s) => Distinct(u)
         /\ Rising(s) /\ (\A e \in Elems(s) : e < n) => Rising(u)
<1>1. /\ u \in Seq(Nat) /\ Len(u) = Len(s) + 1 /\ u[Len(s) + 1] = n /\ Len(s) \in Nat
      /\ \A i \in 1..Len(s) : u[i] = s[i]
  BY AppendProperties, LenProperties
<1>2. 1..Len(u) = 1..Len(s) \cup {Len(s) + 1}
  BY <1>1
<1>3. Elems(u) = Elems(s) \cup {n}
  BY <1>1, <1>2 DEF Elems
<1>4. ASSUME Distinct(s), n \notin Elems(s) PROVE Distinct(u)
  BY <1>1, <1>2, <1>4 DEF Distinct, Elems
<1>5. ASSUME Rising(s), \A e \in Elems(s) : e < n PROVE Rising(u)
  <2> SUFFICES ASSUME NEW i \in 1..Len(u), NEW j \in 1..Len(u), i < j PROVE u[i] < u[j]
    BY DEF Rising
  <2>1. i \in 1..Len(s)
    BY <1>1
  <2>2. CASE j = Len(s) + 1
    BY <1>1, <1>5, <2>1, <2>2 DEF Elems
  <2>3. CASE j # Len(s) + 1
    BY <1>1, <1>2, <1>5, <2>1, <2>3 DEF Rising
  <2> QED
    BY <2>2, <2>3
<1> QED
  BY <1>1, <1>3, <1>4, <1>5

Cut(s, k, b, r) == k \in 0..Len(s) /\ b = SubSeq(s, 1, k) /\ r = SubSeq(s, k + 1, Len(s))

Taken(s, k, b, r) ==
    /\ b \in Seq(Nat) /\ r \in Seq(Nat) /\ Len(b) = k /\ Len(r) = Len(s) - k
    /\ Elems(s) = Elems(b) \cup Elems(r)
    /\ Distinct(s) => Distinct(b) /\ Distinct(r) /\ Elems(b) \cap Elems(r) = {}
    /\ Rising(s) => Rising(b) /\ Rising(r) /\ \A e \in Elems(b), f \in Elems(r) : e < f

LEMMA ElemsTake ==
  ASSUME NEW s \in Seq(Nat), NEW k, NEW b, NEW r, Cut(s, k, b, r)
  PROVE  Taken(s, k, b, r)
<1>0. k \in 0..Len(s) /\ b = SubSeq(s, 1, k) /\ r = SubSeq(s, k + 1, Len(s))
  BY DEF Cut
<1>1. Len(s) \in Nat /\ k \in Nat /\ k <= Len(s) /\ \A i \in 1..Len(s) : s[i] \in Nat
  BY <1>0, LenProperties
<1>2. b \in Seq(Nat) /\ Len(b) = k /\ \A i \in 1..k : b[i] = s[i]
  BY <1>0, <1>1, SubSeqProperties
<1>3. r \in Seq(Nat) /\ Len(r) = Len(s) - k /\ \A i \in 1..(Len(s) - k) : r[i] = s[k + i]
  <2>1. k + 1 \in 1..Len(s) + 1
    BY <1>1
  <2>2. /\ Rest(s, k + 1) \in Seq(Nat) /\ Len(Rest(s, k + 1)) = Len(s) - (k + 1) + 1
        /\ \A i \in 1..(Len(s) - (k + 1) + 1) : Rest(s, k + 1)[i] = s[(k + 1) + i - 1]
    BY <2>1, RestIs
  <2>3. Len(s) - (k + 1) + 1 = Len(s) - k /\ \A i \in Nat : (k + 1) + i - 1 = k + i
    BY <1>1
  <2>4. r = Rest(s, k + 1)
    BY <1>0 DEF Rest
  <2>5. ASSUME NEW i \in 1..(Len(s) - k) PROVE r[i] = s[k + i]
    <3>1. i \in 1..(Len(s) - (k + 1) + 1) /\ (k + 1) + i - 1 = k + i
      BY <1>1
    <3> QED
      BY <2>2, <2>4, <3>1
  <2> QED
    BY <2>2, <2>3, <2>4, <2>5
<1>4. \A i \in 1..Len(s) : i \in 1..k \/ (i - k \in 1..(Len(s) - k) /\ i = k + (i - k))
  BY <1>1
<1>5. \A i \in 1..k : i \in 1..Len(s)
  BY <1>1
<1>6. \A i \in 1..(Len(s) - k) : k + i \in 1..Len(s) /\ k < k + i
  BY <1>1
<1>7. Elems(s) = Elems(b) \cup Elems(r)
  <2>1. ASSUME NEW e \in Elems(s) PROVE e \in Elems(b) \cup Elems(r)
    <3>1. PICK i \in 1..Len(s) : e = s[i]
      BY <2>1 DEF Elems
    <3>2. CASE i \in 1..k
      BY <1>2, <3>1, <3>2 DEF Elems
    <3>3. CASE i - k \in 1..(Len(s) - k) /\ i = k + (i - k)
      <4>1. PICK j \in 1..(Len(s) - k) : i = k + j
        BY <3>3
      <4> QED
        BY <1>3, <3>1, <4>1 DEF Elems
    <3> QED
      BY <1>4, <3>2, <3>3
  <2>2. ASSUME NEW e \in Elems(b) PROVE e \in Elems(s)
    BY <1>2, <1>5 DEF Elems
  <2>3. ASSUME NEW e \in Elems(r) PROVE e \in Elems(s)
    BY <1>3, <1>6 DEF Elems
  <2> QED
    BY <2>1, <2>2, <2>3
<1>8. ASSUME Distinct(s)
      PROVE  Distinct(b) /\ Distinct(r) /\ Elems(b) \cap Elems(r) = {}
  <2>1. Distinct(b)
    BY <1>2, <1>5, <1>8 DEF Distinct
  <2>2. Distinct(r)
    <3> SUFFICES ASSUME NEW i \in 1..(Len(s) - k), NEW j \in 1..(Len(s) - k), r[i] = r[j]
                 PROVE  i = j
      BY <1>3 DEF Distinct
    <3>1. k + i = k + j
      BY <1>3, <1>6, <1>8 DEF Distinct
    <3> QED
      BY <1>1, <3>1
  <2>3. ASSUME NEW i \in 1..k, NEW j \in 1..(Len(s) - k), b[i] = r[j] PROVE FALSE
    <3>1. PICK l : l = k + j /\ l \in 1..Len(s) /\ k < l
      BY <1>6
    <3>2. i \in 1..Len(s) /\ s[i] = s[l]
      BY <1>2, <1>3, <1>5, <2>3, <3>1
    <3>3. i = l
      BY <1>8, <3>1, <3>2 DEF Distinct
    <3> QED
      BY <1>1, <3>1, <3>3
  <2>4. ASSUME NEW e, e \in Elems(b), e \in Elems(r) PROVE FALSE
    <3>1. PICK i \in 1..k : e = b[i]
      BY <1>2, <2>4, ElemsAre
    <3>2. PICK j \in 1..(Len(s) - k) : e = r[j]
      BY <1>3, <2>4, ElemsAre
    <3> QED
      BY <2>3, <3>1, <3>2
  <2> QED
    BY <2>1, <2>2, <2>4
<1>9. ASSUME Rising(s)
      PROVE  Rising(b) /\ Rising(r) /\ \A e \in Elems(b), f \in Elems(r) : e < f
  <2>1. Rising(b)
    BY <1>2, <1>5, <1>9 DEF Rising
  <2>2. Rising(r)
    <3> SUFFICES ASSUME NEW i \in 1..(Len(s) - k), NEW j \in 1..(Len(s) - k), i < j
                 PROVE  r[i] < r[j]
      BY <1>3 DEF Rising
    <3>1. k + i < k + j
      BY <1>1
    <3> QED
      BY <1>3, <1>6, <1>9, <3>1 DEF Rising
  <2>3. ASSUME NEW i \in 1..k, NEW j \in 1..(Len(s) - k) PROVE b[i] < r[j]
    <3>1. i < k + j
      BY <1>1
    <3> QED
      BY <1>2, <1>3, <1>5, <1>6, <1>9, <3>1 DEF Rising
  <2>4. ASSUME NEW e \in Elems(b), NEW f \in Elems(r) PROVE e < f
    <3>1. PICK i \in 1..k : e = b[i]
      BY <1>2, ElemsAre
    <3>2. PICK j \in 1..(Len(s) - k) : f = r[j]
      BY <1>3, ElemsAre
    <3> QED
      BY <2>3, <3>1, <3>2
  <2> QED
    BY <2>1, <2>2, <2>4
<1> QED
  BY <1>2, <1>3, <1>7, <1>8, <1>9 DEF Taken

LEMMA ElemsJoin ==
  ASSUME NEW b \in Seq(Nat), NEW q \in Seq(Nat), NEW u, u = b \o q
  PROVE  /\ u \in Seq(Nat) /\ Len(u) = Len(b) + Len(q) /\ Elems(u) = Elems(b) \cup Elems(q)
         /\ Distinct(b) /\ Distinct(q) /\ Elems(b) \cap Elems(q) = {} => Distinct(u)
         /\ Rising(b) /\ Rising(q) /\ (\A e \in Elems(b), f \in Elems(q) : e < f) => Rising(u)
<1>1. PICK m, n : m = Len(b) /\ n = Len(q) /\ m \in Nat /\ n \in Nat
  BY LenProperties
<1>2. /\ u \in Seq(Nat) /\ Len(u) = m + n
      /\ \A i \in 1..m + n : u[i] = IF i <= m THEN b[i] ELSE q[i - m]
  BY <1>1, ConcatProperties
<1>3. \A i \in 1..m : i \in 1..m + n /\ u[i] = b[i]
  BY <1>1, <1>2
<1>4. \A j \in 1..n : m + j \in 1..m + n /\ u[m + j] = q[j]
  <2> SUFFICES ASSUME NEW j \in 1..n PROVE m + j \in 1..m + n /\ u[m + j] = q[j]
    OBVIOUS
  <2>1. m + j \in 1..m + n /\ ~ (m + j <= m) /\ (m + j) - m = j
    BY <1>1
  <2> QED
    BY <1>2, <2>1
<1>5. \A i \in 1..m + n : i \in 1..m \/ (\E j \in 1..n : i = m + j)
  <2> SUFFICES ASSUME NEW i \in 1..m + n, i \notin 1..m PROVE \E j \in 1..n : i = m + j
    OBVIOUS
  <2>1. i - m \in 1..n /\ i = m + (i - m)
    BY <1>1
  <2> QED
    BY <2>1
<1>6. Elems(u) = Elems(b) \cup Elems(q)
  <2>1. ASSUME NEW e \in Elems(u) PROVE e \in Elems(b) \cup Elems(q)
    <3>1. PICK i \in 1..m + n : e = u[i]
      BY <1>2, <2>1 DEF Elems
    <3>2. CASE i \in 1..m
      BY <1>1, <1>3, <3>1, <3>2 DEF Elems
    <3>3. CASE \E j \in 1..n : i = m + j
      BY <1>1, <1>4, <3>1, <3>3 DEF Elems
    <3> QED
      BY <1>5, <3>2, <3>3
  <2>2. ASSUME NEW e \in Elems(b) PROVE e \in Elems(u)
    BY <1>1, <1>2, <1>3 DEF Elems
  <2>3. ASSUME NEW e \in Elems(q) PROVE e \in Elems(u)
    BY <1>1, <1>2, <1>4 DEF Elems
  <2> QED
    BY <2>1, <2>2, <2>3
<1>7. ASSUME Distinct(b), Distinct(q), Elems(b) \cap Elems(q) = {} PROVE Distinct(u)
  <2> SUFFICES ASSUME NEW i \in 1..m + n, NEW j \in 1..m + n, u[i] = u[j] PROVE i = j
    BY <1>2 DEF Distinct
  <2>1. CASE i \in 1..m /\ j \in 1..m
    BY <1>1, <1>3, <1>7, <2>1 DEF Distinct
  <2>0. ASSUME NEW c \in 1..m, NEW k \in 1..n, u[c] = u[m + k] PROVE FALSE
    <3>1. b[c] = q[k]
      BY <1>3, <1>4, <2>0
    <3>2. b[c] \in Elems(b) /\ q[k] \in Elems(q)
      BY <1>1, ElemsAre
    <3> QED
      BY <1>7, <3>1, <3>2
  <2>2. CASE i \in 1..m /\ \E k \in 1..n : j = m + k
    BY <2>0, <2>2
  <2>3. CASE j \in 1..m /\ \E k \in 1..n : i = m + k
    BY <2>0, <2>3
  <2>4. CASE (\E k \in 1..n : i = m + k) /\ (\E k \in 1..n : j = m + k)
    <3>1. PICK k \in 1..n, l \in 1..n : i = m + k /\ j = m + l
      BY <2>4
    <3>2. k = l
      BY <1>1, <1>4, <1>7, <3>1 DEF Distinct
    <3> QED
      BY <3>1, <3>2
  <2> QED
    BY <1>5, <2>1, <2>2, <2>3, <2>4
<1>8. ASSUME Rising(b), Rising(q), \A e \in Elems(b), f \in Elems(q) : e < f PROVE Rising(u)
  <2> SUFFICES ASSUME NEW i \in 1..m + n, NEW j \in 1..m + n, i < j PROVE u[i] < u[j]
    BY <1>2 DEF Rising
  <2>1. CASE i \in 1..m /\ j \in 1..m
    BY <1>1, <1>3, <1>8, <2>1 DEF Rising
  <2>2. CASE i \in 1..m /\ \E k \in 1..n : j = m + k
    BY <1>1, <1>3, <1>4, <1>8, <2>2 DEF Elems
  <2>3. CASE j \in 1..m /\ \E k \in 1..n : i = m + k
    BY <1>1, <2>3
  <2>4. CASE (\E k \in 1..n : i = m + k) /\ (\E k \in 1..n : j = m + k)
    <3>1. PICK k \in 1..n, l \in 1..n : i = m + k /\ j = m + l
      BY <2>4
    <3>2. k < l
      BY <1>1, <3>1
    <3> QED
      BY <1>1, <1>4, <1>8, <3>1, <3>2 DEF Rising
  <2> QED
    BY <1>5, <2>1, <2>2, <2>3, <2>4
<1> QED
  BY <1>1, <1>2, <1>6, <1>7, <1>8

LEMMA ElemsEmpty ==
  /\ <<>> \in Seq(Nat) /\ Len(<<>>) = 0 /\ Elems(<<>>) = {} /\ Distinct(<<>>) /\ Rising(<<>>)
<1>1. 1..0 = {} /\ Len(<<>>) = 0
  OBVIOUS
<1> QED
  BY <1>1 DEF Elems, Distinct, Rising

LEMMA ElemsRange ==
  ASSUME NEW s \in Seq(Nat)
  PROVE  Shipping!Range(s) = Elems(s)
<1>1. DOMAIN s = 1..Len(s)
  BY LenProperties
<1> QED
  BY <1>1 DEF Shipping!Range, Elems

(* The records of the processes.                                             *)
LEMMA FreshIs ==
  ASSUME NEW place \in Places, NEW r, r = Shipping!Fresh(place) \/ r = Shipping!Closing(place)
  PROVE  r \in ProcState /\ r.at = place /\ r.batch = <<>>
<1>1. 0 \in 0..ExRetries - 1 /\ <<>> \in Seq(Nat)
  BY ShippingAssumption
<1>2. PICK f : f = Shipping!Fresh(place)
  OBVIOUS
<1>3. f = [at |-> place, batch |-> <<>>, tries |-> 0, flush |-> FALSE, closing |-> FALSE]
  BY <1>2 DEF Shipping!Fresh
<1>4. f \in ProcState /\ f.at = place /\ f.batch = <<>>
  BY <1>1, <1>3 DEF ProcState
<1>5. CASE r = f
  BY <1>4, <1>5
<1>6. CASE r = [f EXCEPT !.closing = TRUE]
  BY <1>4, <1>6 DEF ProcState
<1> QED
  BY <1>2, <1>5, <1>6 DEF Shipping!Closing

LEMMA GoIs ==
  ASSUME NEW p \in ProcState, NEW place \in Places, NEW r, r = Shipping!Go(p, place)
  PROVE  r \in ProcState /\ r.at = place /\ r.batch = p.batch
  BY DEF Shipping!Go, ProcState

LEMMA RestingIs ==
  ASSUME NEW w, NEW r, r = Shipping!Rest(w)
  PROVE  r \in ProcState /\ r.at \in {"idle", "off"} /\ r.batch = <<>>
<1>1. r = Shipping!Fresh("idle") \/ r = Shipping!Fresh("off")
  BY DEF Shipping!Rest
<1>2. "idle" \in Places /\ "off" \in Places
  BY DEF Places
<1> QED
  BY <1>1, <1>2, FreshIs

LEMMA SettledIs ==
  ASSUME NEW w, NEW r, r = Shipping!Settled(w) \/ r = Shipping!Refused(w) \/ r = Shipping!Rest(w)
  PROVE  r \in ProcState /\ r.at # "sending" /\ r.batch = <<>>
<1>1. r = Shipping!Fresh("waiting") \/ r = Shipping!Closing("shutting") \/ r = Shipping!Rest(w)
  BY DEF Shipping!Settled, Shipping!Refused
<1>2. "waiting" \in Places /\ "shutting" \in Places
  BY DEF Places
<1> QED
  BY <1>1, <1>2, FreshIs, RestingIs

(* One process moves.                                                        *)
LEMMA MoveIs ==
  ASSUME NEW w \in Processes, NEW r \in ProcState, p6 \in [Processes -> ProcState],
         p6' = [p6 EXCEPT ![w] = r]
  PROVE  /\ p6' \in [Processes -> ProcState] /\ p6'[w] = r
         /\ \A v \in Processes : v # w => p6'[v] = p6[v]
  OBVIOUS

LEMMA ShippingInit == Shipping!Init => ShippingInv
<1> SUFFICES ASSUME Shipping!Init PROVE ShippingInv
  OBVIOUS
<1> USE ShippingAssumption
<1>1. /\ p1 = "none" /\ p2 = <<>> /\ p5 = "none" /\ p7 = 0 /\ p8 = 1 /\ p10 = {} /\ p12 = {}
      /\ p9 = [sent |-> 0, errors |-> 0] /\ p11 = TRUE /\ p13 = FALSE
      /\ p6 = [w \in Processes |-> Shipping!Rest(w)]
  BY DEF Shipping!Init, Processes
<1>2. /\ p6 \in [Processes -> ProcState]
      /\ \A w \in Processes : p6[w].at \in {"idle", "off"} /\ p6[w].batch = <<>>
  BY <1>1, RestingIs
<1>3. ProcInv
  BY <1>2, ElemsEmpty DEF ProcInv, BatchOf
<1>4. PlacesInv
  BY <1>1, <1>2, ElemsEmpty DEF PlacesInv, BatchOf
<1>5. OrderInv
  BY <1>1, <1>2, ElemsEmpty DEF OrderInv, BatchOf, Sends
<1>6. SplunkInv
  BY <1>1, <1>2 DEF SplunkInv
<1> QED
  BY <1>1, <1>3, <1>4, <1>5, <1>6 DEF ShippingInv, OtherInv

(* The endpoint may get a batch, that of a sender: what holds of the order.  *)
Got(s) ==
    \/ UNCHANGED <<p10, p11>>
    \/ /\ p10' = p10 \cup Elems(s)
       /\ p11' = (p11 /\ \A i \in 1..Len(s) : s[i] \notin p10 =>
                           /\ \A e \in p10 : e < s[i]
                           /\ \A j \in 1..Len(s) : j < i => s[j] <= s[i])
Received(w) == Got(BatchOf(w))

LEMMA ReceiveIs ==
  ASSUME NEW s \in Seq(Nat), Shipping!Receive(s) \/ UNCHANGED <<p10, p11>>
  PROVE  Got(s)
<1>1. DOMAIN s = 1..Len(s) /\ Shipping!Range(s) = Elems(s)
  BY LenProperties, ElemsRange
<1>2. CASE UNCHANGED <<p10, p11>>
  BY <1>2 DEF Got
<1>3. CASE Shipping!Receive(s)
  <2>1. p10' = p10 \cup Elems(s)
    BY <1>1, <1>3 DEF Shipping!Receive
  <2>2. p11' = (p11 /\ \A i \in DOMAIN s : s[i] \notin p10 =>
                           /\ \A e \in p10 : e < s[i]
                           /\ \A j \in DOMAIN s : j < i => s[j] <= s[i])
    BY <1>3, Zenon DEF Shipping!Receive
  <2> QED
    BY <1>1, <2>1, <2>2, Zenon DEF Got
<1> QED
  BY <1>2, <1>3

LEMMA BatchIs ==
  ASSUME ProcInv, NEW w \in Processes
  PROVE  BatchOf(w) \in Seq(Nat) /\ Len(BatchOf(w)) \in Nat /\ Elems(BatchOf(w)) \subseteq Nat
<1>1. p6[w] \in ProcState
  BY DEF ProcInv
<1>2. BatchOf(w) \in Seq(Nat)
  BY <1>1 DEF ProcState, BatchOf
<1> QED
  BY <1>2, LenProperties, ElementOfSeq DEF Elems

LEMMA ReceivedKeeps ==
  ASSUME ProcInv, PlacesInv, OrderInv, NEW w \in Processes, Sends(w), Received(w)
  PROVE  /\ p10 \subseteq p10' /\ p10' \subseteq p10 \cup Elems(BatchOf(w)) /\ p11' \in BOOLEAN
         /\ p1 # "webhook" /\ ~p13 =>
              /\ p11'
              /\ \A e \in Elems(p2), f \in p10' : e < f => e \in p10'
              /\ \A v \in Processes : \A e \in Elems(BatchOf(v)), f \in p10' : e < f => e \in p10'
<1>1. CASE UNCHANGED <<p10, p11>>
  BY <1>1 DEF OrderInv
<1>2. CASE ~ (UNCHANGED <<p10, p11>>)
  <2>1. PICK b : b = BatchOf(w)
    OBVIOUS
  <2>2. /\ p10' = p10 \cup Elems(b)
        /\ p11' = (p11 /\ \A i \in 1..Len(b) : b[i] \notin p10 =>
                           /\ \A e \in p10 : e < b[i]
                           /\ \A j \in 1..Len(b) : j < i => b[j] <= b[i])
    BY <1>2, <2>1 DEF Received, Got
  <2>3. /\ b \in Seq(Nat) /\ Elems(b) \subseteq Nat /\ p10 \subseteq Nat
        /\ \A i \in 1..Len(b) : b[i] \in Elems(b)
    BY <2>1, BatchIs, ElemsAre DEF PlacesInv
  <2>4. p11' \in BOOLEAN
    BY <2>2, Zenon
  <2>5. ASSUME p1 # "webhook" /\ ~p13
        PROVE  /\ p11'
               /\ \A e \in Elems(p2), f \in p10' : e < f => e \in p10'
               /\ \A v \in Processes : \A e \in Elems(BatchOf(v)), f \in p10' : e < f => e \in p10'
    <3>1. /\ p11 /\ Rising(b) /\ \A e \in Elems(b), f \in Elems(p2) : e < f
          /\ \A e \in Elems(b), f \in p10 : e < f => e \in p10
          /\ \A e \in Elems(p2), f \in p10 : e < f => e \in p10
          /\ \A v \in Processes : Sends(v) => v = w
      BY <2>1, <2>5, Zenon DEF OrderInv
    <3>2. ASSUME NEW i \in 1..Len(b), b[i] \notin p10
          PROVE  /\ \A e \in p10 : e < b[i]
                 /\ \A j \in 1..Len(b) : j < i => b[j] <= b[i]
      <4>1. b[i] \in Elems(b) /\ b[i] \in Nat
        BY <2>3
      <4>2. ASSUME NEW e \in p10 PROVE e < b[i]
        <5>1. e # b[i] /\ e \in Nat /\ ~ (b[i] < e)
          BY <2>3, <3>1, <3>2, <4>1
        <5> QED
          BY <4>1, <5>1
      <4>3. ASSUME NEW j \in 1..Len(b), j < i PROVE b[j] <= b[i]
        BY <2>3, <3>1, <4>3 DEF Rising
      <4> QED
        BY <4>2, <4>3
    <3>3. p11'
      BY <2>2, <3>1, <3>2, Zenon
    <3>4. ASSUME NEW e \in Elems(p2), NEW f \in p10', e < f PROVE e \in p10'
      <4>1. CASE f \in p10
        BY <2>2, <3>1, <3>4, <4>1
      <4>2. CASE f \in Elems(b)
        <5>1. f < e /\ f \in Nat /\ e \in Nat
          BY <2>3, <3>1, <4>2 DEF PlacesInv
        <5> QED
          BY <3>4, <5>1
      <4> QED
        BY <2>2, <4>1, <4>2
    <3>5. ASSUME NEW v \in Processes, NEW e \in Elems(BatchOf(v)), NEW f \in p10', e < f
          PROVE  e \in p10'
      <4>1. CASE v = w
        BY <2>1, <2>2, <4>1
      <4>2. CASE v # w
        <5>1. BatchOf(v) = <<>>
          BY <3>1, <4>2 DEF ProcInv
        <5> QED
          BY <5>1, ElemsEmpty
      <4> QED
        BY <4>1, <4>2
    <3> QED
      BY <3>3, <3>4, <3>5
  <2> QED
    BY <2>1, <2>2, <2>4, <2>5
<1> QED
  BY <1>1, <1>2

(* A process moves on and what is under way stays where it is.               *)
LEMMA NothingMoves ==
  ASSUME ProcInv, PlacesInv, OrderInv, SplunkInv, p1 \notin {"none", "splunk"},
         p6' \in [Processes -> ProcState],
         \A v \in Processes : /\ p6'[v].batch = p6[v].batch
                              /\ p6'[v].at = "sending" <=> p6[v].at = "sending",
         UNCHANGED <<p1, p2, p8, p9, p12, p13>>,
         UNCHANGED <<p10, p11>> \/ \E w \in Processes : Sends(w) /\ Received(w)
  PROVE  ProcInv' /\ PlacesInv' /\ OrderInv' /\ SplunkInv'
<1>1. \A v \in Processes : BatchOf(v)' = BatchOf(v) /\ (Sends(v)' <=> Sends(v))
  BY DEF BatchOf, Sends
<1>2. /\ p10 \subseteq p10' /\ p11' \in BOOLEAN
      /\ p10' \subseteq 1..p8 - 1
      /\ p1 # "webhook" /\ ~p13 =>
           /\ p11'
           /\ \A e \in Elems(p2), f \in p10' : e < f => e \in p10'
           /\ \A v \in Processes : \A e \in Elems(BatchOf(v)), f \in p10' : e < f => e \in p10'
  <2>1. CASE UNCHANGED <<p10, p11>>
    BY <2>1 DEF OrderInv, PlacesInv
  <2>2. CASE \E w \in Processes : Sends(w) /\ Received(w)
    BY <2>2, ReceivedKeeps DEF PlacesInv
  <2> QED
    BY <2>1, <2>2
<1>3. ProcInv'
  BY <1>1 DEF ProcInv
<1>4. PlacesInv'
  BY <1>1, <1>2 DEF PlacesInv
<1>5. OrderInv'
  BY <1>1, <1>2 DEF OrderInv
<1>6. SplunkInv'
  BY DEF SplunkInv
<1> QED
  BY <1>3, <1>4, <1>5, <1>6

LEMMA OneMovesOn ==
  ASSUME ProcInv, PlacesInv, OrderInv, SplunkInv, p1 \notin {"none", "splunk"},
         NEW w \in Processes, NEW r \in ProcState, p6' = [p6 EXCEPT ![w] = r],
         r.batch = p6[w].batch, r.at = "sending" <=> p6[w].at = "sending",
         UNCHANGED <<p1, p2, p8, p9, p12, p13>>,
         UNCHANGED <<p10, p11>> \/ (Sends(w) /\ Received(w))
  PROVE  ProcInv' /\ PlacesInv' /\ OrderInv' /\ SplunkInv'
<1>1. /\ p6' \in [Processes -> ProcState] /\ p6'[w] = r
      /\ \A v \in Processes : v # w => p6'[v] = p6[v]
  BY MoveIs DEF ProcInv
<1>2. \A v \in Processes : /\ p6'[v].batch = p6[v].batch
                           /\ p6'[v].at = "sending" <=> p6[v].at = "sending"
  BY <1>1
<1> QED
  BY <1>1, <1>2, NothingMoves

(* The events that are new to the exporter are later than all it has.        *)
LEMMA NextIsNew ==
  ASSUME PlacesInv
  PROVE  /\ p8 \in Nat /\ p8 >= 1
         /\ \A e \in Elems(p2) \cup p10 : e \in Nat /\ e < p8
         /\ \A w \in Processes : \A e \in Elems(BatchOf(w)) : e \in Nat /\ e < p8
         /\ 1..p8 - 1 \subseteq 1..(p8 + 1) - 1 /\ p8 \in 1..(p8 + 1) - 1
         /\ 1..(p8 + 1) - 1 = 1..p8 - 1 \cup {p8}
<1>1. p8 \in Nat /\ p8 >= 1
  BY DEF PlacesInv
<1>2. \A e \in 1..p8 - 1 : e \in Nat /\ e < p8
  BY <1>1
<1>3. 1..(p8 + 1) - 1 = 1..p8 - 1 \cup {p8}
  BY <1>1
<1> QED
  BY <1>1, <1>2, <1>3 DEF PlacesInv

(* An accepted event is put into the queue.                                  *)
LEMMA AppendKeeps ==
  ASSUME ProcInv, PlacesInv, OrderInv, SplunkInv, p1 \notin {"none", "splunk"},
         NEW w \in Processes, NEW r \in ProcState, p6' = [p6 EXCEPT ![w] = r],
         r.batch = <<>>, r.at # "sending", ~Sends(w),
         p2' = Append(p2, p8), p8' = p8 + 1, UNCHANGED <<p1, p9, p10, p11, p12, p13>>
  PROVE  ProcInv' /\ PlacesInv' /\ OrderInv' /\ SplunkInv'
<1>1. /\ p6' \in [Processes -> ProcState] /\ p6'[w] = r
      /\ \A v \in Processes : v # w => p6'[v] = p6[v]
  BY MoveIs DEF ProcInv
<1>2. \A v \in Processes : BatchOf(v)' = BatchOf(v) /\ (Sends(v)' <=> Sends(v))
  BY <1>1 DEF BatchOf, Sends, ProcInv
<1>3. p2 \in Seq(Nat) /\ p8 \in Nat
  BY NextIsNew DEF PlacesInv
<1>4. /\ p2' \in Seq(Nat) /\ Len(p2') = Len(p2) + 1 /\ Elems(p2') = Elems(p2) \cup {p8}
      /\ Distinct(p2) /\ p8 \notin Elems(p2) => Distinct(p2')
      /\ Rising(p2) /\ (\A e \in Elems(p2) : e < p8) => Rising(p2')
  BY <1>3, ElemsAppend
<1>5. ProcInv'
  BY <1>1, <1>2 DEF ProcInv
<1>6. PlacesInv'
  <2>1. p8 \notin Elems(p2) /\ \A v \in Processes : p8 \notin Elems(BatchOf(v))
    BY NextIsNew
  <2>2. p8' \in Nat \ {0} /\ p2' \in Seq(Nat) /\ Distinct(p2')
    BY <1>3, <1>4, <2>1 DEF PlacesInv
  <2>3. Elems(p2') \subseteq 1..p8' - 1 /\ p10' \subseteq 1..p8' - 1 /\ p12' \subseteq 1..p8' - 1
    BY <1>4, NextIsNew DEF PlacesInv
  <2>4. \A v \in Processes : /\ Distinct(BatchOf(v)) /\ Elems(BatchOf(v)) \subseteq 1..p8' - 1
                             /\ Elems(BatchOf(v)) \cap Elems(p2') = {}
    BY <1>4, <2>1, NextIsNew DEF PlacesInv
  <2>5. \A e \in 1..p8' - 1 : \/ e \in Elems(p2') \cup p10' \cup p12'
                              \/ \E v \in Processes : e \in Elems(BatchOf(v))
    BY <1>4, NextIsNew DEF PlacesInv
  <2> QED
    BY <1>2, <2>2, <2>3, <2>4, <2>5 DEF PlacesInv
<1>7. OrderInv'
  <2>1. CASE p1 # "webhook" /\ ~p13
    <3>1. /\ p11 /\ Rising(p2')
          /\ \A v \in Processes : \A e \in Elems(BatchOf(v)), f \in Elems(p2') : e < f
          /\ \A e \in Elems(p2'), f \in p10 : e < f => e \in p10
      <4>1. Rising(p2') /\ p11
        BY <1>4, <2>1, NextIsNew DEF OrderInv
      <4>2. ASSUME NEW v \in Processes, NEW e \in Elems(BatchOf(v)), NEW f \in Elems(p2')
            PROVE  e < f
        BY <1>4, <2>1, NextIsNew DEF OrderInv
      <4>3. ASSUME NEW e \in Elems(p2'), NEW f \in p10, e < f PROVE e \in p10
        <5>1. f < p8 /\ f \in Nat
          BY NextIsNew
        <5>2. e # p8
          BY <4>3, <5>1, NextIsNew
        <5> QED
          BY <1>4, <2>1, <4>3, <5>2 DEF OrderInv
      <4> QED
        BY <4>1, <4>2, <4>3
    <3> QED
      BY <1>2, <2>1, <3>1 DEF OrderInv
  <2>2. CASE ~ (p1 # "webhook" /\ ~p13)
    BY <2>2 DEF OrderInv
  <2> QED
    BY <2>1, <2>2
<1>8. SplunkInv'
  BY DEF SplunkInv
<1> QED
  BY <1>5, <1>6, <1>7, <1>8

(* A process takes a batch from the front of the queue.                      *)
LEMMA TakeKeeps ==
  ASSUME ProcInv, PlacesInv, OrderInv, SplunkInv, p1 \notin {"none", "splunk"},
         NEW w \in Processes, NEW r \in ProcState, p6' = [p6 EXCEPT ![w] = r],
         NEW k \in 0..Len(p2), k <= ExBatchSize, NEW b, b = SubSeq(p2, 1, k),
         r.batch = b, r.at = "sending", ~Sends(w),
         p2' = SubSeq(p2, k + 1, Len(p2)), p13' \in BOOLEAN,
         ~p13' => ~p13 /\ \A v \in Processes : ~Sends(v),
         UNCHANGED <<p1, p8, p9, p10, p11, p12>>
  PROVE  ProcInv' /\ PlacesInv' /\ OrderInv' /\ SplunkInv'
<1>1. /\ p6' \in [Processes -> ProcState] /\ p6'[w] = r
      /\ \A v \in Processes : v # w => p6'[v] = p6[v]
  BY MoveIs DEF ProcInv
<1>2. /\ BatchOf(w)' = b /\ Sends(w)' /\ BatchOf(w) = <<>>
      /\ \A v \in Processes : v # w => BatchOf(v)' = BatchOf(v) /\ (Sends(v)' <=> Sends(v))
  BY <1>1 DEF BatchOf, Sends, ProcInv
<1>3. p2 \in Seq(Nat)
  BY DEF PlacesInv
<1>4. /\ b \in Seq(Nat) /\ p2' \in Seq(Nat) /\ Len(b) = k
      /\ Elems(p2) = Elems(b) \cup Elems(p2')
      /\ Distinct(p2) => Distinct(b) /\ Distinct(p2') /\ Elems(b) \cap Elems(p2') = {}
      /\ Rising(p2) => /\ Rising(b) /\ Rising(p2')
                       /\ \A e \in Elems(b), f \in Elems(p2') : e < f
  <2>1. PICK s, u : s = p2 /\ u = p2'
    OBVIOUS
  <2>2. s \in Seq(Nat) /\ Cut(s, k, b, u)
    BY <1>3, <2>1 DEF Cut
  <2>3. Taken(s, k, b, u)
    BY <2>2, ElemsTake, Zenon
  <2> QED
    BY <2>1, <2>3 DEF Taken
<1>5. ProcInv'
  BY <1>1, <1>2, <1>4 DEF ProcInv
<1>6. PlacesInv'
  <2>0. /\ Distinct(b) /\ Distinct(p2') /\ Elems(b) \cap Elems(p2') = {}
        /\ Elems(b) \subseteq 1..p8 - 1 /\ Elems(p2') \subseteq 1..p8 - 1
        /\ Elems(b) \subseteq Elems(p2) /\ Elems(p2') \subseteq Elems(p2)
    BY <1>4 DEF PlacesInv
  <2>1. \A v \in Processes : /\ Distinct(BatchOf(v)') /\ Elems(BatchOf(v)') \subseteq 1..p8 - 1
                             /\ Elems(BatchOf(v)') \cap Elems(p2') = {}
    <3> SUFFICES ASSUME NEW v \in Processes
                 PROVE  /\ Distinct(BatchOf(v)') /\ Elems(BatchOf(v)') \subseteq 1..p8 - 1
                        /\ Elems(BatchOf(v)') \cap Elems(p2') = {}
      OBVIOUS
    <3>1. CASE v = w
      BY <1>2, <2>0, <3>1
    <3>2. CASE v # w
      <4>1. /\ Distinct(BatchOf(v)) /\ Elems(BatchOf(v)) \subseteq 1..p8 - 1
            /\ Elems(BatchOf(v)) \cap Elems(p2) = {}
        BY DEF PlacesInv
      <4> QED
        BY <1>2, <2>0, <3>2, <4>1
    <3> QED
      BY <3>1, <3>2
  <2>2. ASSUME NEW u \in Processes, NEW v \in Processes, u # v
        PROVE  Elems(BatchOf(u)') \cap Elems(BatchOf(v)') = {}
    <3>1. Elems(BatchOf(u)) \cap Elems(BatchOf(v)) = {}
      BY <2>2 DEF PlacesInv
    <3>2. /\ Elems(BatchOf(u)) \cap Elems(p2) = {} /\ Elems(BatchOf(v)) \cap Elems(p2) = {}
          /\ Elems(b) \subseteq Elems(p2)
      BY <1>4 DEF PlacesInv
    <3> QED
      BY <1>2, <2>2, <3>1, <3>2
  <2>3. ASSUME p1 # "splunk", NEW e \in 1..p8 - 1
        PROVE  \/ e \in Elems(p2') \cup p10 \cup p12
               \/ \E v \in Processes : e \in Elems(BatchOf(v)')
    <3>1. CASE e \in Elems(p2) \cup p10 \cup p12
      BY <1>2, <1>4, <3>1
    <3>2. CASE \E v \in Processes : e \in Elems(BatchOf(v))
      <4>1. PICK v \in Processes : e \in Elems(BatchOf(v))
        BY <3>2
      <4>2. v # w
        BY <1>2, <4>1, ElemsEmpty
      <4> QED
        BY <1>2, <4>1, <4>2
    <3> QED
      BY <2>3, <3>1, <3>2 DEF PlacesInv
  <2> QED
    BY <1>4, <2>0, <2>1, <2>2, <2>3 DEF PlacesInv
<1>7. OrderInv'
  <2>1. CASE p1 # "webhook" /\ ~p13'
    <3>1. /\ ~p13 /\ \A v \in Processes : ~Sends(v) /\ BatchOf(v) = <<>>
      BY <2>1 DEF ProcInv
    <3>2. p11 /\ Rising(p2) /\ \A e \in Elems(p2), f \in p10 : e < f => e \in p10
      BY <2>1, <3>1 DEF OrderInv
    <3>3. \A v \in Processes : v # w => BatchOf(v)' = <<>> /\ ~Sends(v)'
      BY <1>2, <3>1
    <3>4. \A u, v \in Processes : Sends(u)' /\ Sends(v)' => u = v
      BY <3>3
    <3>5. \A v \in Processes : /\ Rising(BatchOf(v)')
                               /\ \A e \in Elems(BatchOf(v)'), f \in Elems(p2') : e < f
      BY <1>2, <1>4, <3>2, <3>3, ElemsEmpty
    <3>6. \A v \in Processes : \A e \in Elems(BatchOf(v)'), f \in p10 : e < f => e \in p10
      BY <1>2, <1>4, <3>2, <3>3, ElemsEmpty
    <3>7. \A e \in Elems(p2'), f \in p10 : e < f => e \in p10
      BY <1>4, <3>2
    <3>8. p11 \in BOOLEAN /\ Rising(p2')
      BY <1>4, <3>2 DEF OrderInv
    <3> QED
      BY <3>2, <3>4, <3>5, <3>6, <3>7, <3>8 DEF OrderInv
  <2>2. CASE ~ (p1 # "webhook" /\ ~p13')
    BY <2>2 DEF OrderInv
  <2> QED
    BY <2>1, <2>2
<1>8. SplunkInv'
  BY DEF SplunkInv
<1> QED
  BY <1>5, <1>6, <1>7, <1>8

(* A batch is settled: received, refused, or put back in front of the queue. *)
LEMMA SettleKeeps ==
  ASSUME ProcInv, PlacesInv, OrderInv, SplunkInv, p1 \notin {"none", "splunk"},
         NEW w \in Processes, NEW r \in ProcState, p6' = [p6 EXCEPT ![w] = r],
         r.batch = <<>>, r.at # "sending", Sends(w), Received(w),
         p2' = p2 \/ p2' = BatchOf(w) \o p2,
         p12' = p12 \/ p12' = p12 \cup Elems(BatchOf(w)),
         Elems(BatchOf(w)) \subseteq Elems(p2') \cup p10' \cup p12',
         UNCHANGED <<p1, p8, p9, p13>>
  PROVE  ProcInv' /\ PlacesInv' /\ OrderInv' /\ SplunkInv'
<1>1. /\ p6' \in [Processes -> ProcState] /\ p6'[w] = r
      /\ \A v \in Processes : v # w => p6'[v] = p6[v]
  BY MoveIs DEF ProcInv
<1>2. /\ BatchOf(w)' = <<>> /\ ~Sends(w)'
      /\ \A v \in Processes : v # w => BatchOf(v)' = BatchOf(v) /\ (Sends(v)' <=> Sends(v))
  BY <1>1 DEF BatchOf, Sends
<1>3. PICK b : b = BatchOf(w)
  OBVIOUS
<1>4. b \in Seq(Nat) /\ p2 \in Seq(Nat) /\ Elems(b) \cap Elems(p2) = {} /\ Distinct(b)
      /\ Distinct(p2) /\ Elems(b) \subseteq 1..p8 - 1
  BY <1>3, BatchIs DEF PlacesInv
<1>5. /\ p2' \in Seq(Nat) /\ Distinct(p2') /\ Elems(p2) \subseteq Elems(p2')
      /\ Elems(p2') \subseteq Elems(b) \cup Elems(p2)
      /\ Rising(b) /\ Rising(p2) /\ (\A e \in Elems(b), f \in Elems(p2) : e < f) => Rising(p2')
  <2>1. CASE p2' = p2
    BY <1>4, <2>1
  <2>2. CASE p2' = b \o p2
    <3>1. PICK q, u : q = p2 /\ u = p2'
      OBVIOUS
    <3>2. q \in Seq(Nat) /\ u = b \o q
      BY <1>4, <2>2, <3>1
    <3>3. /\ u \in Seq(Nat) /\ Elems(u) = Elems(b) \cup Elems(q)
          /\ Distinct(b) /\ Distinct(q) /\ Elems(b) \cap Elems(q) = {} => Distinct(u)
          /\ Rising(b) /\ Rising(q) /\ (\A e \in Elems(b), f \in Elems(q) : e < f) => Rising(u)
      BY <1>4, <3>2, ElemsJoin
    <3> QED
      BY <1>4, <3>1, <3>3
  <2> QED
    BY <1>3, <2>1, <2>2
<1>6. /\ p10 \subseteq p10' /\ p10' \subseteq p10 \cup Elems(b) /\ p11' \in BOOLEAN
      /\ p1 # "webhook" /\ ~p13 =>
           /\ p11'
           /\ \A e \in Elems(p2), f \in p10' : e < f => e \in p10'
           /\ \A v \in Processes : \A e \in Elems(BatchOf(v)), f \in p10' : e < f => e \in p10'
  BY <1>3, ReceivedKeeps
<1>7. ProcInv'
  BY <1>1, <1>2, ElemsEmpty, ShippingAssumption DEF ProcInv
<1>8. PlacesInv'
  <2>1. \A v \in Processes : /\ Distinct(BatchOf(v)') /\ Elems(BatchOf(v)') \subseteq 1..p8 - 1
                             /\ Elems(BatchOf(v)') \cap Elems(p2') = {}
    <3> SUFFICES ASSUME NEW v \in Processes
                 PROVE  /\ Distinct(BatchOf(v)') /\ Elems(BatchOf(v)') \subseteq 1..p8 - 1
                        /\ Elems(BatchOf(v)') \cap Elems(p2') = {}
      OBVIOUS
    <3>1. CASE v = w
      BY <1>2, <3>1, ElemsEmpty
    <3>2. CASE v # w
      <4>1. /\ Elems(BatchOf(v)) \cap Elems(b) = {} /\ Elems(BatchOf(v)) \cap Elems(p2) = {}
            /\ Distinct(BatchOf(v)) /\ Elems(BatchOf(v)) \subseteq 1..p8 - 1
        BY <1>3, <3>2 DEF PlacesInv
      <4> QED
        BY <1>2, <1>5, <3>2, <4>1
    <3> QED
      BY <3>1, <3>2
  <2>2. \A u, v \in Processes : u # v => Elems(BatchOf(u)') \cap Elems(BatchOf(v)') = {}
    BY <1>2, ElemsEmpty DEF PlacesInv
  <2>3. ASSUME p1 # "splunk", NEW e \in 1..p8 - 1
        PROVE  \/ e \in Elems(p2') \cup p10' \cup p12'
               \/ \E v \in Processes : e \in Elems(BatchOf(v)')
    <3>1. CASE e \in Elems(p2) \cup p10 \cup p12
      BY <1>5, <1>6, <3>1
    <3>2. CASE \E v \in Processes : e \in Elems(BatchOf(v))
      BY <1>2, <1>3, <3>2
    <3> QED
      BY <2>3, <3>1, <3>2 DEF PlacesInv
  <2>4. Elems(p2') \subseteq 1..p8 - 1 /\ p10' \subseteq 1..p8 - 1 /\ p12' \subseteq 1..p8 - 1
    BY <1>3, <1>4, <1>5, <1>6 DEF PlacesInv
  <2> QED
    BY <1>5, <2>1, <2>2, <2>3, <2>4 DEF PlacesInv
<1>9. OrderInv'
  <2>1. CASE p1 # "webhook" /\ ~p13
    <3>1. /\ Rising(b) /\ Rising(p2) /\ \A e \in Elems(b), f \in Elems(p2) : e < f
          /\ \A v \in Processes : v # w => ~Sends(v) /\ BatchOf(v) = <<>>
      BY <1>3, <2>1 DEF OrderInv, ProcInv
    <3>2. \A v \in Processes : BatchOf(v)' = <<>> /\ ~Sends(v)'
      BY <1>2, <3>1
    <3>3. \A e \in Elems(p2'), f \in p10' : e < f => e \in p10'
      BY <1>3, <1>5, <1>6, <2>1
    <3> QED
      BY <1>5, <1>6, <2>1, <3>1, <3>2, <3>3, ElemsEmpty DEF OrderInv
  <2>2. CASE ~ (p1 # "webhook" /\ ~p13)
    BY <1>6, <2>2 DEF OrderInv
  <2> QED
    BY <2>1, <2>2
<1>10. SplunkInv'
  BY DEF SplunkInv
<1> QED
  BY <1>7, <1>8, <1>9, <1>10

(* A sequence whose elements differ has as many as it is long.               *)
LEMMA ShippingCardinality == \A S : Shipping!Cardinality(S) = Cardinality(S)
  BY DEF Shipping!Cardinality, Cardinality

LEMMA DistinctCount ==
  ASSUME NEW s \in Seq(Nat), Distinct(s)
  PROVE  IsFiniteSet(Elems(s)) /\ Cardinality(Elems(s)) = Len(s)
<1>1. PICK n, S : n \in Nat /\ n = Len(s) /\ S = Elems(s) /\ \A i \in 1..n : s[i] \in S
  BY LenProperties, ElemsAre
<1>2. s \in [1..n -> S]
  BY <1>1, LenProperties
<1>3. s \in Bijection(1..n, S)
  <2>1. \A i, j \in 1..n : s[i] = s[j] => i = j
    BY <1>1 DEF Distinct
  <2>2. \A e \in S : \E i \in 1..n : s[i] = e
    BY <1>1, ElemsAre
  <2> QED
    BY <1>2, <2>1, <2>2, Fun_IsBij
<1>4. ExistsBijection(1..n, S)
  BY <1>3, Fun_ExistsBij
<1>5. IsFiniteSet(1..n) /\ Cardinality(1..n) = n
  <2>1. 1 \in Int /\ n \in Int /\ (IF 1 > n THEN 0 ELSE n - 1 + 1) = n
    BY <1>1
  <2> QED
    BY <2>1, FS_Interval, Zenon
<1> QED
  BY <1>1, <1>4, <1>5, FS_Bijection

LEMMA UnionCount ==
  ASSUME NEW n \in Nat, NEW R, R \subseteq 1..n, NEW s \in Seq(Nat), Distinct(s),
         Elems(s) \cap R = {}
  PROVE  /\ Cardinality(R) \in Nat
         /\ Cardinality(R \cup Elems(s)) = Cardinality(R) + Len(s)
<1>1. IsFiniteSet(R) /\ Cardinality(R) \in Nat
  <2>1. 1 \in Int /\ n \in Int /\ R \in SUBSET (1..n)
    OBVIOUS
  <2>2. IsFiniteSet(1..n)
    BY <2>1, FS_Interval, Zenon
  <2> QED
    BY <2>1, <2>2, FS_Subset, FS_CardinalityType, Zenon
<1>2. PICK m, c, S : m = Len(s) /\ c = Cardinality(R) /\ S = Elems(s) /\ m \in Nat /\ c \in Nat
  BY <1>1, LenProperties
<1>3. IsFiniteSet(S) /\ Cardinality(S) = m /\ R \cap S = {} /\ Cardinality({}) = 0
  BY <1>2, DistinctCount, FS_EmptySet
<1>4. Cardinality(R \cup S) = Cardinality(R) + Cardinality(S) - Cardinality(R \cap S)
  BY <1>1, <1>3, FS_Union
<1>5. Cardinality(R \cup S) = c + m
  <2>1. Cardinality(R \cup S) = c + m - 0
    BY <1>2, <1>3, <1>4, Zenon
  <2> QED
    BY <1>2, <2>1
<1> QED
  BY <1>1, <1>2, <1>5

(* A webhook posts its event itself.                                         *)
LEMMA PostKeeps ==
  ASSUME ProcInv, PlacesInv, OrderInv, SplunkInv, p1 = "webhook",
         NEW w \in Processes, NEW r \in ProcState, p6' = [p6 EXCEPT ![w] = r],
         r.batch = <<p8>>, r.at = "sending", ~Sends(w), p8' = p8 + 1,
         UNCHANGED <<p1, p2, p9, p10, p11, p12, p13>>
  PROVE  ProcInv' /\ PlacesInv' /\ OrderInv' /\ SplunkInv'
<1>1. /\ p6' \in [Processes -> ProcState] /\ p6'[w] = r
      /\ \A v \in Processes : v # w => p6'[v] = p6[v]
  BY MoveIs DEF ProcInv
<1>2. PICK b : b = <<p8>>
  OBVIOUS
<1>3. /\ BatchOf(w)' = b /\ Sends(w)' /\ BatchOf(w) = <<>>
      /\ \A v \in Processes : v # w => BatchOf(v)' = BatchOf(v) /\ (Sends(v)' <=> Sends(v))
  BY <1>1, <1>2 DEF BatchOf, Sends, ProcInv
<1>4. Len(b) = 1 /\ Elems(b) = {p8} /\ Distinct(b)
  <2>1. b = Append(<<>>, p8) /\ p8 \in Nat
    BY <1>2, NextIsNew
  <2> QED
    <3>1. PICK s : s = <<>>
      OBVIOUS
    <3>2. /\ s \in Seq(Nat) /\ Len(s) = 0 /\ Elems(s) = {} /\ Distinct(s)
          /\ b = Append(s, p8)
      BY <2>1, <3>1, ElemsEmpty
    <3>3. /\ Len(b) = Len(s) + 1 /\ Elems(b) = Elems(s) \cup {p8}
          /\ Distinct(s) /\ p8 \notin Elems(s) => Distinct(b)
      BY <2>1, <3>2, ElemsAppend
    <3> QED
      BY <3>2, <3>3
<1>5. ProcInv'
  <2>1. 1 <= ExBatchSize
    BY ShippingAssumption
  <2>2. ASSUME NEW v \in Processes
        PROVE  Len(BatchOf(v)') <= ExBatchSize /\ (~Sends(v)' => BatchOf(v)' = <<>>)
    <3>1. CASE v = w
      BY <1>3, <1>4, <2>1, <3>1
    <3>2. CASE v # w
      BY <1>3, <3>2 DEF ProcInv
    <3> QED
      BY <3>1, <3>2
  <2> QED
    BY <1>1, <2>2 DEF ProcInv
<1>6. /\ p8 \in 1..p8' - 1 /\ p8' \in Nat \ {0} /\ 1..p8' - 1 = 1..p8 - 1 \cup {p8}
      /\ p8 \notin Elems(p2) /\ \A v \in Processes : p8 \notin Elems(BatchOf(v))
  BY NextIsNew
<1>7. PlacesInv'
  <2>1. \A v \in Processes : /\ Distinct(BatchOf(v)') /\ Elems(BatchOf(v)') \subseteq 1..p8' - 1
                             /\ Elems(BatchOf(v)') \cap Elems(p2) = {}
    <3> SUFFICES ASSUME NEW v \in Processes
                 PROVE  /\ Distinct(BatchOf(v)') /\ Elems(BatchOf(v)') \subseteq 1..p8' - 1
                        /\ Elems(BatchOf(v)') \cap Elems(p2) = {}
      OBVIOUS
    <3>1. CASE v = w
      BY <1>3, <1>4, <1>6, <3>1
    <3>2. CASE v # w
      BY <1>3, <1>6, <3>2 DEF PlacesInv
    <3> QED
      BY <3>1, <3>2
  <2>2. ASSUME NEW u \in Processes, NEW v \in Processes, u # v
        PROVE  Elems(BatchOf(u)') \cap Elems(BatchOf(v)') = {}
    <3>1. Elems(BatchOf(u)) \cap Elems(BatchOf(v)) = {}
      BY <2>2 DEF PlacesInv
    <3> QED
      BY <1>3, <1>4, <1>6, <2>2, <3>1
  <2>3. ASSUME NEW e \in 1..p8' - 1
        PROVE  \/ e \in Elems(p2) \cup p10 \cup p12
               \/ \E v \in Processes : e \in Elems(BatchOf(v)')
    <3>1. CASE e = p8
      BY <1>3, <1>4, <3>1
    <3>2. CASE e \in Elems(p2) \cup p10 \cup p12
      BY <3>2
    <3>3. CASE \E v \in Processes : e \in Elems(BatchOf(v))
      <4>1. PICK v \in Processes : e \in Elems(BatchOf(v))
        BY <3>3
      <4>2. v # w
        BY <1>3, <4>1, ElemsEmpty
      <4> QED
        BY <1>3, <4>1, <4>2
    <3> QED
      BY <1>6, <3>1, <3>2, <3>3 DEF PlacesInv
  <2>4. /\ p2 \in Seq(Nat) /\ Distinct(p2) /\ Elems(p2) \subseteq 1..p8' - 1
        /\ p10 \subseteq 1..p8' - 1 /\ p12 \subseteq 1..p8' - 1
    BY <1>6 DEF PlacesInv
  <2> QED
    BY <1>6, <2>1, <2>2, <2>3, <2>4 DEF PlacesInv
<1>8. OrderInv'
  BY DEF OrderInv
<1>9. SplunkInv'
  BY DEF SplunkInv
<1> QED
  BY <1>5, <1>7, <1>8, <1>9

(* Splunk's exporter: what its pending events are before they are sent.      *)
Pending(s, n) ==
    /\ s \in Seq(Nat) /\ Distinct(s) /\ Elems(s) \subseteq 1..n - 1 /\ Elems(s) \cap p10 = {}
    /\ n \in Nat \ {0} /\ p8 <= n /\ p9.sent + p9.errors + Len(s) = n - 1
    /\ ~p13 => Rising(s) /\ \A e \in Elems(s), f \in p10 : f < e

LEMMA PendingIs ==
  ASSUME PlacesInv, OrderInv, SplunkInv, p1 = "splunk"
  PROVE  Pending(p2, p8) /\ Pending(Append(p2, p8), p8 + 1)
<1>1. /\ p2 \in Seq(Nat) /\ Distinct(p2) /\ Elems(p2) \subseteq 1..p8 - 1
      /\ Elems(p2) \cap p10 = {} /\ p8 \in Nat \ {0} /\ p10 \subseteq 1..p8 - 1
  BY DEF PlacesInv, SplunkInv
<1>2. PICK a, b, m : a = p9.sent /\ b = p9.errors /\ m = Len(p2) /\ a \in Nat /\ b \in Nat
                     /\ m \in Nat
  BY <1>1, LenProperties DEF SplunkInv
<1>3. a + b + m = p8 - 1
  BY <1>2 DEF SplunkInv
<1>4. ~p13 => Rising(p2) /\ \A e \in Elems(p2), f \in p10 : f < e
  <2> SUFFICES ASSUME ~p13 PROVE Rising(p2) /\ \A e \in Elems(p2), f \in p10 : f < e
    OBVIOUS
  <2>1. Rising(p2) /\ \A e \in Elems(p2), f \in p10 : e < f => e \in p10
    BY DEF OrderInv
  <2>2. ASSUME NEW e \in Elems(p2), NEW f \in p10 PROVE f < e
    <3>1. e \in Nat /\ f \in Nat /\ e # f /\ ~ (e < f)
      BY <1>1, <2>1
    <3> QED
      BY <3>1
  <2> QED
    BY <2>1, <2>2
<1>5. Pending(p2, p8)
  BY <1>1, <1>2, <1>3, <1>4 DEF Pending
<1>6. PICK u : u = Append(p2, p8)
  OBVIOUS
<1>7. /\ u \in Seq(Nat) /\ Len(u) = m + 1 /\ Elems(u) = Elems(p2) \cup {p8}
      /\ Distinct(p2) /\ p8 \notin Elems(p2) => Distinct(u)
      /\ Rising(p2) /\ (\A e \in Elems(p2) : e < p8) => Rising(u)
  BY <1>1, <1>2, <1>6, ElemsAppend
<1>8. /\ p8 + 1 \in Nat \ {0} /\ p8 <= p8 + 1 /\ a + b + (m + 1) = (p8 + 1) - 1
      /\ \A e \in Elems(p2) \cup p10 : e < p8 /\ e \in Nat
  <2>1. p8 + 1 \in Nat \ {0} /\ p8 <= p8 + 1
    BY <1>1
  <2>2. PICK c \in Nat : c = p8
    BY <1>1
  <2>3. a + b + (m + 1) = (p8 + 1) - 1
    BY <1>2, <1>3, <2>2
  <2> QED
    BY <2>1, <2>3, NextIsNew
<1>9. Distinct(u) /\ Elems(u) \subseteq 1..(p8 + 1) - 1 /\ Elems(u) \cap p10 = {}
  BY <1>1, <1>7, <1>8, NextIsNew
<1>10. ~p13 => Rising(u) /\ \A e \in Elems(u), f \in p10 : f < e
  BY <1>4, <1>7, <1>8
<1>11. Pending(u, p8 + 1)
  BY <1>2, <1>7, <1>8, <1>9, <1>10 DEF Pending
<1> QED
  BY <1>5, <1>6, <1>11

\* Nothing is under way in Splunk's exporter between two calls.
LEMMA NobodySends ==
  ASSUME ProcInv, SplunkInv, p1 = "splunk"
  PROVE  \A w \in Processes : ~Sends(w) /\ BatchOf(w) = <<>>
  BY DEF ProcInv, SplunkInv, Sends

LEMMA PendKeeps ==
  ASSUME ProcInv, PlacesInv, OrderInv, SplunkInv, p1 = "splunk", NEW s, NEW n, Pending(s, n),
         p2' = s, p8' = n, Len(s) < ExBatchSize, UNCHANGED <<p1, p6, p9, p10, p11, p12, p13>>
  PROVE  ProcInv' /\ PlacesInv' /\ OrderInv' /\ SplunkInv'
<1>1. /\ s \in Seq(Nat) /\ Distinct(s) /\ Elems(s) \subseteq 1..n - 1 /\ Elems(s) \cap p10 = {}
      /\ n \in Nat \ {0} /\ p8 <= n /\ p9.sent + p9.errors + Len(s) = n - 1
      /\ ~p13 => Rising(s) /\ \A e \in Elems(s), f \in p10 : f < e
  BY DEF Pending
<1>2. \A w \in Processes : BatchOf(w)' = BatchOf(w) /\ (Sends(w)' <=> Sends(w))
  BY DEF BatchOf, Sends
<1>3. ProcInv'
  BY <1>2 DEF ProcInv
<1>4. \A e \in 1..p8 - 1 : e \in 1..n - 1
  BY <1>1 DEF PlacesInv
<1>5. PlacesInv'
  BY <1>1, <1>2, <1>4, NobodySends, ElemsEmpty DEF PlacesInv
<1>6. OrderInv'
  <2>1. CASE p13
    BY <2>1 DEF OrderInv
  <2>2. CASE ~p13
    <3>1. /\ p11 /\ \A v, w \in Processes : Sends(v) /\ Sends(w) => v = w
          /\ p11 \in BOOLEAN /\ p13 \in BOOLEAN
      BY <2>2 DEF OrderInv
    <3>2. ASSUME NEW e \in Elems(s), NEW f \in p10, e < f PROVE FALSE
      <4>1. f < e /\ e \in Nat /\ f \in Nat
        BY <1>1, <2>2 DEF PlacesInv
      <4> QED
        BY <3>2, <4>1
    <3> QED
      BY <1>1, <1>2, <2>2, <3>1, <3>2, NobodySends, ElemsEmpty DEF OrderInv
  <2> QED
    BY <2>1, <2>2 DEF OrderInv
<1>7. SplunkInv'
  BY <1>1 DEF SplunkInv
<1> QED
  BY <1>3, <1>5, <1>6, <1>7

LEMMA SendKeeps ==
  ASSUME ProcInv, PlacesInv, OrderInv, SplunkInv, p1 = "splunk", NEW s, NEW n, Pending(s, n),
         p2' = <<>>, p8' = n, UNCHANGED <<p1, p6, p12, p13>>, Got(s), NEW m, m = Len(s),
         \/ p9' = [p9 EXCEPT !.sent = @ + m] /\ p10' = p10 \cup Elems(s)
         \/ p9' = [p9 EXCEPT !.errors = @ + m]
  PROVE  ProcInv' /\ PlacesInv' /\ OrderInv' /\ SplunkInv'
<1>1. /\ s \in Seq(Nat) /\ Distinct(s) /\ Elems(s) \subseteq 1..n - 1 /\ Elems(s) \cap p10 = {}
      /\ n \in Nat \ {0} /\ p8 <= n /\ p9.sent + p9.errors + m = n - 1
      /\ ~p13 => Rising(s) /\ \A e \in Elems(s), f \in p10 : f < e
  BY DEF Pending
<1>2. \A w \in Processes : BatchOf(w)' = <<>> /\ ~Sends(w)'
  BY NobodySends DEF BatchOf, Sends
<1>3. /\ m \in Nat /\ p8 \in Nat \ {0} /\ p10 \subseteq 1..p8 - 1 /\ p12 \subseteq 1..p8 - 1
      /\ \A e \in 1..p8 - 1 : e \in 1..n - 1
  BY <1>1, LenProperties DEF PlacesInv
<1>4. /\ p10' = p10 \/ p10' = p10 \cup Elems(s)
      /\ p11' \in BOOLEAN /\ (~p13 => p11')
  <2>1. CASE UNCHANGED <<p10, p11>>
    BY <2>1 DEF OrderInv
  <2>2. CASE ~ (UNCHANGED <<p10, p11>>)
    <3>1. /\ p10' = p10 \cup Elems(s)
          /\ p11' = (p11 /\ \A i \in 1..Len(s) : s[i] \notin p10 =>
                           /\ \A e \in p10 : e < s[i]
                           /\ \A j \in 1..Len(s) : j < i => s[j] <= s[i])
      BY <2>2 DEF Got
    <3>2. p11' \in BOOLEAN
      BY <3>1, Zenon
    <3>3. ASSUME ~p13 PROVE p11'
      <4>1. p11 /\ Rising(s)
        BY <1>1, <3>3 DEF OrderInv
      <4>2. ASSUME NEW i \in 1..Len(s)
            PROVE  /\ \A e \in p10 : e < s[i]
                   /\ \A j \in 1..Len(s) : j < i => s[j] <= s[i]
        <5>1. \A e \in p10 : e < s[i]
          BY <1>1, <3>3, ElemsAre
        <5>2. ASSUME NEW j \in 1..Len(s), j < i PROVE s[j] <= s[i]
          <6>1. s[j] < s[i] /\ s[j] \in Nat /\ s[i] \in Nat
            BY <1>1, <4>1, <5>2, ElementOfSeq DEF Rising
          <6> QED
            BY <6>1
        <5> QED
          BY <5>1, <5>2
      <4> QED
        BY <3>1, <4>1, <4>2, Zenon
    <3> QED
      BY <3>1, <3>2, <3>3
  <2> QED
    BY <2>1, <2>2
<1>5. ProcInv'
  BY <1>2, ElemsEmpty, ShippingAssumption DEF ProcInv
<1>6. PlacesInv'
  BY <1>1, <1>2, <1>3, <1>4, ElemsEmpty DEF PlacesInv
<1>7. OrderInv'
  BY <1>2, <1>4, ElemsEmpty DEF OrderInv
<1>8. SplunkInv'
  <2>1. p9 \in [sent : Nat, errors : Nat] /\ p9.sent <= Cardinality(p10)
    BY DEF SplunkInv
  <2>2. PICK a, b : a = p9.sent /\ b = p9.errors /\ a \in Nat /\ b \in Nat /\ a + b + m = n - 1
    BY <1>1, <2>1
  <2>3. p10 \subseteq 1..n - 1 /\ n - 1 \in Nat
    BY <1>1, <1>3
  <2>4. PICK c : c = Cardinality(p10) /\ c \in Nat /\ Cardinality(p10 \cup Elems(s)) = c + m
    BY <1>1, <2>3, UnionCount
  <2>5. Cardinality(p10') = c \/ Cardinality(p10') = c + m
    BY <1>4, <2>4
  <2>6. p9' \in [sent : Nat, errors : Nat] /\ p9'.sent + p9'.errors + 0 = n - 1
    <3>1. CASE p9' = [p9 EXCEPT !.sent = @ + m]
      <4>1. p9' \in [sent : Nat, errors : Nat] /\ p9'.sent = a + m /\ p9'.errors = b
        BY <1>3, <2>1, <2>2, <3>1
      <4> QED
        BY <1>3, <2>2, <4>1
    <3>2. CASE p9' = [p9 EXCEPT !.errors = @ + m]
      <4>1. p9' \in [sent : Nat, errors : Nat] /\ p9'.sent = a /\ p9'.errors = b + m
        BY <1>3, <2>1, <2>2, <3>2
      <4> QED
        BY <1>3, <2>2, <4>1
    <3> QED
      BY <3>1, <3>2
  <2>7. p9'.sent <= Cardinality(p10')
    <3>1. CASE p9' = [p9 EXCEPT !.sent = @ + m] /\ p10' = p10 \cup Elems(s)
      BY <1>3, <2>1, <2>2, <2>4, <3>1
    <3>2. CASE p9' = [p9 EXCEPT !.errors = @ + m]
      <4>1. p9'.sent = a
        BY <2>1, <2>2, <3>2
      <4> QED
        BY <1>3, <2>1, <2>2, <2>4, <2>5, <4>1
    <3> QED
      BY <3>1, <3>2
  <2>8. Len(p2') = 0 /\ 0 < ExBatchSize /\ Elems(p2') = {}
    BY ElemsEmpty, ShippingAssumption
  <2>9. p1' = "splunk" /\ \A w \in Processes : p6'[w].at \in {"idle", "off"}
    BY DEF SplunkInv
  <2> QED
    BY <2>6, <2>7, <2>8, <2>9 DEF SplunkInv
<1> QED
  BY <1>5, <1>6, <1>7, <1>8

(* The exporter of a behaviour is chosen.                                    *)
LEMMA ChooseKeeps == ShippingInv /\ Shipping!choose_exporter => ShippingInv'
<1> SUFFICES ASSUME ShippingInv, Shipping!choose_exporter PROVE ShippingInv'
  OBVIOUS
<1>1. /\ p1 = "none" /\ p1' \in {"cloud", "splunk", "webhook"}
      /\ UNCHANGED <<p2, p5, p6, p7, p8, p9, p10, p11, p12, p13>>
  BY DEF Shipping!choose_exporter, Shipping!Kinds, Shipping!endpointVars, Shipping!receivedVars
<1>2. /\ p2 = <<>> /\ p8 = 1 /\ p9.sent = 0 /\ p9.errors = 0 /\ p10 \subseteq 1..p8 - 1
      /\ p9 \in [sent : Nat, errors : Nat]
      /\ \A w \in Processes : p6[w].at \in {"idle", "off"} /\ BatchOf(w) = <<>>
  BY <1>1 DEF ShippingInv, ProcInv, PlacesInv, SplunkInv, Sends
<1>3. 1..p8 - 1 = {} /\ p10 = {} /\ Cardinality({}) = 0
  BY <1>2, FS_EmptySet
<1>4. \A w \in Processes : BatchOf(w)' = <<>> /\ ~Sends(w)'
  BY <1>1, <1>2 DEF BatchOf, Sends
<1>5. ProcInv'
  BY <1>1, <1>4, ElemsEmpty, ShippingAssumption DEF ShippingInv, ProcInv
<1>6. PlacesInv'
  BY <1>1, <1>2, <1>3, <1>4, ElemsEmpty DEF ShippingInv, PlacesInv
<1>7. OrderInv'
  BY <1>1, <1>2, <1>3, <1>4, ElemsEmpty DEF ShippingInv, OrderInv
<1>8. SplunkInv'
  <2>1. 0 < ExBatchSize
    BY ShippingAssumption
  <2>2. p9.sent + p9.errors + Len(<<>>) = p8 - 1
    BY <1>2, ElemsEmpty
  <2>3. Cardinality(p10) = 0
    BY <1>3
  <2> QED
    BY <1>1, <1>2, <1>3, <2>1, <2>2, <2>3, ElemsEmpty DEF SplunkInv
<1> QED
  BY <1>1, <1>5, <1>6, <1>7, <1>8 DEF ShippingInv, OtherInv

(* The caller and the flush thread of a thread.                              *)
LEMMA ProcessesAre ==
  ASSUME NEW t \in ExCallers
  PROVE  Shipping!Caller(t) \in Processes /\ Shipping!Loop(t) \in Processes
  BY DEF Processes, Shipping!Procs, Shipping!Caller, Shipping!Loop

\* A process at work: the exporter is one with processes.
LEMMA AtWork ==
  ASSUME ShippingInv, NEW w \in Processes, NEW place, Shipping!At(w, place),
         place \notin {"idle", "off"}
  PROVE  p1 \notin {"none", "splunk"} /\ p6[w].at = place /\ p6[w] \in ProcState
         /\ (place # "sending" => ~Sends(w)) /\ (place = "sending" => Sends(w))
  BY DEF ShippingInv, ProcInv, SplunkInv, Shipping!At, Sends

NextCall == p7' = p7 \/ (p7 < ExCalls /\ p7' = p7 + 1)
NothingShips == UNCHANGED <<p1, p2, p5, p8, p9, p10, p11, p12, p13>>

LEMMA Counting ==
  ASSUME OtherInv, NextCall, p5' = p5 PROVE OtherInv'
  BY ShippingAssumption DEF OtherInv, NextCall

\* A process that has no batch moves on.
LEMMA MovesOn ==
  ASSUME ShippingInv, p1 \notin {"none", "splunk"}, NEW w \in Processes, NEW r,
         Shipping!Move(w, r), r \in ProcState, ~Sends(w), r.at # "sending", r.batch = <<>>,
         NextCall, NothingShips
  PROVE  ShippingInv'
<1>1. p6' = [p6 EXCEPT ![w] = r]
  BY DEF Shipping!Move
<1>2. r.batch = p6[w].batch /\ (r.at = "sending" <=> p6[w].at = "sending")
  BY DEF ShippingInv, ProcInv, BatchOf, Sends
<1>3. ProcInv' /\ PlacesInv' /\ OrderInv' /\ SplunkInv'
  BY <1>1, <1>2, OneMovesOn DEF ShippingInv, NothingShips
<1>4. OtherInv'
  BY Counting DEF ShippingInv, NothingShips
<1> QED
  BY <1>3, <1>4 DEF ShippingInv

LEMMA ExportKeeps ==
  ASSUME ShippingInv, NEW t \in ExCallers, Shipping!export(t) PROVE ShippingInv'
<1>0. PICK w \in Processes : w = Shipping!Caller(t)
  BY ProcessesAre
<1>1. PICK r : r = Shipping!Fresh("appending")
  OBVIOUS
<1>2. /\ p1 = "cloud" /\ Shipping!At(w, "idle") /\ Shipping!NewCall /\ Shipping!Move(w, r)
      /\ NothingShips
  BY <1>0, <1>1 DEF Shipping!export, NothingShips, Shipping!endpointVars, Shipping!receivedVars
<1>3. "appending" \in Places /\ "appending" # "sending"
  BY DEF Places
<1>4. r \in ProcState /\ r.at # "sending" /\ r.batch = <<>>
  BY <1>1, <1>3, FreshIs
<1>5. ~Sends(w) /\ NextCall
  BY <1>2 DEF Shipping!At, Sends, Shipping!NewCall, NextCall
<1> QED
  BY <1>2, <1>4, <1>5, MovesOn

LEMMA AppendingKeeps ==
  ASSUME ShippingInv, NEW t \in ExCallers, Shipping!append(t) PROVE ShippingInv'
<1>0. PICK w \in Processes : w = Shipping!Caller(t)
  BY ProcessesAre
<1>1. PICK f : f = Shipping!Fresh("ensuring")
  OBVIOUS
<1>2. /\ Shipping!At(w, "appending")
      /\ UNCHANGED <<p1, p5, p7, p9, p10, p11, p12, p13>>
  BY <1>0 DEF Shipping!append, Shipping!endpointVars, Shipping!receivedVars
<1>3. /\ p1 \notin {"none", "splunk"} /\ ~Sends(w)
  BY <1>2, AtWork
<1>4. "ensuring" \in Places /\ "ensuring" # "sending"
  BY DEF Places
<1>5. f \in ProcState /\ f.at = "ensuring" /\ f.batch = <<>>
  BY <1>1, <1>4, FreshIs
<1>6. CASE Len(p2) < ExQueueSize
  <2>1. p2' = Append(p2, p8) /\ p8' = p8 + 1
    BY <1>6 DEF Shipping!append
  <2>2. PICK a \in BOOLEAN : a <=> Len(p2') >= ExBatchSize
    <3>1. CASE Len(p2') >= ExBatchSize
      BY <3>1, Zenon
    <3>2. CASE ~ (Len(p2') >= ExBatchSize)
      BY <3>2, Zenon
    <3> QED
      BY <3>1, <3>2
  <2>3. PICK r : r = [f EXCEPT !.flush = Len(p2') >= ExBatchSize]
    OBVIOUS
  <2>4. p6' = [p6 EXCEPT ![w] = r]
    BY <1>0, <1>1, <1>6, <2>3, Zenon DEF Shipping!append, Shipping!Move
  <2>5. r = [f EXCEPT !.flush = a]
    BY <2>2, <2>3
  <2>6. r \in ProcState /\ r.at # "sending" /\ r.batch = <<>>
    BY <1>4, <1>5, <2>2, <2>5 DEF ProcState
  <2>7. ProcInv' /\ PlacesInv' /\ OrderInv' /\ SplunkInv'
    BY <1>2, <1>3, <2>1, <2>4, <2>6, AppendKeeps DEF ShippingInv
  <2>8. OtherInv'
    BY <1>2, Counting DEF ShippingInv, NextCall
  <2> QED
    BY <2>7, <2>8 DEF ShippingInv
<1>7. CASE ~ (Len(p2) < ExQueueSize)
  <2>1. PICK r : r = Shipping!Rest(w)
    OBVIOUS
  <2>2. p2' = p2 /\ p8' = p8 /\ Shipping!Move(w, r)
    BY <1>0, <1>7, <2>1 DEF Shipping!append
  <2>3. r \in ProcState /\ r.at # "sending" /\ r.batch = <<>>
    BY <2>1, SettledIs
  <2> QED
    BY <1>2, <1>3, <2>2, <2>3, MovesOn DEF NextCall, NothingShips
<1> QED
  BY <1>6, <1>7

LEMMA EnsuredIs ==
  ASSUME NEW p \in ProcState, NEW r, r = Shipping!Ensured(p) \/ r = Shipping!Go(p, "starting")
  PROVE  r \in ProcState /\ r.at # "sending" /\ r.batch = p.batch
<1>1. \/ r = Shipping!Go(p, "flushing") \/ r = Shipping!Go(p, "idle")
      \/ r = Shipping!Go(p, "starting")
  BY DEF Shipping!Ensured
<1>2. "flushing" \in Places /\ "idle" \in Places /\ "starting" \in Places
  BY DEF Places
<1> QED
  BY <1>1, <1>2, GoIs

LEMMA EnsureKeeps ==
  ASSUME ShippingInv, NEW t \in ExCallers, Shipping!_ensure_flush_thread(t) PROVE ShippingInv'
<1>1. PICK w \in Processes : w = Shipping!Caller(t)
  BY ProcessesAre
<1>2. Shipping!At(w, "ensuring") /\ NothingShips /\ NextCall
  BY <1>1 DEF Shipping!_ensure_flush_thread, NothingShips, NextCall, Shipping!endpointVars,
              Shipping!receivedVars
<1>3. p1 \notin {"none", "splunk"} /\ ~Sends(w) /\ p6[w] \in ProcState
  BY <1>2, AtWork
<1>4. PICK p \in ProcState : p = p6[w]
  BY <1>3
<1>5. PICK r : Shipping!Move(w, r) /\ (r = Shipping!Ensured(p) \/ r = Shipping!Go(p, "starting"))
  BY <1>1, <1>4 DEF Shipping!_ensure_flush_thread
<1>6. r \in ProcState /\ r.at # "sending" /\ r.batch = p.batch
  BY <1>5, EnsuredIs
<1>7. p.batch = <<>>
  BY <1>3, <1>4 DEF ShippingInv, ProcInv, BatchOf
<1> QED
  BY <1>2, <1>3, <1>5, <1>6, <1>7, MovesOn

LEMMA StartKeeps ==
  ASSUME ShippingInv, NEW t \in ExCallers, Shipping!start_flush_thread(t) PROVE ShippingInv'
<1>1. PICK w \in Processes, x \in Processes : w = Shipping!Caller(t) /\ x = Shipping!Loop(t)
  BY ProcessesAre
<1>2. w # x
  BY <1>1 DEF Shipping!Caller, Shipping!Loop
<1>3. /\ Shipping!At(w, "starting") /\ p5' = t
      /\ UNCHANGED <<p1, p2, p7, p8, p9, p10, p11, p12, p13>>
  BY <1>1 DEF Shipping!start_flush_thread, Shipping!endpointVars, Shipping!receivedVars
<1>4. p1 \notin {"none", "splunk"} /\ ~Sends(w) /\ p6 \in [Processes -> ProcState]
  BY <1>3, AtWork DEF ShippingInv, ProcInv
<1>5. PICK p \in ProcState, q \in ProcState : p = p6[w] /\ q = p6[x]
  BY <1>4
<1>6. PICK r, s : r = Shipping!Ensured(p) /\ s = Shipping!Started(q)
  OBVIOUS
<1>7. p6' = [p6 EXCEPT ![w] = r, ![x] = s]
  BY <1>1, <1>2, <1>4, <1>5, <1>6 DEF Shipping!start_flush_thread
<1>8. r \in ProcState /\ r.at # "sending" /\ r.batch = p.batch
  BY <1>6, EnsuredIs
<1>9. s \in ProcState /\ s.batch = q.batch /\ (s.at = "sending" <=> q.at = "sending")
  <2>1. s = q \/ (q.at = "off" /\ s = Shipping!Go(q, "waiting"))
    BY <1>6 DEF Shipping!Started
  <2>2. "waiting" \in Places /\ "waiting" # "sending" /\ "off" # "sending"
    BY DEF Places
  <2>3. CASE s = q
    BY <2>3
  <2>4. CASE q.at = "off" /\ s = Shipping!Go(q, "waiting")
    BY <2>2, <2>4, GoIs
  <2> QED
    BY <2>1, <2>3, <2>4
<1>10. /\ p6' \in [Processes -> ProcState] /\ p6'[w] = r /\ p6'[x] = s
       /\ \A v \in Processes : v # w /\ v # x => p6'[v] = p6[v]
  BY <1>2, <1>4, <1>7, <1>8, <1>9
<1>11. \A v \in Processes : /\ p6'[v].batch = p6[v].batch
                            /\ p6'[v].at = "sending" <=> p6[v].at = "sending"
  BY <1>4, <1>5, <1>8, <1>9, <1>10 DEF Sends
<1>12. ProcInv' /\ PlacesInv' /\ OrderInv' /\ SplunkInv'
  BY <1>3, <1>4, <1>10, <1>11, NothingMoves DEF ShippingInv
<1>13. OtherInv'
  BY <1>3 DEF ShippingInv, OtherInv
<1> QED
  BY <1>12, <1>13 DEF ShippingInv

LEMMA FlushKeeps ==
  ASSUME ShippingInv, NEW t \in ExCallers,
         \/ Shipping!flush(t) \/ Shipping!close(t) \/ Shipping!set_closed(t)
         \/ Shipping!_flush_loop(t)
  PROVE  ShippingInv'
<1>1. PICK w \in Processes, x \in Processes : w = Shipping!Caller(t) /\ x = Shipping!Loop(t)
  BY ProcessesAre
<1>2. "taking" \in Places /\ "flushing" \in Places /\ "shutting" \in Places /\ "off" \in Places
  BY DEF Places
<1>3. NothingShips /\ NextCall
  BY DEF NothingShips, NextCall, Shipping!flush, Shipping!close, Shipping!set_closed,
         Shipping!_flush_loop, Shipping!endpointVars, Shipping!receivedVars, Shipping!NewCall
<1>4. ASSUME Shipping!flush(t) PROVE ShippingInv'
  <2>1. p1 = "cloud" /\ (Shipping!At(w, "idle") \/ Shipping!At(w, "flushing"))
    BY <1>1, <1>4 DEF Shipping!flush
  <2>2. ~Sends(w) /\ p6[w] \in ProcState
    BY <2>1 DEF Shipping!At, Sends, ShippingInv, ProcInv
  <2>3. PICK p \in ProcState : p = p6[w]
    BY <2>2
  <2>4. p.batch = <<>>
    BY <2>2, <2>3 DEF ShippingInv, ProcInv, BatchOf
  <2>5. PICK r : /\ Shipping!Move(w, r)
                 /\ \/ r = Shipping!Fresh("taking") \/ r = Shipping!Go(p, "taking")
                    \/ r = Shipping!Closing("shutting") \/ r = Shipping!Rest(w)
    BY <1>1, <1>4, <2>3, Zenon DEF Shipping!flush
  <2>6. r \in ProcState /\ r.at # "sending" /\ r.batch = <<>>
    <3>1. CASE r = Shipping!Fresh("taking") \/ r = Shipping!Closing("shutting")
      BY <1>2, <3>1, FreshIs
    <3>2. CASE r = Shipping!Go(p, "taking")
      BY <1>2, <2>4, <3>2, GoIs
    <3>3. CASE r = Shipping!Rest(w)
      BY <3>3, SettledIs
    <3> QED
      BY <2>5, <3>1, <3>2, <3>3
  <2> QED
    BY <1>3, <2>1, <2>2, <2>5, <2>6, MovesOn
<1>5. ASSUME Shipping!close(t) PROVE ShippingInv'
  <2>1. PICK r : r = Shipping!Closing("flushing")
    OBVIOUS
  <2>2. p1 = "cloud" /\ Shipping!At(w, "idle") /\ Shipping!Move(w, r)
    BY <1>1, <1>5, <2>1 DEF Shipping!close
  <2>3. ~Sends(w)
    BY <2>2 DEF Shipping!At, Sends
  <2>4. r \in ProcState /\ r.at # "sending" /\ r.batch = <<>>
    BY <1>2, <2>1, FreshIs
  <2> QED
    BY <1>3, <2>2, <2>3, <2>4, MovesOn
<1>6. ASSUME Shipping!set_closed(t) PROVE ShippingInv'
  <2>1. PICK r : r = Shipping!Rest(w)
    OBVIOUS
  <2>2. Shipping!At(w, "shutting") /\ Shipping!Move(w, r)
    BY <1>1, <1>6, <2>1 DEF Shipping!set_closed
  <2>3. p1 \notin {"none", "splunk"} /\ ~Sends(w)
    BY <2>2, AtWork
  <2>4. r \in ProcState /\ r.at # "sending" /\ r.batch = <<>>
    BY <2>1, SettledIs
  <2> QED
    BY <1>3, <2>2, <2>3, <2>4, MovesOn
<1>7. ASSUME Shipping!_flush_loop(t) PROVE ShippingInv'
  <2>1. Shipping!At(x, "waiting")
    BY <1>1, <1>7 DEF Shipping!_flush_loop
  <2>2. p1 \notin {"none", "splunk"} /\ ~Sends(x) /\ p6[x] \in ProcState
    BY <2>1, AtWork
  <2>3. PICK p \in ProcState : p = p6[x]
    BY <2>2
  <2>4. p.batch = <<>>
    BY <2>2, <2>3 DEF ShippingInv, ProcInv, BatchOf
  <2>5. PICK r : /\ Shipping!Move(x, r)
                 /\ r = Shipping!Go(p, "off") \/ r = Shipping!Go(p, "taking")
    BY <1>1, <1>7, <2>3 DEF Shipping!_flush_loop
  <2>6. r \in ProcState /\ r.at # "sending" /\ r.batch = <<>>
    <3>1. CASE r = Shipping!Go(p, "off")
      BY <1>2, <2>4, <3>1, GoIs
    <3>2. CASE r = Shipping!Go(p, "taking")
      BY <1>2, <2>4, <3>2, GoIs
    <3> QED
      BY <2>5, <3>1, <3>2
  <2> QED
    BY <1>3, <2>2, <2>5, <2>6, MovesOn
<1> QED
  BY <1>4, <1>5, <1>6, <1>7

LEMMA TakingKeeps ==
  ASSUME ShippingInv, NEW w \in Processes, Shipping!take_batch(w) PROVE ShippingInv'
<1>1. PICK k : k = IF Len(p2) < ExBatchSize THEN Len(p2) ELSE ExBatchSize
  OBVIOUS
<1>2. p2 \in Seq(Nat) /\ Len(p2) \in Nat
  BY LenProperties DEF ShippingInv, PlacesInv
<1>3. k \in 0..Len(p2) /\ k <= ExBatchSize /\ k \in Nat
  BY <1>1, <1>2, ShippingAssumption
<1>4. PICK b : b = SubSeq(p2, 1, k)
  OBVIOUS
<1>5. b \in Seq(Nat) /\ Len(b) = k
  <2>1. Cut(p2, k, b, SubSeq(p2, k + 1, Len(p2)))
    BY <1>3, <1>4 DEF Cut
  <2> QED
    BY <1>2, <2>1, ElemsTake DEF Taken
<1>6. Shipping!Batch(p2) = b
  BY <1>1, <1>4 DEF Shipping!Batch
<1>7. /\ Shipping!At(w, "taking") /\ p2' = SubSeq(p2, k + 1, Len(p2))
      /\ UNCHANGED <<p1, p5, p7, p8, p9, p10, p11, p12>>
  BY <1>5, <1>6 DEF Shipping!take_batch, Shipping!endpointVars, Shipping!receivedVars
<1>8. p1 \notin {"none", "splunk"} /\ ~Sends(w) /\ p6[w] \in ProcState
  BY <1>7, AtWork
<1>9. CASE b = <<>>
  <2>1. k = 0 /\ Len(p2) = 0
    BY <1>1, <1>2, <1>3, <1>5, <1>9, ElemsEmpty, ShippingAssumption
  <2>2. p2 = <<>> /\ p2' = p2
    BY <1>2, <1>7, <2>1
  <2>3. PICK r : r = Shipping!Settled(w)
    OBVIOUS
  <2>4. Shipping!Move(w, r)
    BY <1>6, <1>9, <2>3 DEF Shipping!take_batch
  <2>5. r \in ProcState /\ r.at # "sending" /\ r.batch = <<>>
    BY <2>3, SettledIs
  <2>6. p13' = p13
    BY <1>6, <1>9 DEF Shipping!take_batch, ShippingInv, OrderInv
  <2> QED
    BY <1>7, <1>8, <2>2, <2>4, <2>5, <2>6, MovesOn DEF NothingShips, NextCall
<1>10. CASE b # <<>>
  <2>1. PICK p \in ProcState : p = p6[w]
    BY <1>8
  <2>2. PICK r : r = [p EXCEPT !.at = "sending", !.batch = b]
    OBVIOUS
  <2>3. p6' = [p6 EXCEPT ![w] = r]
    BY <1>6, <1>10, <2>1, <2>2, Zenon DEF Shipping!take_batch, Shipping!Move
  <2>4. r \in ProcState /\ r.at = "sending" /\ r.batch = b
    <3>1. "sending" \in Places
      BY DEF Places
    <3> QED
      BY <1>5, <2>2, <3>1 DEF ProcState
  <2>5. p13' = (p13 \/ (b # <<>> /\ Shipping!Sending # {}))
    BY <1>6, Zenon DEF Shipping!take_batch
  <2>6. p13' \in BOOLEAN
    BY <2>5, Zenon
  <2>7. ASSUME ~p13' PROVE ~p13 /\ \A v \in Processes : ~Sends(v)
    <3>1. ~p13 /\ Shipping!Sending = {}
      BY <1>10, <2>5, <2>7
    <3> QED
      BY <3>1 DEF Shipping!Sending, Shipping!At, Sends, Processes
  <2>8. ProcInv' /\ PlacesInv' /\ OrderInv' /\ SplunkInv'
    BY <1>3, <1>4, <1>7, <1>8, <2>3, <2>4, <2>6, <2>7, TakeKeeps DEF ShippingInv
  <2>9. OtherInv'
    BY <1>7, Counting DEF ShippingInv, NextCall
  <2> QED
    BY <2>8, <2>9 DEF ShippingInv
<1> QED
  BY <1>9, <1>10

LEMMA SendingKeeps ==
  ASSUME ShippingInv, NEW w \in Processes, Shipping!_send_batch(w) PROVE ShippingInv'
<1>1. /\ Shipping!At(w, "sending") /\ UNCHANGED <<p1, p5, p7, p8, p9, p13>>
  BY DEF Shipping!_send_batch
<1>2. p1 \notin {"none", "splunk"} /\ Sends(w) /\ p6[w] \in ProcState
  BY <1>1, AtWork
<1>3. PICK p \in ProcState : p = p6[w]
  BY <1>2
<1>4. PICK b : b = p.batch
  OBVIOUS
<1>5. BatchOf(w) = b /\ b \in Seq(Nat) /\ Shipping!Range(b) = Elems(b)
  BY <1>3, <1>4, BatchIs, ElemsRange DEF BatchOf, ShippingInv
<1>6. OtherInv'
  BY <1>1, Counting DEF ShippingInv, NextCall
<1>7. ASSUME NEW r, r = Shipping!Settled(w) \/ r = Shipping!Refused(w) \/ r = Shipping!Rest(w),
             Shipping!Move(w, r), Received(w), p2' = p2 \/ p2' = b \o p2,
             p12' = p12 \/ p12' = p12 \cup Elems(b), Elems(b) \subseteq Elems(p2') \cup p10' \cup p12'
      PROVE  ShippingInv'
  <2>1. r \in ProcState /\ r.at # "sending" /\ r.batch = <<>>
    BY <1>7, SettledIs
  <2>2. p6' = [p6 EXCEPT ![w] = r]
    BY <1>7 DEF Shipping!Move
  <2>3. ProcInv' /\ PlacesInv' /\ OrderInv' /\ SplunkInv'
    BY <1>1, <1>2, <1>5, <1>7, <2>1, <2>2, SettleKeeps DEF ShippingInv
  <2> QED
    BY <1>6, <2>3 DEF ShippingInv
<1>8. ASSUME Shipping!Receive(b) \/ UNCHANGED <<p10, p11>> PROVE Received(w)
  BY <1>5, <1>8, ReceiveIs DEF Received
<1>9. \/ Shipping!Receive(b) /\ Shipping!Move(w, Shipping!Settled(w)) /\ UNCHANGED <<p2, p12>>
      \/ /\ Shipping!Receive(b) \/ UNCHANGED <<p10, p11>>
         /\ p12' = p12 \cup Elems(b) /\ Shipping!Move(w, Shipping!Refused(w))
         /\ UNCHANGED p2
      \/ /\ Shipping!Receive(b) \/ UNCHANGED <<p10, p11>>
         /\ \/ /\ p.tries + 1 # ExRetries /\ Shipping!Move(w, [p EXCEPT !.tries = @ + 1])
               /\ UNCHANGED <<p2, p12>>
            \/ Shipping!Move(w, Shipping!Settled(w)) /\ p2' = b \o p2 /\ UNCHANGED p12
            \/ Shipping!Move(w, Shipping!Rest(w)) /\ p12' = p12 \cup Elems(b) /\ UNCHANGED p2
  BY <1>3, <1>4, <1>5, Zenon DEF Shipping!_send_batch, Shipping!receivedVars, Shipping!PutBack
<1>10. CASE Shipping!Receive(b) /\ Shipping!Move(w, Shipping!Settled(w)) /\ UNCHANGED <<p2, p12>>
  <2>1. Elems(b) \subseteq p10'
    BY <1>5, <1>10 DEF Shipping!Receive
  <2> QED
    BY <1>7, <1>8, <1>10, <2>1
<1>11. CASE /\ Shipping!Receive(b) \/ UNCHANGED <<p10, p11>>
            /\ p12' = p12 \cup Elems(b) /\ Shipping!Move(w, Shipping!Refused(w))
            /\ UNCHANGED p2
  BY <1>7, <1>8, <1>11
<1>12. CASE /\ Shipping!Receive(b) \/ UNCHANGED <<p10, p11>>
            /\ p.tries + 1 # ExRetries /\ Shipping!Move(w, [p EXCEPT !.tries = @ + 1])
            /\ UNCHANGED <<p2, p12>>
  <2>1. PICK r : r = [p EXCEPT !.tries = p.tries + 1]
    OBVIOUS
  <2>2. p.tries + 1 \in 0..ExRetries - 1
    <3>1. p.tries \in 0..ExRetries - 1
      BY DEF ProcState
    <3> QED
      BY <1>12, <3>1, ShippingAssumption
  <2>3. r \in ProcState /\ r.at = p.at /\ r.batch = p.batch
    BY <2>1, <2>2 DEF ProcState
  <2>4. p6' = [p6 EXCEPT ![w] = r]
    BY <1>12, <2>1, Zenon DEF Shipping!Move
  <2>5. UNCHANGED <<p10, p11>> \/ (Sends(w) /\ Received(w))
    BY <1>2, <1>8, <1>12
  <2>6. ProcInv' /\ PlacesInv' /\ OrderInv' /\ SplunkInv'
    BY <1>1, <1>2, <1>3, <1>12, <2>3, <2>4, <2>5, OneMovesOn DEF ShippingInv
  <2> QED
    BY <1>6, <2>6 DEF ShippingInv
<1>13. CASE /\ Shipping!Receive(b) \/ UNCHANGED <<p10, p11>>
            /\ Shipping!Move(w, Shipping!Settled(w)) /\ p2' = b \o p2 /\ UNCHANGED p12
  <2>1. PICK q, u : q = p2 /\ u = p2'
    OBVIOUS
  <2>2. q \in Seq(Nat) /\ u = b \o q
    BY <1>13, <2>1 DEF ShippingInv, PlacesInv
  <2>3. Elems(u) = Elems(b) \cup Elems(q)
    BY <1>5, <2>2, ElemsJoin
  <2>4. Elems(b) \subseteq Elems(p2')
    BY <2>1, <2>3
  <2> QED
    BY <1>7, <1>8, <1>13, <2>4
<1>14. CASE /\ Shipping!Receive(b) \/ UNCHANGED <<p10, p11>>
            /\ Shipping!Move(w, Shipping!Rest(w)) /\ p12' = p12 \cup Elems(b) /\ UNCHANGED p2
  BY <1>7, <1>8, <1>14
<1> QED
  BY <1>9, <1>10, <1>11, <1>12, <1>13, <1>14

LEMMA PostingKeeps ==
  ASSUME ShippingInv, NEW t \in ExCallers, Shipping!webhook_export(t) PROVE ShippingInv'
<1>1. PICK w \in Processes : w = Shipping!Caller(t)
  BY ProcessesAre
<1>2. PICK f : f = Shipping!Fresh("sending")
  OBVIOUS
<1>3. "sending" \in Places
  BY DEF Places
<1>4. f \in ProcState /\ f.at = "sending"
  BY <1>2, <1>3, FreshIs
<1>5. PICK r : r = [f EXCEPT !.batch = <<p8>>]
  OBVIOUS
<1>6. /\ p1 = "webhook" /\ Shipping!At(w, "idle") /\ Shipping!NewCall /\ p8' = p8 + 1
      /\ UNCHANGED <<p1, p2, p5, p9, p10, p11, p12, p13>>
  BY <1>1 DEF Shipping!webhook_export, Shipping!endpointVars, Shipping!receivedVars
<1>7. p6' = [p6 EXCEPT ![w] = r]
  BY <1>1, <1>2, <1>5, Zenon DEF Shipping!webhook_export, Shipping!Move
<1>8. <<p8>> \in Seq(Nat)
  BY DEF ShippingInv, PlacesInv
<1>9. r \in ProcState /\ r.at = "sending" /\ r.batch = <<p8>>
  BY <1>4, <1>5, <1>8 DEF ProcState
<1>10. ~Sends(w)
  BY <1>6 DEF Shipping!At, Sends
<1>11. ProcInv' /\ PlacesInv' /\ OrderInv' /\ SplunkInv'
  BY <1>6, <1>7, <1>9, <1>10, PostKeeps DEF ShippingInv
<1>12. OtherInv'
  BY <1>6, Counting DEF ShippingInv, NextCall, Shipping!NewCall
<1> QED
  BY <1>11, <1>12 DEF ShippingInv

(* The lock-held flush of Splunk's exporter, with what is pending.           *)
LEMMA FlushLockedKeeps ==
  ASSUME ShippingInv, p1 = "splunk", NEW s, NEW n, Pending(s, n), s # <<>>,
         Shipping!_flush_locked(s), p8' = n, UNCHANGED <<p1, p5, p6, p12, p13>>, NextCall
  PROVE  ShippingInv'
<1>1. s \in Seq(Nat)
  BY DEF Pending
<1>2. PICK m : m = Len(s)
  OBVIOUS
<1>3. /\ p2' = <<>>
      /\ \/ Shipping!Receive(s) /\ p9' = [p9 EXCEPT !.sent = @ + m]
         \/ (Shipping!Receive(s) \/ UNCHANGED <<p10, p11>>) /\ p9' = [p9 EXCEPT !.errors = @ + m]
  BY <1>2, Zenon DEF Shipping!_flush_locked, Shipping!receivedVars
<1>4. Got(s)
  BY <1>1, <1>3, ReceiveIs
<1>5. Shipping!Receive(s) => p10' = p10 \cup Elems(s)
  BY <1>1, ElemsRange DEF Shipping!Receive
<1>6. \/ p9' = [p9 EXCEPT !.sent = @ + m] /\ p10' = p10 \cup Elems(s)
      \/ p9' = [p9 EXCEPT !.errors = @ + m]
  BY <1>3, <1>5, Zenon
<1>7. ProcInv' /\ PlacesInv' /\ OrderInv' /\ SplunkInv'
  BY <1>2, <1>3, <1>4, <1>6, SendKeeps DEF ShippingInv
<1>8. OtherInv'
  BY Counting DEF ShippingInv
<1> QED
  BY <1>7, <1>8 DEF ShippingInv

LEMMA SplunkKeeps ==
  ASSUME ShippingInv, Shipping!splunk_export \/ Shipping!splunk_flush PROVE ShippingInv'
<1>1. /\ p1 = "splunk" /\ NextCall /\ UNCHANGED <<p1, p5, p6, p12, p13>>
  BY DEF Shipping!splunk_export, Shipping!splunk_flush, Shipping!NewCall, NextCall
<1>2. PICK s : s = Append(p2, p8)
  OBVIOUS
<1>3. Pending(p2, p8) /\ Pending(s, p8 + 1)
  BY <1>1, <1>2, PendingIs DEF ShippingInv
<1>4. ASSUME Shipping!splunk_export PROVE ShippingInv'
  <2>1. /\ p8' = p8 + 1
        /\ \/ Len(s) >= ExBatchSize /\ Shipping!_flush_locked(s)
           \/ /\ ~ (Len(s) >= ExBatchSize) /\ p2' = s /\ UNCHANGED <<p9, p10, p11>>
    BY <1>2, <1>4, Zenon DEF Shipping!splunk_export, Shipping!receivedVars
  <2>2. CASE Shipping!_flush_locked(s)
    <3>1. s # <<>>
      <4>1. p2 \in Seq(Nat) /\ p8 \in Nat /\ Len(p2) \in Nat
        BY LenProperties DEF ShippingInv, PlacesInv
      <4>2. Len(s) = Len(p2) + 1
        BY <1>2, <4>1, ElemsAppend
      <4> QED
        BY <4>1, <4>2, ElemsEmpty
    <3> QED
      BY <1>1, <1>3, <2>1, <2>2, <3>1, FlushLockedKeeps
  <2>3. CASE ~ (Len(s) >= ExBatchSize) /\ p2' = s /\ UNCHANGED <<p9, p10, p11>>
    <3>1. Len(s) < ExBatchSize
      <4>1. s \in Seq(Nat) /\ Len(s) \in Nat
        BY <1>3, LenProperties DEF Pending
      <4> QED
        BY <2>3, <4>1, ShippingAssumption
    <3>2. ProcInv' /\ PlacesInv' /\ OrderInv' /\ SplunkInv'
      BY <1>1, <1>3, <2>1, <2>3, <3>1, PendKeeps DEF ShippingInv
    <3>3. OtherInv'
      BY <1>1, Counting DEF ShippingInv
    <3> QED
      BY <3>2, <3>3 DEF ShippingInv
  <2> QED
    BY <2>1, <2>2, <2>3
<1>5. ASSUME Shipping!splunk_flush PROVE ShippingInv'
  <2>1. p2 # <<>> /\ Shipping!_flush_locked(p2) /\ p8' = p8
    BY <1>5 DEF Shipping!splunk_flush
  <2>2. PICK q, n : q = p2 /\ n = p8
    OBVIOUS
  <2>3. Pending(q, n) /\ q # <<>> /\ Shipping!_flush_locked(q) /\ p8' = n
    BY <1>3, <2>1, <2>2
  <2> QED
    BY <1>1, <2>3, FlushLockedKeeps
<1> QED
  BY <1>4, <1>5

LEMMA ShippingStepKeeps == ShippingInv /\ Shipping!Next => ShippingInv'
<1> SUFFICES ASSUME ShippingInv, Shipping!Next PROVE ShippingInv'
  OBVIOUS
<1>1. CASE Shipping!choose_exporter
  BY <1>1, ChooseKeeps
<1>2. ASSUME NEW t \in ExCallers,
             \/ Shipping!export(t) \/ Shipping!append(t) \/ Shipping!_ensure_flush_thread(t)
             \/ Shipping!start_flush_thread(t) \/ Shipping!flush(t) \/ Shipping!close(t)
             \/ Shipping!set_closed(t) \/ Shipping!_flush_loop(t) \/ Shipping!webhook_export(t)
      PROVE  ShippingInv'
  BY <1>2, ExportKeeps, AppendingKeeps, EnsureKeeps, StartKeeps, FlushKeeps, PostingKeeps
<1>3. ASSUME NEW w \in Processes, Shipping!take_batch(w) \/ Shipping!_send_batch(w)
      PROVE  ShippingInv'
  BY <1>3, TakingKeeps, SendingKeeps
<1>4. CASE Shipping!splunk_export \/ Shipping!splunk_flush
  BY <1>4, SplunkKeeps
<1> QED
  BY <1>1, <1>2, <1>3, <1>4 DEF Shipping!Next, Processes

LEMMA ShippingUnchanged ==
  ASSUME ShippingInv, UNCHANGED coreVars PROVE ShippingInv'
<1>1. UNCHANGED <<p1, p2, p5, p6, p7, p8, p9, p10, p11, p12, p13>>
  BY DEF coreVars
<1>2. \A w \in Processes : BatchOf(w)' = BatchOf(w) /\ (Sends(w)' <=> Sends(w))
  BY <1>1 DEF BatchOf, Sends
<1>3. ProcInv' /\ OtherInv' /\ SplunkInv'
  BY <1>1, <1>2 DEF ShippingInv, ProcInv, OtherInv, SplunkInv
<1>4. PlacesInv' /\ OrderInv'
  BY <1>1, <1>2 DEF ShippingInv, PlacesInv, OrderInv
<1> QED
  BY <1>3, <1>4 DEF ShippingInv

LEMMA ShippingFollows ==
  ShippingInv => Shipping!ExportTypeOK /\ Shipping!ShipmentsAddUp
<1> SUFFICES ASSUME ShippingInv PROVE Shipping!ExportTypeOK /\ Shipping!ShipmentsAddUp
  OBVIOUS
<1>1. ProcInv /\ PlacesInv /\ OrderInv /\ SplunkInv /\ OtherInv
  BY DEF ShippingInv
<1>2. /\ Shipping!Sending = {w \in Processes : Sends(w)} /\ p2 \in Seq(Nat)
      /\ Shipping!Range(p2) = Elems(p2) /\ Shipping!Accepted = 1..p8 - 1
      /\ \A w \in Processes : /\ p6[w].batch \in Seq(Nat)
                              /\ Shipping!Range(p6[w].batch) = Elems(BatchOf(w))
  BY <1>1, BatchIs, ElemsRange DEF BatchOf, Shipping!Sending, Shipping!At, Sends, Processes,
                                   PlacesInv, Shipping!Accepted
<1>3. Shipping!ExportTypeOK
  <2>1. \A w \in Shipping!Procs : Len(p6[w].batch) <= ExBatchSize /\ p6[w].tries < ExRetries
    <3> SUFFICES ASSUME NEW w \in Processes
                 PROVE  Len(p6[w].batch) <= ExBatchSize /\ p6[w].tries < ExRetries
      BY DEF Processes
    <3>1. p6[w].tries \in 0..ExRetries - 1
      BY <1>1 DEF ProcInv, ProcState
    <3> QED
      BY <1>1, <3>1, ShippingAssumption DEF ProcInv, BatchOf
  <2> QED
    BY <1>1, <1>2, <2>1 DEF Shipping!ExportTypeOK, Shipping!Kinds, PlacesInv, SplunkInv, OtherInv
<1>4. ASSUME NEW s \in Seq(Nat), Distinct(s) PROVE Shipping!IsInjective(s)
  <2>1. DOMAIN s = 1..Len(s)
    BY LenProperties
  <2> QED
    BY <1>4, <2>1 DEF Distinct, Shipping!IsInjective
<1>5. Shipping!NoEventVanishes
  <2>1. Shipping!IsInjective(p2)
    BY <1>1, <1>4 DEF PlacesInv
  <2>2. \A w \in Shipping!Sending : /\ Shipping!IsInjective(p6[w].batch)
                                    /\ Shipping!Apart(p6[w].batch, p2)
    BY <1>1, <1>2, <1>4 DEF PlacesInv, BatchOf, Shipping!Apart
  <2>3. \A v, w \in Shipping!Sending : v # w => Shipping!Apart(p6[v].batch, p6[w].batch)
    BY <1>1, <1>2 DEF PlacesInv, Shipping!Apart
  <2>4. ASSUME p1 # "splunk"
        PROVE  Shipping!Accepted \subseteq Shipping!Range(p2) \cup Shipping!Held \cup p10 \cup p12
    <3> SUFFICES ASSUME NEW e \in 1..p8 - 1, e \notin Elems(p2) \cup p10 \cup p12
                 PROVE  e \in Shipping!Held
      BY <1>2
    <3>1. PICK w \in Processes : e \in Elems(BatchOf(w))
      BY <1>1, <2>4 DEF PlacesInv
    <3>2. Sends(w)
      BY <1>1, <3>1, ElemsEmpty DEF ProcInv
    <3> QED
      BY <1>2, <3>1, <3>2 DEF Shipping!Held
  <2>5. ASSUME p1 = "splunk"
        PROVE  /\ p9.sent + p9.errors + Len(p2) = p8 - 1
               /\ p9.sent <= Shipping!Cardinality(p10) /\ Len(p2) < ExBatchSize
    BY <1>1, <2>5, ShippingCardinality DEF SplunkInv
  <2> QED
    BY <2>1, <2>2, <2>3, <2>4, <2>5 DEF Shipping!NoEventVanishes
<1>6. Shipping!OneSenderKeepsTheOrder
  <2>1. DOMAIN p2 = 1..Len(p2)
    BY <1>2, LenProperties
  <2>2. Rising(p2) => Shipping!Increasing(p2)
    BY <2>1 DEF Rising, Shipping!Increasing
  <2> QED
    BY <1>1, <1>2, <2>2 DEF OrderInv, Shipping!OneSenderKeepsTheOrder
<1> QED
  BY <1>3, <1>5, <1>6 DEF Shipping!ShipmentsAddUp

(***************************************************************************)
(* The components together                                                 *)
(***************************************************************************)

\* A behaviour exercises one component, whose invariant holds.
CoreInv ==
    /\ component \in {"client", "limiter", "registry", "admission", "shipping", "budget"}
    /\ component = "client"    => ClientInv
    /\ component = "limiter"   => LimiterInv
    /\ component = "registry"  => RegistryInv
    /\ component = "admission" => AdmissionInv
    /\ component = "shipping"  => ShippingInv
    /\ component = "budget"    => BudgetInv

LEMMA CoreInitHolds == CoreInit => CoreInv
  BY ClientInit, LimiterInit, RegistryInit, AdmissionInit, ShippingInit, BudgetInit
     DEF CoreInit, CoreInv

LEMMA ClientUnchanged ==
  ASSUME ClientInv, UNCHANGED coreVars PROVE ClientInv'
<1>1. UNCHANGED <<p1, p2, p3, p4, p5>>
  BY DEF coreVars
<1> QED
  BY <1>1 DEF ClientInv

LEMMA LimiterUnchanged ==
  ASSUME LimiterInv, UNCHANGED coreVars PROVE LimiterInv'
  BY DEF LimiterInv, coreVars

LEMMA RegistryUnchanged ==
  ASSUME RegistryInv, UNCHANGED coreVars PROVE RegistryInv'
  BY DEF RegistryInv, InstanceInv, HealthInv, CheckersInv, StartsInv, coreVars

LEMMA AdmissionUnchanged ==
  ASSUME AdmissionInv, UNCHANGED coreVars PROVE AdmissionInv'
  BY DEF AdmissionInv, CountedInv, PublishedInv, SinkInv, ManagerInv, Admission!Admitted, coreVars

LEMMA BudgetUnchanged ==
  ASSUME BudgetInv, UNCHANGED coreVars PROVE BudgetInv'
<1>1. UNCHANGED <<p1, p2, p3, p4, p5, p6>>
  BY DEF coreVars
<1>2. Budget!BudgetTypeOK' /\ Racing' = Racing
  BY <1>1 DEF BudgetInv, Budget!BudgetTypeOK, Racing
<1> QED
  BY <1>1, <1>2 DEF BudgetInv

LEMMA CoreStepKeeps == CoreInv /\ [CoreNext]_coreVars => CoreInv'
<1> SUFFICES ASSUME CoreInv, [CoreNext]_coreVars PROVE CoreInv'
  OBVIOUS
<1>1. component \in {"client", "limiter", "registry", "admission", "shipping", "budget"} /\ component' = component
  BY DEF CoreInv, CoreNext, ClientStep, LimiterStep, RegistryStep, AdmissionStep, ShippingStep,
         BudgetStep, coreVars
<1>2. ASSUME component = "client" PROVE ClientInv'
  <2>1. ClientInv /\ (Client!Next \/ UNCHANGED coreVars)
    BY <1>2
       DEF CoreInv, CoreNext, ClientStep, LimiterStep, RegistryStep, AdmissionStep, ShippingStep,
           BudgetStep
  <2> QED
    BY <2>1, ClientStepKeeps, ClientUnchanged
<1>3. ASSUME component = "limiter" PROVE LimiterInv'
  <2>1. LimiterInv /\ (Limiter!Next \/ UNCHANGED coreVars)
    BY <1>3
       DEF CoreInv, CoreNext, ClientStep, LimiterStep, RegistryStep, AdmissionStep, ShippingStep,
           BudgetStep
  <2> QED
    BY <2>1, LimiterStepKeeps, LimiterUnchanged
<1>4. ASSUME component = "registry" PROVE RegistryInv'
  <2>1. RegistryInv /\ (Registry!Next \/ UNCHANGED coreVars)
    BY <1>4
       DEF CoreInv, CoreNext, ClientStep, LimiterStep, RegistryStep, AdmissionStep, ShippingStep,
           BudgetStep
  <2> QED
    BY <2>1, RegistryStepKeeps, RegistryUnchanged
<1>5. ASSUME component = "admission" PROVE AdmissionInv'
  <2>1. AdmissionInv /\ (Admission!Next \/ UNCHANGED coreVars)
    BY <1>5
       DEF CoreInv, CoreNext, ClientStep, LimiterStep, RegistryStep, AdmissionStep, ShippingStep,
           BudgetStep
  <2> QED
    BY <2>1, AdmissionStepKeeps, AdmissionUnchanged
<1>6. ASSUME component = "budget" PROVE BudgetInv'
  <2>1. BudgetInv /\ (Budget!Next \/ UNCHANGED coreVars)
    BY <1>6
       DEF CoreInv, CoreNext, ClientStep, LimiterStep, RegistryStep, AdmissionStep, ShippingStep,
           BudgetStep
  <2> QED
    BY <2>1, BudgetStepKeeps, BudgetUnchanged
<1>7. ASSUME component = "shipping" PROVE ShippingInv'
  <2>1. ShippingInv /\ (Shipping!Next \/ UNCHANGED coreVars)
    BY <1>7
       DEF CoreInv, CoreNext, ClientStep, LimiterStep, RegistryStep, AdmissionStep, ShippingStep,
           BudgetStep
  <2> QED
    BY <2>1, ShippingStepKeeps, ShippingUnchanged
<1> QED
  BY <1>1, <1>2, <1>3, <1>4, <1>5, <1>6, <1>7 DEF CoreInv

LEMMA CoreInvHolds == CoreSpec => []CoreInv
  BY CoreInitHolds, CoreStepKeeps, PTL DEF CoreSpec

(* Whatever component a behaviour exercises, its variables stay in their     *)
(* types.                                                                    *)
THEOREM CoreTypesCorrect == CoreSpec => []CoreTypesOK
<1>1. CoreInv => CoreTypesOK
  BY ClientFollows, LimiterFollows, RegistryFollows, AdmissionFollows, ShippingFollows,
     BudgetFollows
     DEF CoreInv, CoreTypesOK
<1> QED
  BY CoreInvHolds, <1>1, PTL

(* An answered request is sent again only after its answer was lost, once    *)
(* for each lost answer (sdk/_base.py, sdk/identity.py); no sliding window   *)
(* holds more requests or alerts than its limit, however the clock and the   *)
(* threads move; the process has one registry, and a second live checker of  *)
(* it only when two starts overlapped; and an exceeded budget is noticed by  *)
(* somebody.                                                                 *)
THEOREM CallsStayRationed == CoreSpec => []CallsAreRationed
<1>1. CoreInv => CallsAreRationed
  BY ClientFollows, LimiterFollows, RegistryFollows, AdmissionFollows, BudgetFollows
     DEF CoreInv, CallsAreRationed
<1> QED
  BY CoreInvHolds, <1>1, PTL

(* An event a remote exporter accepted is in the queue or in the hand of one *)
(* sender, and in neither only if the endpoint received it, refused it, or   *)
(* its loss was raised or counted (export/cloud.py, export/webhook.py,       *)
(* export/siem_splunk.py); and as long as no two batches were under way at   *)
(* once, the endpoint receives the events in the order of their export,      *)
(* whatever fails and is put back.                                           *)
THEOREM ShipmentsStayAccounted == CoreSpec => []ShipmentsAddUp
<1>1. CoreInv => ShipmentsAddUp
  BY ShippingFollows DEF CoreInv, ShipmentsAddUp
<1> QED
  BY CoreInvHolds, <1>1, PTL
=============================================================================
