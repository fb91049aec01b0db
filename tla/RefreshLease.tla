---------------------------- MODULE RefreshLease ----------------------------
(***************************************************************************)
(* What the refresh timer is for.  An announcement says max-age=1800, so a *)
(* listener forgets a resource it has not heard of for that long.  Salvos  *)
(* are UDP multicasts: any of them may be lost.  And the owner of the      *)
(* timer may look at it too late.                                          *)
(***************************************************************************)
EXTENDS RefreshTimer, TLAPS

CONSTANTS
    MAX_AGE,        \* CACHE-CONTROL: max-age of build_notify and build_response
    Lateness,       \* when the owner looks, relative to the time the salvo is due
    MaxLate,
    MaxLosses       \* how many salvos are lost in a row

ASSUME LeaseAssumption ==
    /\ MAX_AGE \in Nat /\ MaxLosses \in Nat /\ MaxLate \in Nat
    /\ Lateness \subseteq Int /\ \A l \in Lateness : l <= MaxLate

VARIABLES
    since,      \* the time since a listener last heard of the resource
    lost        \* the salvos that it has missed since then

vars == <<next_salvo, phase, since, lost>>

LeaseInit == new /\ since = 0 /\ lost = 0

\* Nothing is due: the owner sleeps.
Wait ==
    /\ next_salvo > 0
    /\ \E l \in Lateness :
          /\ next_salvo + l > 0
          /\ next_salvo' = -l
          /\ since' = since + next_salvo + l
    /\ UNCHANGED <<phase, lost>>

\* The refresh of handle_timeout, heard or lost.
Salvo ==
    /\ update_refresh
    /\ \/ since' = 0 /\ lost' = 0
       \/ lost < MaxLosses /\ lost' = lost + 1 /\ UNCHANGED since

\* advertise, or the answer to a search, between two salvos.
Announce ==
    /\ since' = 0 /\ lost' = 0
    /\ UNCHANGED <<next_salvo, phase>>

\* reset_refresh_timer: a salvo that is overdue is then due from now on.  The
\* callers (the examples in cross/) go on to handle_timeout at once, so no
\* time passes before the salvo.
Reset ==
    /\ reset
    /\ UNCHANGED <<since, lost>>

LeaseNext == Wait \/ Salvo \/ Announce \/ Reset

LeaseSpec == LeaseInit /\ [][LeaseNext]_vars
-----------------------------------------------------------------------------
(***************************************************************************)
(* A listener that misses up to seven salvos in a row never forgets a      *)
(* resource that is still advertised, even if the owner of the timer is a  *)
(* little late every time and resets it when it pleases.                   *)
(***************************************************************************)
LeaseKept == since < MAX_AGE

(***************************************************************************)
(* "The interval between salvos is randomised to help avoid network        *)
(* congestion" (RefreshTimer): one salvo is not followed by the next one   *)
(* at once.                                                                *)
(***************************************************************************)
NoBurst == [][phase' # phase /\ phase' # 0 => next_salvo' > 0]_vars

(***************************************************************************)
(* The inductive invariant.  The lost + 1 periods since the listener last  *)
(* heard contain a long one for each phase 3 that they crossed; the one    *)
(* that is running counts in full.  update_refresh counts a period from    *)
(* when the salvo was due, but a reset forgets by how much it was overdue: *)
(* so the lateness may add up, once for each period.                       *)
(***************************************************************************)
Longest == SHORT + 255 * JITTER
Horizon(n, p) == n * Longest + ((n + 3 - p) \div 4) * (LONG - SHORT)

LeaseInv ==
    /\ phase \in 0 .. 3
    /\ next_salvo \in Int /\ next_salvo >= -MaxLate
    /\ since \in Nat
    /\ lost \in 0 .. MaxLosses
    /\ next_salvo <= Horizon(1, phase)
    /\ next_salvo > 0 => since + next_salvo <= Horizon(lost + 1, phase) + lost * MaxLate
    /\ next_salvo <= 0 => since <= Horizon(lost + 1, phase) + (lost + 1) * MaxLate
-----------------------------------------------------------------------------
(***************************************************************************)
(* Proofs.  With the periods that the code uses, a listener may miss seven *)
(* salvos in a row, for every random seed and however the owner's wake-ups *)
(* fall.                                                                   *)
(***************************************************************************)
RealTimes ==
    /\ SHORT = 6000 /\ LONG = 800000 /\ JITTER = 10
    /\ MAX_AGE = 1800000 /\ MaxLosses = 7 /\ MaxLate = 17000

\* The random offset is 0 to 2550ms, whatever the seed.
LEMMA OffsetRange ==
    ASSUME RealTimes, NEW p \in 0 .. 3
    PROVE  RandomOffset(p) \in Int /\ 0 <= RandomOffset(p) /\ RandomOffset(p) <= 2550
<1> DEFINE s == <<1, 256, 65536, 16777216>>[p + 1]
           b == (random_seed \div s) % 256
<1>1. s \in Nat /\ s > 0 BY SMT
<1> HIDE DEF s
<1>2. b \in 0 .. 255 BY <1>1, TimerAssumption, SMT
<1>3. RandomOffset(p) = b * 10 BY SMT DEF RandomOffset, RealTimes, s
<1> HIDE DEF b
<1> QED BY <1>2, <1>3, SMT

\* The horizon in milliseconds.
LEMMA HorizonValue ==
    ASSUME RealTimes, NEW n \in 1 .. 8, NEW p \in 0 .. 3
    PROVE  /\ Horizon(n, p) = n * 8550 + ((n + 3 - p) \div 4) * 794000
           /\ Horizon(n, p) \in Int
<1>1. Longest = 8550 BY SMT DEF Longest, RealTimes
<1>2. LONG - SHORT = 794000 BY SMT DEF RealTimes
<1>3. (n + 3 - p) \div 4 \in Int BY SMT
<1> QED BY <1>1, <1>2, <1>3, SMT DEF Horizon

\* Eight periods in a row are two cycles, and none starts before phase 0.
LEMMA HorizonBounds ==
    ASSUME RealTimes, NEW n \in 1 .. 8, NEW p \in 0 .. 3
    PROVE  Horizon(n, p) <= 1656400 /\ Horizon(n, p) <= Horizon(n, 0)
<1> DEFINE q == (n + 3 - p) \div 4
           r == (n + 3 - 0) \div 4
<1>1. Horizon(n, p) = n * 8550 + q * 794000 BY HorizonValue, SMT
<1>2. Horizon(n, 0) = n * 8550 + r * 794000 BY HorizonValue, SMT
<1>3. q \in 0 .. 2 /\ q <= r /\ r \in 0 .. 2 BY SMT
<1> HIDE DEF q, r
<1> QED BY <1>1, <1>2, <1>3, SMT

\* A period later the horizon is a period further away.
LEMMA HorizonStep ==
    ASSUME RealTimes, NEW n \in 1 .. 7, NEW p \in 0 .. 3
    PROVE  Horizon(n + 1, (p + 1) % 4) = Horizon(n, p) + (IF p = 3 THEN 802550 ELSE 8550)
<1> DEFINE m == n + 1
           o == (p + 1) % 4
           q == (n + 3 - p) \div 4
           r == (m + 3 - o) \div 4
<1>1. m \in 1 .. 8 /\ o \in 0 .. 3 /\ n \in 1 .. 8 BY SMT
<1>2. q \in Int /\ r = (IF p = 3 THEN q + 1 ELSE q) BY SMT
<1>3. Horizon(n, p) = n * 8550 + q * 794000 BY <1>1, HorizonValue, SMT
<1>4. Horizon(m, o) = m * 8550 + r * 794000
  <2> HIDE DEF m, o
  <2> QED BY <1>1, HorizonValue, SMT
<1>5. Horizon(m, o) = Horizon(n, p) + (IF p = 3 THEN 802550 ELSE 8550)
  <2> HIDE DEF q, r, o
  <2> QED BY <1>2, <1>3, <1>4, SMT
<1> QED BY <1>5, SMT

\* One period reaches as far as the horizon does after a salvo that was heard.
LEMMA HorizonFirst ==
    ASSUME RealTimes, NEW p \in 0 .. 3
    PROVE  Horizon(1, (p + 1) % 4) = (IF p = 3 THEN 802550 ELSE 8550)
<1> DEFINE o == (p + 1) % 4
           r == (1 + 3 - o) \div 4
<1>1. o \in 0 .. 3 /\ r = (IF p = 3 THEN 1 ELSE 0) BY SMT
<1>2. Horizon(1, o) = 1 * 8550 + r * 794000
  <2> HIDE DEF o
  <2> QED BY <1>1, HorizonValue, SMT
<1>3. Horizon(1, o) = (IF p = 3 THEN 802550 ELSE 8550)
  <2> HIDE DEF r, o
  <2> QED BY <1>1, <1>2, SMT
<1> QED BY <1>3, SMT

\* The first salvo is due at once.
LEMMA LeaseInitInv ==
    ASSUME RealTimes, LeaseInit PROVE LeaseInv
<1>1. Horizon(1, 0) = 802550 BY HorizonFirst, SMT
<1>2. next_salvo = 0 /\ phase = 0 /\ since = 0 /\ lost = 0 BY SMT DEF LeaseInit, new
<1>3. Horizon(lost + 1, phase) = 802550 BY <1>1, <1>2, SMT
<1> QED BY <1>1, <1>2, <1>3, LeaseAssumption, SMT DEF RealTimes, LeaseInv

\* Every step keeps the invariant.
LEMMA LeaseStep ==
    ASSUME RealTimes, LeaseInv, [LeaseNext]_vars
    PROVE  LeaseInv'
<1> DEFINE n == lost + 1
           h == Horizon(n, phase)
<1>0. /\ MaxLosses = 7 /\ MaxLate = 17000 /\ n \in 1 .. 8
      /\ phase \in 0 .. 3 /\ next_salvo \in Int /\ since \in Nat /\ lost \in 0 .. 7
      /\ next_salvo >= -17000
  BY LeaseAssumption, SMT DEF RealTimes, LeaseInv
<1>h. /\ h \in Int
      /\ next_salvo > 0 => since + next_salvo <= h + lost * 17000
      /\ next_salvo <= 0 => since <= h + (lost + 1) * 17000
  <2>1. Horizon(lost + 1, phase) = h BY SMT DEF h
  <2> HIDE DEF n
  <2>2. h \in Int BY <1>0, HorizonValue, SMT
  <2> HIDE DEF h
  <2> QED BY <1>0, <2>1, <2>2, SMT DEF LeaseInv
<1>f. /\ Horizon(1, phase) \in Int /\ next_salvo <= Horizon(1, phase)
      /\ Horizon(1, phase) >= 8550
  BY <1>0, HorizonValue, SMT DEF LeaseInv
<1>s. ASSUME /\ phase' \in 0 .. 3
             /\ next_salvo' \in Int /\ next_salvo' >= -17000
             /\ since' \in Nat /\ lost' \in 0 .. 7
             /\ next_salvo' <= Horizon(1, phase')
             /\ next_salvo' > 0 => since' + next_salvo' <= Horizon(lost' + 1, phase') + lost' * 17000
             /\ next_salvo' <= 0 => since' <= Horizon(lost' + 1, phase') + (lost' + 1) * 17000
      PROVE  LeaseInv'
  BY <1>0, <1>s, SMT DEF LeaseInv
<1>1. CASE Wait
  <2>1. PICK l \in Lateness : next_salvo + l > 0 /\ next_salvo' = -l /\ since' = since + next_salvo + l
    BY <1>1, SMT DEF Wait
  <2>2. l \in Int /\ l <= 17000
    BY <1>0, <2>1, LeaseAssumption, SMT
  <2>3. phase' = phase /\ lost' = lost /\ next_salvo > 0
    BY <1>1, SMT DEF Wait
  <2>4. since' \in Nat /\ next_salvo' \in Int /\ next_salvo' >= -17000
    BY <1>0, <2>1, <2>2, SMT
  <2>5. /\ next_salvo' > 0 => since' + next_salvo' <= h + lost' * 17000
        /\ next_salvo' <= 0 => since' <= h + (lost' + 1) * 17000
    <3> HIDE DEF h
    <3> QED BY <1>0, <1>h, <2>1, <2>2, <2>3, SMT
  <2>6. Horizon(lost' + 1, phase') = h
    BY <2>3, SMT
  <2>7. next_salvo' <= Horizon(1, phase')
    <3>1. next_salvo' < next_salvo BY <1>0, <2>1, <2>2, SMT
    <3> QED BY <1>0, <1>f, <2>3, <2>4, <3>1, SMT
  <2> HIDE DEF h
  <2>8. /\ next_salvo' > 0 => since' + next_salvo' <= Horizon(lost' + 1, phase') + lost' * 17000
        /\ next_salvo' <= 0 => since' <= Horizon(lost' + 1, phase') + (lost' + 1) * 17000
    BY <2>5, <2>6, SMT
  <2>9. phase' \in 0 .. 3 /\ lost' \in 0 .. 7
    BY <1>0, <2>3, SMT
  <2> QED BY <1>s, <2>4, <2>7, <2>8, <2>9, SMT
<1>2. CASE Salvo
  <2> DEFINE d == Period(phase)
             most == IF phase = 3 THEN 802550 ELSE 8550
  <2>1. d \in Int /\ d <= most /\ d >= 6000 /\ most \in Int
    BY <1>0, OffsetRange, SMT DEF Period, RealTimes
  <2>2. next_salvo' = next_salvo + d /\ phase' = (phase + 1) % 4 /\ next_salvo <= 0
    BY <1>2, SMT DEF Salvo, update_refresh
  <2> HIDE DEF d
  <2>3. phase' \in 0 .. 3 /\ next_salvo' \in Int /\ next_salvo' >= -17000 /\ next_salvo' <= most
    BY <1>0, <2>1, <2>2, SMT
  <2>f. Horizon(1, phase') = most
    BY <1>0, <2>2, HorizonFirst, SMT
  <2>4. CASE since' = 0 /\ lost' = 0
    <3>2. lost' + 1 = 1 /\ lost' \in 0 .. 7 /\ since' \in Nat
      BY <2>4, SMT
    <3>3. most >= 0 BY SMT
    <3> HIDE DEF most
    <3>4. Horizon(lost' + 1, phase') = most
      BY <2>f, <3>2, Zenon
    <3> QED BY <1>s, <2>1, <2>f, <2>3, <2>4, <3>2, <3>3, <3>4, SMT
  <2>5. CASE lost < MaxLosses /\ lost' = lost + 1 /\ since' = since
    <3>1. lost' + 1 = n + 1 /\ n \in 1 .. 7 /\ lost' \in 0 .. 7
      BY <1>0, <2>5, SMT
    <3>2. Horizon(n + 1, phase') = h + most
      <4> HIDE DEF n
      <4> QED BY <1>0, <2>2, <3>1, HorizonStep, SMT
    <3>3. Horizon(lost' + 1, phase') = h + most
      BY <3>1, <3>2, SMT
    <3>5. most >= 0 BY SMT
    <3> HIDE DEF h, most
    <3>4. /\ next_salvo' > 0 => since' + next_salvo' <= (h + most) + lost' * 17000
          /\ next_salvo' <= 0 => since' <= (h + most) + (lost' + 1) * 17000
      BY <1>0, <1>h, <2>1, <2>2, <2>3, <2>5, <3>5, SMT
    <3>6. h + most \in Int BY <1>h, <2>1, SMT
    <3>7. since' \in Nat /\ next_salvo' <= Horizon(1, phase')
      BY <1>0, <2>f, <2>3, <2>5, SMT
    <3> QED BY <1>s, <2>3, <3>1, <3>3, <3>4, <3>7, SMT
  <2> QED BY <1>2, <2>4, <2>5, SMT DEF Salvo
<1>3. CASE Announce
  <2>1. since' = 0 /\ lost' = 0 /\ next_salvo' = next_salvo /\ phase' = phase
    BY <1>3, SMT DEF Announce
  <2>3. Horizon(lost' + 1, phase') = Horizon(1, phase)
    BY <2>1, SMT
  <2> QED BY <1>0, <1>f, <1>s, <2>1, <2>3, SMT
<1>4. CASE Reset
  <2>1. next_salvo' = 0 /\ phase' = 0 /\ since' = since /\ lost' = lost
    BY <1>4, SMT DEF Reset, reset
  <2>2. Horizon(n, 0) \in Int /\ h <= Horizon(n, 0)
    <3> HIDE DEF n
    <3> QED BY <1>0, HorizonValue, HorizonBounds, SMT
  <2>3. Horizon(lost' + 1, phase') = Horizon(n, 0)
    BY <2>1, SMT
  <2>4. since' <= Horizon(n, 0) + (lost' + 1) * 17000
    <3> HIDE DEF h, n
    <3> QED BY <1>0, <1>h, <2>1, <2>2, SMT
  <2>7. Horizon(1, phase') = 802550
    BY <2>1, HorizonFirst, SMT
  <2> HIDE DEF n
  <2> QED BY <1>0, <1>s, <2>1, <2>2, <2>3, <2>4, <2>7, SMT
<1>5. CASE UNCHANGED vars
  BY <1>5, SMT DEF vars, LeaseInv
<1> QED BY <1>1, <1>2, <1>3, <1>4, <1>5, SMT DEF LeaseNext

\* The listener's account of the timer is inductive.
LEMMA LeaseInvariance ==
    ASSUME RealTimes PROVE LeaseSpec => []LeaseInv
<1>1. LeaseInit => LeaseInv BY LeaseInitInv, SMT
<1>2. LeaseInv /\ [LeaseNext]_vars => LeaseInv' BY LeaseStep, SMT
<1> QED BY <1>1, <1>2, PTL DEF LeaseSpec

(***************************************************************************)
(* With the periods of refresh_timer.rs and the max-age of message.rs, no  *)
(* listener ever forgets a live resource unless it misses eight salvos in  *)
(* a row, whatever the seed, although the owner may wake up to 17 seconds  *)
(* late every time, and may reset the timer at any moment, overdue or not. *)
(***************************************************************************)
THEOREM NoLeaseExpires ==
    ASSUME RealTimes PROVE LeaseSpec => []LeaseKept
<1>1. LeaseInv => LeaseKept
  <2> SUFFICES ASSUME LeaseInv PROVE LeaseKept BY SMT
  <2>0. MaxLosses = 7 /\ MaxLate = 17000 /\ MAX_AGE = 1800000
    BY LeaseAssumption, SMT DEF RealTimes
  <2>1. lost \in 0 .. 7 /\ phase \in 0 .. 3
    BY <2>0, SMT DEF LeaseInv
  <2>2. Horizon(lost + 1, phase) \in Int /\ Horizon(lost + 1, phase) <= 1656400
    <3> DEFINE n == lost + 1
    <3>1. n \in 1 .. 8 BY <2>1, SMT
    <3> HIDE DEF n
    <3>2. Horizon(n, phase) \in Int /\ Horizon(n, phase) <= 1656400
      BY <3>1, <2>1, HorizonBounds, HorizonValue, SMT
    <3> QED BY <3>2, SMT DEF n
  <2>3. since \in Nat /\ next_salvo \in Int BY SMT DEF LeaseInv
  <2> QED BY <2>0, <2>1, <2>2, <2>3, SMT DEF LeaseInv, LeaseKept
<1> QED BY <1>1, LeaseInvariance, PTL
=============================================================================
