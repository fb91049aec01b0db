---------------------------- MODULE RefreshTimer ----------------------------
(***************************************************************************)
(* cotton-ssdp/src/refresh_timer.rs: when the next salvo of announcements  *)
(* is due.  Instants are kept relative to the present: next_salvo is the   *)
(* time that is left, zero or less when the salvo is due.                  *)
(***************************************************************************)
EXTENDS Integers

CONSTANTS
    SHORT, LONG,    \* the periods: 6000ms, and 800000ms after phase 3
    JITTER,         \* the unit of the random offset: 10ms
    random_seed

ASSUME TimerAssumption ==
    SHORT \in Nat /\ LONG \in Nat /\ JITTER \in Nat /\ random_seed \in Nat

VARIABLES next_salvo, phase

new == next_salvo = 0 /\ phase = 0

reset == next_salvo' = 0 /\ phase' = 0

\* Byte number phase of the seed, scaled: 0 to 2550ms.
RandomOffset(p) ==
    ((random_seed \div <<1, 256, 65536, 16777216>>[p + 1]) % 256) * JITTER

\* Mutant of Period: the long period comes one phase early as well.
PeriodTwice(p) == (IF p >= 2 THEN LONG ELSE SHORT) + RandomOffset(p)

Period(p) == (IF p = 3 THEN LONG ELSE SHORT) + RandomOffset(p)

\* A salvo that is due is put off by a period, counted from when it was due.
update_refresh ==
    /\ next_salvo <= 0
    /\ next_salvo' = next_salvo + Period(phase)
    /\ phase' = (phase + 1) % 4
=============================================================================
