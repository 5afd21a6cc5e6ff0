----------------------------- MODULE PosixTime -----------------------------
(***************************************************************************)
(* TimeBase, Duration and TimeTmpl of src/CtrlrFx/os/posix/CtrlrFx/Time.h, *)
(* over normalize_timespec() of src/src/os/posix/Time.cpp. A time is its   *)
(* tv_sec and tv_nsec; the bases are scaled down: NS_PER_SEC is TmNs, and  *)
(* there are TmMs milliseconds in a second, as many as microseconds, which *)
(* convert the same way. Division and remainder are C's: they truncate     *)
(* toward zero. Beside each value stands the number of nanoseconds it      *)
(* should be. The fields do not overflow at these sizes, and floating      *)
(* point, used for scaling and for seconds with a fraction, is exact.      *)
(***************************************************************************)
EXTENDS Integers

CONSTANTS TmNs,       \* nanoseconds in a second
          TmMs,       \* milliseconds in a second
          TmMaxSec    \* bound: seconds, of either sign

ASSUME TmBases == TmNs \in Nat \ {0} /\ TmMs \in Nat \ {0} /\ TmNs % TmMs = 0
ASSUME TmBound == TmMaxSec \in Nat \ {0}

VARIABLES tmD, tmDTicks,   \* a Duration
          tmT, tmTTicks,   \* a Time
          tmNow            \* the system clock

tmVars == <<tmD, tmDTicks, tmT, tmTTicks, tmNow>>

TmAbs(a) == IF a < 0 THEN -a ELSE a
TmQuot(a, b) == IF (a < 0) = (b < 0) THEN TmAbs(a) \div TmAbs(b) ELSE -(TmAbs(a) \div TmAbs(b))
TmRem(a, b) == a - b * TmQuot(a, b)

Tm(s, n) == [sec |-> s, nsec |-> n]

\* ticks(), and to_nsec().
TmTicks(t) == t.sec * TmNs + t.nsec

\* Of the comparators, < and its kin compare ticks, == compares the fields.
TmEqual(t, u) == t.sec = u.sec /\ t.nsec = u.nsec

TmToMsec(d) == d.sec * TmMs + TmQuot(d.nsec, TmNs \div TmMs)

-----------------------------------------------------------------------------
(* normalize_timespec().                                                   *)

\* Each loop takes whole seconds off until no more than one is left.
TmWhole(n) == IF n > TmNs THEN (n - 1) \div TmNs
              ELSE IF n < -TmNs THEN -((-n - 1) \div TmNs) ELSE 0

\* Bug seeded: the loops move the seconds the wrong way.
TmCarryBack(t) == Tm(t.sec - TmWhole(t.nsec), t.nsec - TmNs * TmWhole(t.nsec))

TmCarry(t) == Tm(t.sec + TmWhole(t.nsec), t.nsec - TmNs * TmWhole(t.nsec))

\* Bug seeded: the signs are not compared.
TmSignsIgnored(t) == t

\* Seconds and nanoseconds of different signs lose one second to the latter.
TmSigns(t) == IF t.sec > 0 /\ t.nsec < 0 THEN Tm(t.sec - 1, t.nsec + TmNs)
              ELSE IF t.sec < 0 /\ t.nsec > 0 THEN Tm(t.sec + 1, t.nsec - TmNs)
              ELSE t

TmNormalize(t) == TmSigns(TmCarry(t))

\* +, -, += and -= of times and durations, in any combination.
TmPlus(t, u) == TmNormalize(Tm(t.sec + u.sec, t.nsec + u.nsec))
TmMinus(t, u) == TmNormalize(Tm(t.sec - u.sec, t.nsec - u.nsec))

\* The constructor from a number of nanoseconds, and *, /, *= and /= by p/q.
TmFromNsec(n) == Tm(TmQuot(n, TmNs), TmRem(n, TmNs))
TmScaled(d, p, q) == TmFromNsec(TmQuot(TmTicks(d) * p, q))

\* The constructors from milliseconds and microseconds, and from seconds,
\* minutes and so on, by way of a number of seconds with a fraction.
TmFromMsec(m) == Tm(TmQuot(m, TmMs), TmRem(m, TmMs) * (TmNs \div TmMs))
TmFromSec(p, q) == Tm(TmQuot(p, q), TmQuot((p - q * TmQuot(p, q)) * TmNs, q))

-----------------------------------------------------------------------------

TmBounded(ticks) == TmAbs(ticks) <= TmMaxSec * TmNs
TmSpan == -(TmMaxSec * TmNs)..(TmMaxSec * TmNs)
TmFactors == {<<2, 1>>, <<1, 2>>, <<-1, 1>>, <<2, 3>>}

TmInit == /\ tmD = Tm(0, 0) /\ tmDTicks = 0
          /\ tmT = Tm(0, 0) /\ tmTTicks = 0
          /\ tmNow = Tm(0, 0)

TmSetD(d, ticks) == /\ TmBounded(ticks)
                    /\ tmD' = d /\ tmDTicks' = ticks
                    /\ UNCHANGED <<tmT, tmTTicks, tmNow>>

TmSetT(t, ticks) == /\ TmBounded(ticks)
                    /\ tmT' = t /\ tmTTicks' = ticks
                    /\ UNCHANGED <<tmD, tmDTicks, tmNow>>

\* A duration made of some unit, or of fields that are then normalised.
TmMake == \/ \E n \in TmSpan : TmSetD(TmFromNsec(n), n)
          \/ \E m \in -(TmMaxSec * TmMs)..(TmMaxSec * TmMs) :
               TmSetD(TmFromMsec(m), m * (TmNs \div TmMs))
          \/ \E p \in -TmMaxSec..TmMaxSec : TmSetD(TmFromSec(p, 2), TmQuot(p * TmNs, 2))
          \/ \E s \in -TmMaxSec..TmMaxSec, n \in -(2 * TmNs)..(2 * TmNs) :
               TmSetD(TmNormalize(Tm(s, n)), s * TmNs + n)

TmScale == \E f \in TmFactors :
  TmSetD(TmScaled(tmD, f[1], f[2]), TmQuot(tmDTicks * f[1], f[2]))

TmAddSub == \E e \in TmSpan : \/ TmSetD(TmPlus(tmD, TmFromNsec(e)), tmDTicks + e)
                              \/ TmSetD(TmMinus(tmD, TmFromNsec(e)), tmDTicks - e)

\* from_now(): the deadline of every timed wait.
TmFromNow == TmSetT(TmPlus(tmNow, tmD), TmTicks(tmNow) + tmDTicks)

TmShift == \/ TmSetT(TmPlus(tmT, tmD), tmTTicks + tmDTicks)
           \/ TmSetT(TmMinus(tmT, tmD), tmTTicks - tmDTicks)

\* now(), and the assignment from it.
TmRead == TmSetT(tmNow, TmTicks(tmNow))

TmElapsed == TmSetD(TmMinus(tmNow, tmT), TmTicks(tmNow) - tmTTicks)

TmTick == /\ TmTicks(tmNow) < TmMaxSec * TmNs
          /\ tmNow' = TmFromNsec(TmTicks(tmNow) + 1)
          /\ UNCHANGED <<tmD, tmDTicks, tmT, tmTTicks>>

TmNext == TmMake \/ TmScale \/ TmAddSub \/ TmFromNow \/ TmShift \/ TmRead \/ TmElapsed \/ TmTick

TmSpec == TmInit /\ [][TmNext]_tmVars

-----------------------------------------------------------------------------

\* No sequence of operations loses or gains a nanosecond, whatever the signs,
\* up to the fraction that scaling drops.
TmExact == TmTicks(tmD) = tmDTicks /\ TmTicks(tmT) = tmTTicks

\* Seconds and nanoseconds never disagree in sign, and no more than a whole
\* second stays in the nanoseconds; so the conversion to a coarser unit drops
\* a fraction of the whole value and not of a part, and a deadline after the
\* epoch has no negative field.  Exactly a second does stay there: normalize_timespec()
\* carries while nsec is more (Time.cpp:47), so the value is not "always less than
\* 1 sec, and thus the time value is unique", as Time.h:99-101 says.
TmNormal == /\ \A t \in {tmD, tmT} : /\ t.sec > 0 => t.nsec >= 0
                                     /\ t.sec < 0 => t.nsec <= 0
                                     /\ TmAbs(t.nsec) <= TmNs
            /\ TmToMsec(tmD) = TmQuot(tmDTicks, TmNs \div TmMs)

\* == and < agree, as they must for a deadline to be compared with the clock: of
\* two times whose nanoseconds are less than a second, neither is before the
\* other just if all their fields are the same.
TmUnique == TmAbs(tmT.nsec) < TmNs /\ TmAbs(tmNow.nsec) < TmNs =>
              (TmEqual(tmT, tmNow) <=> TmTicks(tmT) = TmTicks(tmNow))

\* Every time and duration is, in a normal form, the one that exact arithmetic gives,
\* and the form is the only one of its value, but where it holds a whole second.
TmAgrees == TmExact /\ TmNormal /\ TmUnique
=============================================================================
