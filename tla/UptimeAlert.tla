---------------------------- MODULE UptimeAlert ----------------------------
(***************************************************************************)
(* What a health check says about the blocks a validator missed: a pure    *)
(* function of the missed-blocks counter and the slashing parameters.      *)
(*                                                                         *)
(* The code compares floating point percentages of integers; counters of   *)
(* blocks are small enough that such a comparison with a whole percentage  *)
(* is the comparison of the integers multiplied out.                       *)
(***************************************************************************)
EXTENDS PreventSpamming

CONSTANT One                   \* sdk.OneDec(), in units of the last decimal

ASSUME OneAssumption == One \in Nat \ {0}

\* Slashing parameters: SignedBlocksWindow, and MinSignedPerWindow of One.
Params == [window : Nat, min : 0..One]

Applies(p) == p.min > 0 /\ p.window > 0

\* downtimeSlashingWhenMissedExcess: the blocks that need not be signed.
MustSign(p) == (p.min * p.window + One - 1) \div One
Excess(p)   == IF p.min = One THEN 0 ELSE p.window - MustSign(p)

\* Mutant: the ratio is not multiplied by 100.
RatioNotPercent(missed, allowed, percent) == missed > percent * allowed

\* The ratio of missed to allowed blocks exceeds percent; n/0 is +Inf.
RatioExceeds(missed, allowed, percent) == 100 * missed > percent * allowed

\* uptime <= percent.
UptimeAtMost(missed, p, percent) == 100 * missed >= (100 - percent) * p.window

MissedAlerts(missed, p) ==
    IF RatioExceeds(missed, Excess(p), 50) THEN {Alert("missedBlocks", M15, TRUE)}
    ELSE IF RatioExceeds(missed, Excess(p), 10) THEN {Alert("missedBlocks", H2, FALSE)}
    ELSE {}

\* Mutant: the windows of the limits of 65% and 75% are exchanged.
WindowsSwapped(missed, p) ==
    IF ~UptimeAtMost(missed, p, 90) THEN {}
    ELSE {Alert("lowUptime",
                IF UptimeAtMost(missed, p, 65) THEN M30
                ELSE IF UptimeAtMost(missed, p, 75) THEN M15
                ELSE H1,
                UptimeAtMost(missed, p, 70))}

LowUptimeAlerts(missed, p) ==
    IF ~UptimeAtMost(missed, p, 90) THEN {}
    ELSE {Alert("lowUptime",
                IF UptimeAtMost(missed, p, 65) THEN M15
                ELSE IF UptimeAtMost(missed, p, 75) THEN M30
                ELSE H1,
                UptimeAtMost(missed, p, 70))}

\* Only a validator that missed blocks is looked at.
BlockAlerts(missed, p) ==
    IF missed > 0 /\ Applies(p)
    THEN MissedAlerts(missed, p) \cup LowUptimeAlerts(missed, p)
    ELSE {}

\* a is at least as urgent as b: of the same case, sent as often, FATAL if b is.
AsUrgent(a, b) == a.case = b.case /\ a.window <= b.window /\ (b.fatal => a.fatal)
=============================================================================
