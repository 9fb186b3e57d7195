---------------------------- MODULE UptimeWindow ---------------------------
(***************************************************************************)
(* What must hold of the alerts of a round (UptimeAlert) for the slashing  *)
(* parameters in force and for whatever parameters the chain may take, and *)
(* for any number of missed blocks, which never exceeds the window.  A     *)
(* health check may look at any moment.                                    *)
(***************************************************************************)
EXTENDS HealthCheck

CONSTANTS
    MaxWindow      \* bound on SignedBlocksWindow

\* Parameters that governance of the chain may set.
Governed == [window : 0..MaxWindow, min : 0..One]

ASSUME WindowAssumption == MaxWindow \in Nat /\ ParamsChoices \subseteq Governed

-----------------------------------------------------------------------------
Graded ==
    \A p \in Governed : \A m, n \in 0..p.window : m <= n =>
        \A b \in BlockAlerts(m, p) : \E a \in BlockAlerts(n, p) : AsUrgent(a, b)

\* Missing more blocks never makes the alerts less urgent: for every alert
\* before there is one as urgent after (worker.go:363-436), so a watcher is not
\* warned less because things get worse.
WorseIsMoreUrgent == params \in Governed /\ Graded

WarnsOfJail ==
    \A p \in Governed : \A missed \in 1..p.window :
        Applies(p) /\ missed >= Excess(p)
            => \E a \in BlockAlerts(missed, p) : a.case = "missedBlocks" /\ a.fatal

\* A validator that missed as many blocks as it may is under a FATAL alert: it
\* is not jailed for downtime without one (worker.go:353-386).
FatalBeforeJail == params \in Governed /\ WarnsOfJail

KindsAgree ==
    \A p \in Governed : Applies(p)
        => \A c \in {"missedBlocks", "lowUptime"} :
              \E a \in BlockAlerts(p.window, p) : a.case = c /\ a.fatal /\ a.window = M15

\* The two kinds of alert agree at the extreme: a validator that signs nothing
\* is under FATAL alerts of both kinds, whatever the parameters.
SilentValidatorFatal == params \in Governed /\ KindsAgree
=============================================================================
