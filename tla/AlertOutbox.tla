---------------------------- MODULE AlertOutbox -----------------------------
(***************************************************************************)
(* What the push service promises to those who enqueue alerts.  A message  *)
(* that was accepted is owed to its receiver until it is delivered, or     *)
(* silenced by a pattern of that receiver; nothing else discharges it.     *)
(* Delivery is at least once: a message may be delivered again.  One       *)
(* delivery (one Telegram message) only carries messages of one receiver.  *)
(***************************************************************************)
CONSTANTS
    Msgs,        \* the messages
    To           \* receiver of each message

VARIABLES
    owed,        \* accepted, neither delivered nor silenced yet
    delivered,   \* delivered at least once
    silenced     \* dropped at least once for a silence pattern

outbox == <<owed, delivered, silenced>>

Init == owed = {} /\ delivered = {} /\ silenced = {}

Accept(m) ==
    /\ m \notin owed \cup delivered \cup silenced
    /\ owed' = owed \cup {m}
    /\ UNCHANGED <<delivered, silenced>>

Deliver(r, B) ==
    /\ B \subseteq owed \cup delivered \cup silenced
    /\ \A m \in B : To[m] = r
    /\ owed' = owed \ B
    /\ delivered' = delivered \cup B
    /\ UNCHANGED silenced

Silence(B) ==
    /\ B \subseteq owed \cup delivered \cup silenced
    /\ owed' = owed \ B
    /\ silenced' = silenced \cup B
    /\ UNCHANGED delivered

Next ==
    \/ \E m \in Msgs : Accept(m)
    \/ \E B \in SUBSET Msgs : Silence(B) \/ \E m \in B : Deliver(To[m], B)

Spec == Init /\ [][Next]_outbox
=============================================================================
