------------------------- MODULE ProposalLifecycle -------------------------
(***************************************************************************)
(* What Human Review promises of an approved action, without jobs, leases, *)
(* workers or clocks: the transition diagram of action_proposals.state in  *)
(* docs/reasoning-led-capability-execution-plan.md:426-428, and when the   *)
(* action itself may take effect.  The diagram is kept wherever the code   *)
(* does what it says, so approved never becomes denied directly.           *)
(***************************************************************************)
EXTENDS Integers

CONSTANT Proposals

VARIABLE life

States == {"absent", "pending", "approved", "executing", "executed",
           "rejected", "expired", "superseded", "canceled", "denied",
           "failed_terminal"}

Life == [state: States, effects: 0 .. 1]

Unborn == [state |-> "absent", effects |-> 0]

Init == life = [p \in Proposals |-> Unborn]

Diagram ==
    {<<"absent", "pending">>}
        \cup {"pending"} \X {"approved", "rejected", "expired", "superseded"}
        \cup {"approved"} \X {"executing", "expired", "canceled"}
        \cup {"executing"} \X
                 {"approved", "executed", "denied", "failed_terminal"}

(* A proposal goes back to approved, or is denied, only when its action    *)
(* had no effect; it is executed only when it had.                         *)
Move(e, f) ==
    /\ <<e.state, f.state>> \in Diagram
    /\ f.effects = e.effects
    /\ e.state = "executing" /\ f.state \in {"approved", "denied"}
           => e.effects = 0
    /\ e.state = "executing" /\ f.state = "executed" => e.effects = 1

(* The action takes effect at most once, and only while executing.         *)
TakeEffect(e, f) ==
    /\ e.state = "executing" /\ f.state = "executing"
    /\ e.effects = 0 /\ f.effects = 1

Lawful(e, f) == f = e \/ Move(e, f) \/ TakeEffect(e, f)

Next ==
    /\ life' \in [Proposals -> Life]
    /\ \A p \in Proposals : Lawful(life[p], life'[p])

Spec == Init /\ [][Next]_life
=============================================================================
