--------------------------- MODULE PublicationSwitch ---------------------------
(***************************************************************************)
(* What a pilot's kill switch promises: signals leave only while the pilot *)
(* runs.  A publication is first pending and then out; stopping the pilot, *)
(* and ending it, drops whatever is pending, in the same step.  What is out*)
(* stays out, cases draw only on it, and an ended pilot never runs again.  *)
(*                                                                         *)
(* Officers, copies of the pilot's row, slots and quotas are the pilot's   *)
(* own affair: the mode changes at will until the end.                     *)
(***************************************************************************)

CONSTANTS Signals

VARIABLES
    mode,       \* "setup", "running", "stopped" or "ended"
    pending,    \* signals about to be published
    out,        \* signals published
    attached    \* signals attached to a case

switchVars == <<mode, pending, out, attached>>

SwitchInit ==
    /\ mode = "setup"
    /\ pending = {} /\ out = {} /\ attached = {}

\* A stop drops what is pending.
Turn(m) ==
    /\ mode = "ended" => m = "ended"
    /\ mode' = m
    /\ pending' = IF m \in {"stopped", "ended"} THEN {} ELSE pending
    /\ UNCHANGED <<out, attached>>

Prepare(s) ==
    /\ mode = "running" /\ s \notin pending \cup out
    /\ pending' = pending \cup {s}
    /\ UNCHANGED <<mode, out, attached>>

Publish(s) ==
    /\ mode = "running" /\ s \in pending
    /\ pending' = pending \ {s} /\ out' = out \cup {s}
    /\ UNCHANGED <<mode, attached>>

\* Outside a run a pending signal is dropped, at the latest when its time comes.
Drop(s) ==
    /\ mode # "running" /\ s \in pending
    /\ pending' = pending \ {s}
    /\ UNCHANGED <<mode, out, attached>>

Attach(s) ==
    /\ s \in out \ attached
    /\ attached' = attached \cup {s}
    /\ UNCHANGED <<mode, pending, out>>

SwitchNext ==
    \/ \E m \in {"setup", "running", "stopped", "ended"} : Turn(m)
    \/ \E s \in Signals : Prepare(s) \/ Publish(s) \/ Drop(s) \/ Attach(s)

SwitchSpec == SwitchInit /\ [][SwitchNext]_switchVars
=============================================================================
