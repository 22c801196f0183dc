----------------------------- MODULE TurnPromise -----------------------------
(***************************************************************************)
(* What the durability machinery promises about the turns of a             *)
(* conversation, with no stream, heartbeat, claim or sweep in sight: a     *)
(* turn once reserved is settled; an answer is final; a failure may still  *)
(* turn into an answer, unless the user was told the turn is revoked; a    *)
(* retry may drop turns, and a dropped turn never comes back.              *)
(***************************************************************************)
CONSTANT Msg

VARIABLE turn

Phase == {"absent", "open", "answered", "failed", "revoked", "dropped"}

Init == turn = [m \in Msg |-> "absent"]

Kept == {m \in Msg : turn[m] \notin {"absent", "dropped"}}

\* A request opens a new turn in place of any of the present ones.
Reserve(m, cut) ==
    /\ turn[m] = "absent"
    /\ turn' = [k \in Msg |-> IF k = m THEN "open"
                              ELSE IF k \in cut THEN "dropped" ELSE turn[k]]

\* An open turn is settled one way or another.
Settle(m) ==
    /\ turn[m] = "open"
    /\ \E p \in {"answered", "failed", "revoked"} :
          turn' = [turn EXCEPT ![m] = p]

\* The answer to a turn already given up arrives after all.
Reclaim(m) ==
    /\ turn[m] = "failed"
    /\ turn' = [turn EXCEPT ![m] = "answered"]

Next == \E m \in Msg : \/ \E cut \in SUBSET Kept : Reserve(m, cut)
                       \/ Settle(m)
                       \/ Reclaim(m)

Safety == Init /\ [][Next]_turn

Spec == Safety /\ \A m \in Msg : WF_turn(Settle(m))
=============================================================================
