----------------------------- MODULE JobLedger -----------------------------
(***************************************************************************)
(* What the job queue promises to a handler, without sessions, locks,      *)
(* threads or processes.  A job is handed out in numbered turns, one       *)
(* holder at a time; only the current turn may write, and only while it    *)
(* holds the job or after the job was cancelled under it; a job that has   *)
(* been returned, or has succeeded or failed, is never written again       *)
(* before its next turn.                                                   *)
(***************************************************************************)
EXTENDS Naturals

CONSTANT Jobs

VARIABLES
  state,   \* where each job stands
  turn,    \* how many turns of it were handed out
  written  \* the <<job, turn>> pairs that wrote something

vars == <<state, turn, written>>

Init ==
  /\ state   = [j \in Jobs |-> "absent"]
  /\ turn    = [j \in Jobs |-> 0]
  /\ written = {}

Move(j, from, to) ==
  /\ state[j] \in from
  /\ state' = [state EXCEPT ![j] = to]
  /\ UNCHANGED <<turn, written>>

Submit(j)  == Move(j, {"absent"}, "queued")
GoBack(j)  == Move(j, {"running"}, "queued")
Finish(j)  == Move(j, {"running"}, "succeeded")
GiveUp(j)  == Move(j, {"running"}, "failed")
Reopen(j)  == Move(j, {"failed"}, "queued")
Revoke(j)  == Move(j, {"queued", "running", "succeeded", "failed"}, "cancelled")

HandOut(j) ==
  /\ state[j] = "queued"
  /\ state' = [state EXCEPT ![j] = "running"]
  /\ turn'  = [turn EXCEPT ![j] = @ + 1]
  /\ UNCHANGED written

Write(j) ==
  /\ state[j] \in {"running", "cancelled"}
  /\ written' = written \cup {<<j, turn[j]>>}
  /\ UNCHANGED <<state, turn>>

Next == \E j \in Jobs :
  \/ Submit(j) \/ HandOut(j) \/ Write(j) \/ GoBack(j)
  \/ Finish(j) \/ GiveUp(j) \/ Reopen(j) \/ Revoke(j)

Spec == Init /\ [][Next]_vars
=============================================================================
