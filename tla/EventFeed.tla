----------------------------- MODULE EventFeed -----------------------------
(***************************************************************************)
(* What one symbol of the engine promises its users: commands enter a log  *)
(* that only grows, each under its place in the log as its number, and     *)
(* every event that leaves the system is about a command of that log under *)
(* that number.  Events may be sent again (at least once), in any number   *)
(* of runs of the process.  Once commands are hidden from the recovery,    *)
(* numbers may be used again, and an event is about one of the commands    *)
(* that had its number.                                                    *)
(***************************************************************************)
EXTENDS Integers, Sequences

CONSTANT Commands  \* the commands clients send

VARIABLES log,     \* the commands with their numbers, in the order they were logged
          hidden,  \* whether the recovery cannot see all of them any more
          out      \* the events users have been sent

vars == <<log, hidden, out>>

Entry == [seq : Nat, cmd : Commands]

Init == log = <<>> /\ hidden = FALSE /\ out = {}

\* Some commands are made durable behind the ones already there.
Commit ==
  /\ log' \in Seq(Entry)
  /\ Len(log') >= Len(log)
  /\ \A k \in 1..Len(log) : log'[k] = log[k]
  /\ hidden => hidden'
  /\ ~hidden' => \A k \in 1..Len(log') : log'[k].seq = k
  /\ UNCHANGED out

Send ==
  /\ \E e \in out' :
       /\ \E k \in 1..Len(log) : log[k].seq = e.seq /\ log[k].cmd = e.req
       /\ out' = out \cup {e}
  /\ UNCHANGED <<log, hidden>>

Next == Commit \/ Send

Spec == Init /\ [][Next]_vars
=============================================================================
