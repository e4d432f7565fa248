---------------------------- MODULE FlashReader ----------------------------
(***************************************************************************)
(* What FlashRead promises its caller: a read of count units at an address *)
(* ends, and gives the units that the flash holds there, or fails.  A unit *)
(* stands for its address.                                                 *)
(***************************************************************************)
EXTENDS Integers, Sequences

CONSTANT Calls      \* the calls: records of an address and a count

VARIABLES
  call,             \* the call under way, or the last one
  outcome,          \* "none", "busy", "ok" or "failed"
  data              \* what a successful call has read

vars == <<call, outcome, data>>

Held(c) == [i \in 1 .. c.count |-> c.address + i - 1]

Init ==
  /\ call \in Calls
  /\ outcome = "none"
  /\ data = << >>

Call ==
  /\ outcome # "busy"
  /\ call' \in Calls
  /\ outcome' = "busy"
  /\ data' = << >>

Return ==
  /\ outcome = "busy"
  /\ \/ outcome' = "ok" /\ data' = Held(call)
     \/ outcome' = "failed" /\ data' = << >>
  /\ UNCHANGED call

Next == Call \/ Return

\* What is read, without the promise that a read ends.
Safety == Init /\ [][Next]_vars

Spec == Safety /\ WF_vars(Return)
=============================================================================
