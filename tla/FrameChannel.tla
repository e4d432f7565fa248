---------------------------- MODULE FrameChannel ----------------------------
(***************************************************************************)
(* What the Ethernet interface promises lwIP, on either side: frames on    *)
(* their way may be lost at any point of it, but no frame passes another   *)
(* and none becomes two.  The first frame of chan is the next to come out, *)
(* and coming out is not told apart from being lost here.                  *)
(***************************************************************************)
EXTENDS Naturals, Sequences, FiniteSets, SequencesExt

CONSTANT Frames \* what names a frame while it is on its way

VARIABLE chan   \* the frames on their way, oldest first

Init == chan = << >>

Enter == \E f \in Frames \ Range(chan) : chan' = Append(chan, f)

\* What is left of s when the positions in gone are.
Without(s, gone) ==
  LET kept == SetToSortSeq(DOMAIN s \ gone, <) IN
    [i \in DOMAIN kept |-> s[kept[i]]]

Leave == \E gone \in SUBSET DOMAIN chan : chan' = Without(chan, gone)

Next == Enter \/ Leave

Spec == Init /\ [][Next]_chan
=============================================================================
