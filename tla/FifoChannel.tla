---------------------------- MODULE FifoChannel ----------------------------
(***************************************************************************)
(* What a FrameChannel promises to its two ends, without bytes: the frames *)
(* that come out are the ones that went in, unchanged, in order, each once *)
(* and none skipped; and a channel that refused its input once is dead.    *)
(***************************************************************************)
EXTENDS Naturals, Sequences

CONSTANT Message

VARIABLES
  in,    \* what was put in, in order
  out,   \* what came out, in order
  dead   \* the input was refused

vars == <<in, out, dead>>

Init == in = <<>> /\ out = <<>> /\ dead = FALSE

Put(m) == in' = Append(in, m) /\ UNCHANGED <<out, dead>>

Take ==
  /\ ~ dead
  /\ Len(out) < Len(in)
  /\ out' = Append(out, in[Len(out) + 1])
  /\ UNCHANGED <<in, dead>>

Refuse == dead' = TRUE /\ UNCHANGED <<in, out>>

Next == (\E m \in Message : Put(m)) \/ Take \/ Refuse

Spec == Init /\ [][Next]_vars

=============================================================================
