----------------------------- MODULE Authority -----------------------------
(***************************************************************************)
(* Incarnation-scoped authority (authority.hpp) and the generations it     *)
(* compares (generation.hpp): the ground truth a coordinator holds, the    *)
(* claim a message carries, and the verdict of one on the other.           *)
(*                                                                         *)
(* A generation is an unsigned integer of bounded width; MaxGen is its     *)
(* largest value (UINT64_MAX in the code, a small number under TLC).  The  *)
(* reason string of a decision is left out.                                *)
(***************************************************************************)
EXTENDS Naturals

CONSTANTS
  Boot,    \* boot identities (WorkerBootId) of the incarnations there are
  MaxGen   \* largest generation

Null == 0  \* the null boot identity

ASSUME AuthorityAssumption ==
  /\ MaxGen \in Nat \ {0}
  /\ Boot \subseteq Nat \ {Null}

Generation == 0 .. MaxGen

GroundTruth ==
  [epoch : Generation, live_boot : Boot \cup {Null}, group : Generation,
   collective : Generation, attempt : Generation, dispatch : Generation]

Claim ==
  [epoch : Generation, boot : Boot \cup {Null}, group : Generation,
   collective : Generation, attempt : Generation, dispatch : Generation,
   is_completion : BOOLEAN]

\* Mutants: the counter wraps around at its largest value; it has no width.
NextGenWraps(g) == IF g = MaxGen THEN 0 ELSE g + 1

NextGenUnbounded(g) == g + 1

\* Generation::next: 0 counts as "none yet", the largest value stays.
NextGen(g) == IF g = MaxGen THEN g ELSE g + 1

-----------------------------------------------------------------------------
\* Mutant: an equal group generation counts as older.
LagsOrEqual(truth, claim) ==
  \/ claim.group <= truth.group
  \/ claim.collective < truth.collective
  \/ claim.attempt < truth.attempt
  \/ claim.dispatch < truth.dispatch

\* Some generation of the claim is older than the recorded one.
Lags(truth, claim) ==
  \/ claim.group < truth.group
  \/ claim.collective < truth.collective
  \/ claim.attempt < truth.attempt
  \/ claim.dispatch < truth.dispatch

Same(truth, claim) ==
  /\ claim.group = truth.group
  /\ claim.collective = truth.collective
  /\ claim.attempt = truth.attempt
  /\ claim.dispatch = truth.dispatch

\* The claim comes from another incarnation than the live one.
OtherBoot(truth, claim) ==
  truth.live_boot # Null /\ claim.boot # truth.live_boot

\* Verdict of the comparison of generations, once boot and epoch agree.
Compare(truth, claim) ==
  IF Lags(truth, claim) THEN "STALE"
  ELSE IF ~ Same(truth, claim) THEN "FRESH"
  ELSE IF claim.is_completion THEN "DUPLICATE" ELSE "CURRENT"

\* Mutant: newer generations are believed before the boot is looked at.
EvaluateGenerationsFirst(truth, claim) ==
  IF claim.epoch = truth.epoch /\ Compare(truth, claim) = "FRESH" THEN "FRESH"
  ELSE IF OtherBoot(truth, claim) THEN "STALE"
  ELSE IF truth.live_boot = Null /\ claim.boot = Null THEN "INVALID"
  ELSE IF claim.epoch # truth.epoch
       THEN IF claim.epoch < truth.epoch THEN "STALE" ELSE "UNKNOWN"
  ELSE Compare(truth, claim)

\* evaluate_authority: boot first, then epoch, then the generations.
Evaluate(truth, claim) ==
  IF OtherBoot(truth, claim) THEN "STALE"
  ELSE IF truth.live_boot = Null /\ claim.boot = Null THEN "INVALID"
  ELSE IF claim.epoch # truth.epoch
       THEN IF claim.epoch < truth.epoch THEN "STALE" ELSE "UNKNOWN"
  ELSE Compare(truth, claim)

Verdict == {"CURRENT", "STALE", "FRESH", "DUPLICATE", "UNKNOWN", "INVALID"}

\* The verdicts under which a message is acted upon.
Accepted(truth, claim) == Evaluate(truth, claim) \in {"CURRENT", "FRESH"}

=============================================================================
