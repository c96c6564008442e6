----------------------------- MODULE MCEncoderRuns -----------------------------
(* EncoderRuns for the same programs and some with more interleavings.     *)
EXTENDS EncoderRuns

P == INSTANCE MCEventPrograms

AllPrograms ==
  P!AllPrograms \union {P!WrongSender, P!IndependentReads, P!DeepStack, P!Tickets}

ImmediateDeadlocks == {P!CrossedReceives}

(* What EncoderRunsProofs supposes of a program is true of each of these.  *)
ASSUME ProgramsAreEncodable ==
  \A p \in AllPrograms \union ImmediateDeadlocks : Encodable(p) /\ DeadlockEncodable(p)
=============================================================================
