------------------------------- MODULE MCEncoder -------------------------------
(* Encoder for programs of up to ten events on three threads.  The programs*)
(* for check_deadlock do nothing but communicate, and their main threads   *)
(* only start the others and wait for them.                                *)
EXTENDS Encoder

P == INSTANCE MCEventPrograms

AllPrograms == P!AllPrograms

ASSUME \A p \in AllPrograms :
          /\ UnambiguousWildcards(p)
          /\ ReadsNothingForDeadlock(p)
          /\ "check_deadlock" \in p.queries => JustCommunicates(p)
          /\ \A q \in p.queries : FormulaIsMade(p, q = "check_deadlock")

WildcardPrograms == {P!MessageForAnother}
=============================================================================
