------------------------------- MODULE Suites -------------------------------
(***************************************************************************)
(* What is verified stage by stage: a payment by the verification suite,   *)
(* the custody backends by the testbed, and the sums of a payment by the   *)
(* conversions they go through.  The three share no state, so a behaviour  *)
(* is one of one of them.                                                  *)
(***************************************************************************)
EXTENDS Verification, Custody, Amounts

CONSTANT Subjects

VARIABLE subject   \* what is checked, "payment", "custody" or "sums"

ASSUME SuitesAssumption == Subjects \subseteq {"payment", "custody", "sums"}

suitesVars == <<subject, verificationVars, custodyVars, sums>>

SuitesInit ==
  /\ subject \in Subjects
  /\ VerificationInit /\ CustodyInit
  /\ subject # "custody" => setting = CHOOSE s \in Settings : TRUE
  /\ IF subject = "sums" THEN AmountsInit
     ELSE sums = Typed(CHOOSE send \in SendAmounts : TRUE)

SuitesNext ==
  \/ subject = "payment" /\ VerificationNext /\ UNCHANGED <<subject, custodyVars, sums>>
  \/ subject = "custody" /\ CustodyNext /\ UNCHANGED <<subject, verificationVars, sums>>
  \/ subject = "sums" /\ AmountsNext /\ UNCHANGED <<subject, verificationVars, custodyVars>>

SuitesSpec == SuitesInit /\ [][SuitesNext]_suitesVars

\* The reads of the verification suite and the calls of custody keep their types:
\* in particular no result of the adapter is anything its callers do not expect.
SuitesTypeOK == VerificationTypeOK /\ CustodyTypeOK

=============================================================================
