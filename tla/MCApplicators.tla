--------------------------- MODULE MCApplicators ---------------------------
EXTENDS Applicators, TLC

CONSTANTS a1, a2

AllData == {"k" :> 1, "k" :> 2 @@ "l" :> 1}
=============================================================================
