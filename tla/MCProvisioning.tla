--------------------------- MODULE MCProvisioning ---------------------------
(* Besides the release, downloads that are damaged, too long, too large once *)
(* extracted, and malformed.  The first dashboard file is the same in all.   *)
EXTENDS Provisioning, TLC

MCContent == [b \in Bundle |-> [f \in Asset |-> IF f = "index" THEN "same" ELSE b]]
MCBytes   == [b \in Bundle |-> IF b = "long" THEN 3 ELSE 2]
MCDirectory ==
  [b \in Bundle |->
     CASE b = "large"     -> <<[field |-> 1, zip64 |-> None], [field |-> 2, zip64 |-> None], [field |-> 1, zip64 |-> None]>>
       [] b = "malformed" -> <<[field |-> 4, zip64 |-> None]>>
       [] OTHER           -> <<[field |-> 1, zip64 |-> None], [field |-> 4, zip64 |-> 2]>>]

\* Runs of the wizard are alike, and so are the accounts.
ProvisioningSymmetry == Permutations(Wizard) \cup Permutations(Account)
=============================================================================
