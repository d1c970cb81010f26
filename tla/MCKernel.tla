------------------------------ MODULE MCKernel -------------------------------
(***************************************************************************)
(* Instances of the kernel for model checking.  Each cfg enables the parts *)
(* it asks about through the constants; the narrower specifications below  *)
(* leave out operations that do not take part in a question, to make room  *)
(* for more tasks and longer timeouts.                                     *)
(***************************************************************************)
EXTENDS Kernel

\* Values that a cfg cannot write.
MinusOneAndOne == {-1, 1}
MinusOneAndTwo == {-1, 2}

Forking == Fork /\ UNCHANGED <<keyVars, semVars>>

\* Tasks that only fork and read keys.
KeySpec == Init /\ [][Forking \/ KeyNext]_vars
=============================================================================
