------------------------------ MODULE MCController -----------------------------
(* Controller with the two service threads that can exist at a time.  The     *)
(* number of starts and stops is not bounded.                                 *)
EXTENDS Controller

CONSTANTS t1, t2

MCThreads == {t1, t2}
===============================================================================
