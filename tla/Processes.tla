----------------------------- MODULE Processes ------------------------------
(***************************************************************************)
(* The processes the booster starts.  The LaunchManager knows them by their*)
(* pid, the IpcServer by the socket each of them opens.                    *)
(***************************************************************************)
EXTENDS Integers, FiniteSets

CONSTANT Pids    \* process ids the kernel may hand out, none of them twice

\* 0 is "no process" in the code.
ASSUME PidsAssumption == Pids \subseteq Nat \ {0} /\ IsFiniteSet(Pids)
=============================================================================
