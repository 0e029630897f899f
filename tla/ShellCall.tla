----------------------------- MODULE ShellCall -----------------------------
(***************************************************************************)
(* What Shell promises the code that calls it (installer, storage, UI),    *)
(* whoever runs the command: a command is carried out at most once, and    *)
(* success is reported only for a command that was carried out.  A command *)
(* reported as failed may or may not have been carried out, and may even   *)
(* be carried out after the report: the callers cannot tell.               *)
(***************************************************************************)
EXTENDS Naturals

CONSTANTS Threads, MaxCommands

VARIABLES pending,    \* the threads inside a Shell function
          issued,     \* per thread, the number of commands it has given
          runs,       \* per command, how often it has been carried out
          succeeded   \* the commands reported as successful

vars == <<pending, issued, runs, succeeded>>

Commands == Threads \X (1..MaxCommands)

Init == /\ pending = {}
        /\ issued = [t \in Threads |-> 0]
        /\ runs = [c \in Commands |-> 0]
        /\ succeeded = {}

Call(t) == /\ t \notin pending
           /\ pending' = pending \cup {t}
           /\ issued' = [issued EXCEPT ![t] = @ + 1]
           /\ UNCHANGED <<runs, succeeded>>

Run(c) == /\ c[2] <= issued[c[1]]
          /\ runs[c] = 0
          /\ runs' = [runs EXCEPT ![c] = 1]
          /\ UNCHANGED <<pending, issued, succeeded>>

Return(t) == /\ t \in pending
             /\ pending' = pending \ {t}
             /\ \/ succeeded' = succeeded
                \/ /\ runs[<<t, issued[t]>>] = 1
                   /\ succeeded' = succeeded \cup {<<t, issued[t]>>}
             /\ UNCHANGED <<issued, runs>>

\* The process of the callers ends and takes the calls with it.
Die == /\ pending' = {}
       /\ UNCHANGED <<issued, runs, succeeded>>

Next == \/ \E t \in Threads : Call(t) \/ Return(t)
        \/ \E c \in Commands : Run(c)
        \/ Die

Spec == Init /\ [][Next]_vars
=============================================================================
