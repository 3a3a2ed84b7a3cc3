---------------------------- MODULE ScriptChannel ----------------------------
(***************************************************************************)
(* What an executor may rely on when it sends scripts through one sidecar: *)
(* the promise of SidecarProcessBridge together with its wrapper           *)
(* ZeriWireSidecarBridge, without threads, locks, pipes or the sidecar.    *)
(*                                                                         *)
(* A channel is opened once, runs one script at a time, gives every script *)
(* exactly one outcome, and is shut once.  Two clauses carry the weight:   *)
(*   - after a script was reported as timed out no further script starts   *)
(*     on the channel (the sidecar may still be busy with the old one);    *)
(*   - a result belongs to the script it is reported for, unless an        *)
(*     earlier script was given up on by the caller ("waitTimeout").       *)
(***************************************************************************)
EXTENDS Naturals

CONSTANT MaxExec        \* bound on the scripts sent through one channel


VARIABLES
    phase,      \* "new", "open", "busy", "shut", or "crashed" (engine gone)
    current,    \* number of the latest script, 0 before the first
    outcome     \* outcome[n]: how script n ended, and for which script that
                \* outcome was produced

channelVars == <<phase, current, outcome>>

Execs == 1 .. MaxExec

Pending == [how |-> "pending", of |-> 0]

Outcomes == [how : {"pending", "result", "timeout", "sendFailed", "waitTimeout"},
             of : 0 .. MaxExec]

\* The caller gave up on a script that the sidecar may still answer.
Abandoned(n) == \E m \in 1 .. (n - 1) : outcome[m].how = "waitTimeout"

Init ==
    /\ phase = "new"
    /\ current = 0
    /\ outcome = [n \in Execs |-> Pending]

Open ==
    /\ phase = "new"
    /\ phase' \in {"open", "shut"}
    /\ UNCHANGED <<current, outcome>>

Begin ==
    /\ phase = "open"
    /\ current < MaxExec
    /\ \A n \in Execs : outcome[n].how # "timeout"
    /\ phase' = "busy"
    /\ current' = current + 1
    /\ UNCHANGED outcome

\* A result is the script's own, or a stale one of an abandoned script.
Complete ==
    /\ phase = "busy"
    /\ outcome[current] = Pending
    /\ \E o \in Outcomes \ {Pending} :
        /\ o.how = "result" => (o.of = current \/ Abandoned(current))
        /\ o.how \in {"sendFailed", "waitTimeout"} => o.of = current
        /\ outcome' = [outcome EXCEPT ![current] = o]
    /\ UNCHANGED <<phase, current>>

Return ==
    /\ phase = "busy"
    /\ outcome[current] # Pending
    /\ phase' = "open"
    /\ UNCHANGED <<current, outcome>>

Close ==
    /\ phase = "open"
    /\ phase' = "shut"
    /\ UNCHANGED <<current, outcome>>

\* On POSIX a write to a pipe whose reader has exited ends the engine.
Crash ==
    /\ phase \in {"open", "busy", "shut"}
    /\ phase' = "crashed"
    /\ UNCHANGED <<current, outcome>>

Next == Open \/ Begin \/ Complete \/ Return \/ Close \/ Crash

Spec == Init /\ [][Next]_channelVars
=============================================================================
