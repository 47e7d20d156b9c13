--------------------------- MODULE OneShotStages ---------------------------
(***************************************************************************)
(* What the evaluation of one launch promises, without the invocations,    *)
(* directories and leases by which final_eval.py keeps it: a stage is      *)
(* worked on once and judged once, in the order of a phase; the work of    *)
(* one stage at a time waits for the server; and a phase is done when its  *)
(* stages passed.                                                          *)
(***************************************************************************)
EXTENDS Integers, Sequences

CONSTANTS
    Stages,
    Phases,
    Plan      \* Plan[ph]: the stages of phase ph in order

VARIABLES
    work,     \* work[s]: "none", "busy", or ended well or badly
    verdict,  \* verdict[s]: what is on record of it
    serving,  \* the stages whose work waits for a request on the server
    ladder,   \* the file of the ladder: "none", "partial" or "whole"
    done      \* the phases that are done

vars == <<work, verdict, serving, ladder, done>>

Init ==
    /\ work = [s \in Stages |-> "none"]
    /\ verdict = [s \in Stages |-> "none"]
    /\ serving = {} /\ ladder = "none" /\ done = {}

(* A ladder that left a file is not repeated, whatever became of it; the   *)
(* stage behind it reads the file.                                         *)
Behind(s) == verdict[s] = "passed" \/ (s = "ladder" /\ ladder # "none")
Sound(s) == verdict[s] = "passed" \/ (s = "ladder" /\ ladder = "whole")

InTurn(s) ==
    \E ph \in Phases : \E n \in DOMAIN Plan[ph] :
        /\ Plan[ph][n] = s
        /\ \A m \in DOMAIN Plan[ph] : m < n => Behind(Plan[ph][m])

Begin(s) ==
    /\ work[s] = "none" /\ InTurn(s)
    /\ work' = [work EXCEPT ![s] = "busy"]
    /\ UNCHANGED <<verdict, serving, ladder, done>>

Enter(s) ==
    /\ work[s] = "busy" /\ serving = {}
    /\ serving' = {s}
    /\ UNCHANGED <<work, verdict, ladder, done>>

Leave(s) ==
    /\ serving' = serving \ {s}
    /\ UNCHANGED <<work, verdict, ladder, done>>

WriteLadder ==
    /\ work["ladder"] = "busy" /\ ladder # "whole"
    /\ ladder' = IF ladder = "none" THEN "partial" ELSE "whole"
    /\ UNCHANGED <<work, verdict, serving, done>>

(* Nobody vouches for a ladder's file that is not whole.                   *)
End(s, how) ==
    /\ work[s] = "busy" /\ how \in {"good", "bad"}
    /\ how = "good" /\ s \in {"ladder", "ladder-reconciled"} => ladder = "whole"
    /\ work' = [work EXCEPT ![s] = how]
    /\ serving' = serving \ {s}
    /\ UNCHANGED <<verdict, ladder, done>>

Judge(s) ==
    /\ verdict[s] = "none" /\ work[s] \in {"good", "bad"}
    /\ verdict' = [verdict EXCEPT ![s] = IF work[s] = "good" THEN "passed" ELSE "failed"]
    /\ UNCHANGED <<work, serving, ladder, done>>

Mark(ph) ==
    /\ \A n \in DOMAIN Plan[ph] : Sound(Plan[ph][n])
    /\ done' = done \cup {ph}
    /\ UNCHANGED <<work, verdict, serving, ladder>>

Next ==
    \/ \E s \in Stages :
          \/ Begin(s) \/ Enter(s) \/ Leave(s) \/ Judge(s)
          \/ \E how \in {"good", "bad"} : End(s, how)
    \/ WriteLadder
    \/ \E ph \in Phases : Mark(ph)

Spec == Init /\ [][Next]_vars

=============================================================================
