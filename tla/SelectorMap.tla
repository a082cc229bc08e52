---------------------------- MODULE SelectorMap ----------------------------
(***************************************************************************)
(* What cachedNames of controllers/hvpa_controller.go stands for: for      *)
(* every HVPA of a namespace the label selector of its target, if it is    *)
(* known.  One HVPA at a time is learnt or corrected; one is forgotten     *)
(* only after a reconcile has found it gone; and a new process knows none. *)
(***************************************************************************)
CONSTANTS
    Hvpas,      \* names of HVPAs
    Selectors,  \* what a target's selector may be
    Absent      \* the HVPA is not known

VARIABLES
    exists,     \* the HVPAs there are
    selectorOf, \* what is known of each
    missed      \* known HVPAs that were found gone

vars == <<exists, selectorOf, missed>>

Init ==
    /\ exists \subseteq Hvpas
    /\ selectorOf = [h \in Hvpas |-> Absent] /\ missed = {}

Learn(h) ==
    /\ missed = {} /\ \E s \in Selectors : selectorOf' = [selectorOf EXCEPT ![h] = s]
    /\ UNCHANGED <<exists, missed>>

Miss(h) ==
    /\ h \notin exists /\ selectorOf[h] # Absent
    /\ missed = {} /\ missed' = {h}
    /\ UNCHANGED <<exists, selectorOf>>

Forget(h) ==
    /\ h \in missed /\ missed' = {}
    /\ selectorOf' = [selectorOf EXCEPT ![h] = Absent]
    /\ UNCHANGED exists

Users(h) ==
    /\ exists' \in {exists \union {h}, exists \ {h}}
    /\ UNCHANGED <<selectorOf, missed>>

StartAnew ==
    /\ selectorOf' = [h \in Hvpas |-> Absent] /\ missed' = {}
    /\ UNCHANGED exists

Next == (\E h \in Hvpas : Learn(h) \/ Miss(h) \/ Forget(h) \/ Users(h)) \/ StartAnew

Spec == Init /\ [][Next]_vars
=============================================================================
