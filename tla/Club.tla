-------------------------------- MODULE Club --------------------------------
(***************************************************************************)
(* What a chat group promises: a club with a head, who is one of its       *)
(* folk.  People join, are expelled or resign, the head is passed on, and  *)
(* whoever is the last does not leave an empty club behind.                *)
(***************************************************************************)
CONSTANTS Person, Nobody

VARIABLES
    stage,  \* "none" before it is founded, "live", "gone"
    head,
    folk

clubVars == <<stage, head, folk>>

Init == stage = "none" /\ head = Nobody /\ folk = {}

Establish(a, others) ==
    /\ stage = "none"
    /\ stage' = "live"
    /\ head' = a
    /\ folk' = {a} \cup others

Join(newcomers) ==
    /\ stage = "live"
    /\ newcomers # {}
    /\ newcomers \cap folk = {}
    /\ folk' = folk \cup newcomers
    /\ UNCHANGED <<stage, head>>

Expel(a) ==
    /\ a \in folk \ {head}
    /\ folk' = folk \ {a}
    /\ UNCHANGED <<stage, head>>

Resign(a) ==
    /\ a \in folk
    /\ folk' = folk \ {a}
    /\ IF a = head THEN head' \in folk' ELSE UNCHANGED head
    /\ UNCHANGED stage

Pass(a) ==
    /\ stage = "live"
    /\ a \in folk
    /\ head' = a
    /\ UNCHANGED <<stage, folk>>

Close ==
    /\ stage = "live"
    /\ stage' = "gone"
    /\ folk' = {}
    /\ UNCHANGED head

Next ==
    \/ \E a \in Person, others \in SUBSET Person : Establish(a, others)
    \/ \E newcomers \in SUBSET Person : Join(newcomers)
    \/ \E a \in Person : Expel(a) \/ Resign(a) \/ Pass(a)
    \/ Close

Spec == Init /\ [][Next]_clubVars
=============================================================================
