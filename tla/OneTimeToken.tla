----------------------------- MODULE OneTimeToken -----------------------------
(***************************************************************************)
(* What a broker token promises: it is issued once, is good for a while,   *)
(* and is accepted at most once, after which it is worthless for ever.     *)
(* Nothing more is promised of a token that two requests present at the    *)
(* same time.                                                              *)
(***************************************************************************)
CONSTANT Tokens

VARIABLE status  \* what each token is worth

Init == status = [t \in Tokens |-> "unissued"]

Turn(t, from, to) == status[t] = from /\ status' = [status EXCEPT ![t] = to]

Issue(t) == Turn(t, "unissued", "valid")

Accept(t) == Turn(t, "valid", "used")

Lapse(t) == Turn(t, "valid", "lapsed")

Contest(t) == \E from \in {"valid", "used", "lapsed"} : Turn(t, from, "contested")

Next == \E t \in Tokens : Issue(t) \/ Accept(t) \/ Lapse(t) \/ Contest(t)

Spec == Init /\ [][Next]_status
===============================================================================
