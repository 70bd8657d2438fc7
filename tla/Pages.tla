-------------------------------- MODULE Pages --------------------------------
(***************************************************************************)
(* What a client promises its user, without sessions, requests or widgets:    *)
(* which of the three pages is shown, and whom the server serves.  The chat   *)
(* page is shown only after a login over the present connection, and until    *)
(* that account is given up or the connection is lost.                       *)
(***************************************************************************)
CONSTANTS User, Nobody

VARIABLES
    screen,   \* "connection", "authentication" or "main"
    served    \* the account the server serves over the connection

Connect ==
    /\ screen = "connection"
    /\ screen' = "authentication" /\ served' = Nobody

\* The server serves an account, before the user learns of it.
Admit ==
    /\ screen # "connection"
    /\ served' \in User /\ UNCHANGED screen

Enter ==
    /\ screen # "connection" /\ served # Nobody
    /\ screen' = "main" /\ UNCHANGED served

Leave ==
    /\ screen = "main"
    /\ screen' = "authentication" /\ UNCHANGED served

Lose ==
    /\ screen # "connection"
    /\ screen' = "connection" /\ served' = Nobody

Init == screen = "connection" /\ served = Nobody

Next == Connect \/ Admit \/ Enter \/ Leave \/ Lose

Spec == Init /\ [][Next]_<<screen, served>>
=============================================================================
