------------------------------ MODULE MCClient ------------------------------
(* Instances of Client for TLC. *)
EXTENDS Client, TLC

CONSTANTS u1, u2, c1, c2, m1, m2

Channels == (m1 :> c1) @@ (m2 :> c2)

Efforts(connects, requests, dialogs, clicks, packets) ==
    [e \in Effort |-> CASE e = "connect" -> connects [] e = "request" -> requests
                        [] e = "dialog" -> dialogs [] e = "click" -> clicks
                        [] e = "packet" -> packets]

\* Three logins and two deletions: enough for two logins under way at once.
Some == {Efforts(1, 3, 2, 1, 1), Efforts(2, 2, 1, 1, 4)}
Few == {Efforts(1, 1, 0, 1, 3)}
=============================================================================
