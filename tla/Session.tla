-------------------------------- MODULE Session --------------------------------
(***************************************************************************)
(* What a client and a server promise about their connection: the server   *)
(* admits a client that asked, and the client is in once it was admitted.  *)
(* Each end may leave on its own at any time.  Module Connection           *)
(* implements it.                                                          *)
(***************************************************************************)

VARIABLES
    client,   \* the client's end: "out", "asking", "in" or "leaving"
    server,   \* the server's end: "out" or "in"
    history   \* how far the client has ever come: "new", "asked" or "admitted"

vars == <<client, server, history>>

Init == client = "out" /\ server = "out" /\ history = "new"

Ask ==
    /\ client = "out"
    /\ client' = "asking"
    /\ history' = IF history = "new" THEN "asked" ELSE history
    /\ UNCHANGED server

Admit ==
    /\ server = "out" /\ history # "new"
    /\ server' = "in"
    /\ history' = "admitted"
    /\ UNCHANGED client

Enter ==
    /\ client = "asking" /\ history = "admitted"
    /\ client' = "in"
    /\ UNCHANGED <<server, history>>

SayGoodbye ==
    /\ client = "in"
    /\ client' = "leaving"
    /\ UNCHANGED <<server, history>>

Leave ==
    /\ client # "out"
    /\ client' = "out"
    /\ UNCHANGED <<server, history>>

Drop ==
    /\ server = "in"
    /\ server' = "out"
    /\ UNCHANGED <<client, history>>

Next == Ask \/ Admit \/ Enter \/ SayGoodbye \/ Leave \/ Drop

Spec == Init /\ [][Next]_vars

=============================================================================
