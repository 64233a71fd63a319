--------------------------- MODULE MCEmailEvents ---------------------------
(* Two opens, a click and a CC recipient's open, posted in two batches, of  *)
(* the first days; a month later the opens are in two tiers of recency.     *)
EXTENDS EmailEvents

Event(id, type, at, material, own) ==
    [id |-> id, type |-> type, at |-> at, material |-> material, own |-> own]

Open1 == Event(1, "open", 1, None, TRUE)
Open2 == Event(2, "open", 4, None, TRUE)
Click == Event(3, "click", 3, "brochure", TRUE)
Team == Event(4, "open", 4, None, FALSE)
Sent == Event(5, "delivered", 1, None, TRUE)

MCEvents == {Open1, Open2, Click, Team, Sent}
MCPosts == {<<Open1, Click>>, <<Sent, Team, Open2>>}
=============================================================================
