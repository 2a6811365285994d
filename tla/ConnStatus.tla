----------------------------- MODULE ConnStatus -----------------------------
(***************************************************************************)
(* What the MQTT tool of the web console promises of its connections,      *)
(* without clients, retries, tokens and forms: the status a user can rely  *)
(* on.  A connection is "fresh" until it is created, "idle", "trying" while *)
(* its client attempts to connect, "up", or "gone" once it is removed.     *)
(***************************************************************************)
CONSTANT Conns

VARIABLE status

Statuses == {"fresh", "idle", "trying", "up", "gone"}

Move(c, from, to) == /\ status[c] \in from
                     /\ \E s \in to : status' = [status EXCEPT ![c] = s]

\* A created connection is idle or already trying; only an attempt brings a
\* connection up; a lost one is tried again or given up; what is removed
\* never returns.
Create(c) == Move(c, {"fresh"}, {"idle", "trying"})
Start(c)  == Move(c, {"idle", "up"}, {"trying"})
Succeed(c) == Move(c, {"trying"}, {"up"})
Stop(c)   == Move(c, {"trying", "up"}, {"idle"})

\* The connections of a deleted thing go together.
Remove(C) == /\ \A c \in C : status[c] \in {"idle", "trying", "up"}
             /\ status' = [c \in Conns |-> IF c \in C THEN "gone" ELSE status[c]]

\* A reload of the page ends every attempt and every connection at once.
Restart == status' = [c \in Conns |-> IF status[c] \in {"trying", "up"}
                                      THEN "idle" ELSE status[c]]

\* But for these two, a step is about one connection: no other is touched.
Next == \/ Restart
        \/ \E C \in SUBSET Conns : Remove(C)
        \/ \E c \in Conns : Create(c) \/ Start(c) \/ Succeed(c) \/ Stop(c)

Init == status \in [Conns -> {"fresh", "idle"}]

Safe == Init /\ [][Next]_status

\* An attempt is not open-ended: it succeeds or is given up.
Resolved == \A c \in Conns : (status[c] = "trying") ~> (status[c] # "trying")

Spec == Safe /\ Resolved
=============================================================================
