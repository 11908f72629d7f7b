---------------------- MODULE MCReservationMaterializer ----------------------
(***************************************************************************)
(* Instances of ReservationMaterializer for TLC: a container with an IPv4  *)
(* scope that publishes names and an IPv6 scope that does not, and sources *)
(* that differ in what the two readers accept.                             *)
(***************************************************************************)
EXTENDS ReservationMaterializer

CONSTANTS job4, job6, here, elsewhere

MCNetwork == [f \in Families |-> IF f = "ipv4" THEN 1 .. 3 ELSE 11 .. 13]
MCFolded == [h \in {"web", "Web", "mail", "a.b", "-x"} |-> IF h = "Web" THEN "web" ELSE h]
MCFamily == [j \in Jobs |-> IF j = job4 THEN "ipv4" ELSE "ipv6"]
MCClasses == [j \in Jobs |-> IF j = job4 THEN {"A", "AAAA", "PTR"} ELSE {}]

Has(addr, key) == [addr |-> addr, key |-> key, ok |-> TRUE]
Record(id, host, addr4, addr6) ==
    [id |-> id, scope |-> here, host |-> host, v4 |-> Has(addr4, id), v6 |-> Has(addr6, id)]
One == Record(1, "web", 1, 11)
Two == Record(2, "mail", 2, 12)

\* Contents both readers accept: two hosts, one of them gone, one moved, two
\* records of one name.
Base == <<One, Two>>
Fewer == <<One>>
Moved == <<One, Record(2, "mail", 3, 12)>>
Shared == <<One, Record(2, "Web", 2, 12)>>

\* Contents only one of them accepts, in one family or in both.
SameAddress6 == <<One, Record(2, "mail", 2, 11)>>
SameAddress4 == <<One, Record(2, "web", 1, 12)>>
SameId == <<One, Record(1, "mail", 2, 12)>>
Only6 == <<[One EXCEPT !.v4 = NoIdentity]>>
Malformed6 == <<[One EXCEPT !.v6.ok = FALSE]>>

\* Contents neither accepts.
BadName == <<[One EXCEPT !.host = "-x"]>>

MCLists == {Base, Fewer, Moved, Shared, SameAddress6, SameAddress4, SameId, Only6,
            Malformed6, BadName}
AcceptedLists == {Base, Fewer, Moved, SameAddress6, SameAddress4}
=============================================================================
