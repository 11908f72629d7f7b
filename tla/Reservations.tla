---------------------------- MODULE Reservations ----------------------------
(***************************************************************************)
(* docker-clab-frr-plus-tooling/protected-reservation-materializer.py, the *)
(* part that reads: which contents of the protected source are accepted    *)
(* for Kea and for DNS, and what is made of an accepted one.               *)
(*                                                                         *)
(* The source is a list of records.  A record's identity of a family is an *)
(* address with the hardware address or DUID it belongs to; `ok' stands    *)
(* for the formats the code checks with regular expressions, `Bad' for the *)
(* host names its pattern rejects, `Folded' for lower().  The template of  *)
(* the renderer has no reservations of its own, so what is inserted is     *)
(* what was read.                                                          *)
(***************************************************************************)
EXTENDS Naturals, Sequences

CONSTANTS
    Scope,       \* the scope the reservations must be for
    Network,     \* the addresses of the subnet, per family
    NoIdentity,  \* a record without an identity of a family
    NoHost,      \* a record without a host name
    Bad,         \* host names that the pattern rejects
    Dotted,      \* host names with a dot
    Folded       \* each host name in lower case

Families == {"ipv4", "ipv6"}
RecordClasses == {"A", "AAAA", "PTR"}

Records(list) == {list[i] : i \in DOMAIN list}
Identity(record, family) == IF family = "ipv4" THEN record.v4 ELSE record.v6
Ids(list) == {record.id : record \in Records(list)}

-----------------------------------------------------------------------------
\* materialize_records

AcceptsRecord(record, family) ==
    /\ record.scope = Scope
    /\ record.host \notin Bad
    /\ Identity(record, family) # NoIdentity
    /\ Identity(record, family).ok
    /\ Identity(record, family).addr \in Network[family]

DistinctIds(list, family) ==
    \A i, j \in DOMAIN list : i # j => list[i].id # list[j].id

\* No two records of the list have the same id, hardware address or address.
Distinct(list, family) ==
    \A i, j \in DOMAIN list :
        i # j =>
            /\ list[i].id # list[j].id
            /\ Identity(list[i], family).key # Identity(list[j], family).key
            /\ Identity(list[i], family).addr # Identity(list[j], family).addr

KeaAccepts(list, family) ==
    /\ list # <<>>
    /\ \A record \in Records(list) : AcceptsRecord(record, family)
    /\ Distinct(list, family)

KeaRecords(list, family) ==
    {[key |-> Identity(record, family).key,
      addr |-> Identity(record, family).addr,
      host |-> record.host] : record \in Records(list)}

-----------------------------------------------------------------------------
\* materialize_dns_lines

Addresses(identity) == IF identity = NoIdentity THEN {} ELSE {identity.addr}
WellFormed(identity) == identity # NoIdentity => identity.ok

\* The addresses of a record that are published, and under which class.
Forward(record, classes) ==
    (IF "A" \in classes THEN Addresses(record.v4) ELSE {})
        \cup (IF "AAAA" \in classes THEN Addresses(record.v6) ELSE {})

Published(record, classes) ==
    IF Forward(record, classes) = {} /\ "PTR" \in classes
    THEN Addresses(record.v4) \cup Addresses(record.v6)
    ELSE Forward(record, classes)

OwnerAsWritten(record) == record.host
Owner(record) == Folded[record.host]

PublishesRecord(record, classes) ==
    /\ record.scope = Scope
    /\ record.host # NoHost
    /\ record.host \notin Bad \cup Dotted
    /\ WellFormed(record.v4) /\ WellFormed(record.v6)
    /\ Published(record, classes) # {}

\* Several records may add addresses to one name; an address has one name.
OneOwner(list, classes) ==
    \A r, s \in Records(list) :
        Owner(r) # Owner(s) => Published(r, classes) \cap Published(s, classes) = {}

DnsAccepts(list, classes) ==
    /\ list # <<>>
    /\ \A record \in Records(list) : PublishesRecord(record, classes)
    /\ OneOwner(list, classes)

ForwardData(list, classes) ==
    UNION {{[name |-> Owner(r), addr |-> a] : a \in Forward(r, classes)} :
              r \in Records(list)}

PtrData(list, classes) ==
    IF "PTR" \in classes
    THEN UNION {{[addr |-> a, name |-> Owner(r)] : a \in Published(r, classes)} :
                   r \in Records(list)}
    ELSE {}
=============================================================================
