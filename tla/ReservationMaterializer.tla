----------------------- MODULE ReservationMaterializer -----------------------
(***************************************************************************)
(* clab-protected-reservation-materializer, main(): one program run for    *)
(* each DHCP scope of a container, one after the other, which turns the    *)
(* protected source into the configuration of a Kea daemon and, for the    *)
(* scope that publishes names, into an include file of Unbound.            *)
(*                                                                         *)
(* The source is opened twice in a run, and may be replaced at any time.   *)
(* The outputs are two files in two directories: each is written beside    *)
(* its place and then moved into it, the DNS file before the ids of the    *)
(* two are compared.  A run may be killed at any point; it can be repeated.*)
(*                                                                         *)
(* A file is represented by the source content that it was made from; what *)
(* is in it follows (KeaRecords, ForwardData, PtrData).                    *)
(***************************************************************************)
EXTENDS Reservations

CONSTANTS
    Lists,     \* contents the source may have
    Jobs,      \* the scopes of the container, by interface and family
    Family,    \* the family of each
    Classes,   \* the record classes each publishes, {} for none
    NoJob,     \* no run is under way
    Missing,   \* there is no such file
    Partial    \* a file that is half written

ASSUME JobsAssumption ==
    /\ NoJob \notin Jobs
    /\ Family \in [Jobs -> Families]
    /\ Classes \in [Jobs -> SUBSET RecordClasses]

\* unbound_service.py rejects two publications with one owner.
ASSUME OnePublisherAssumption ==
    \A i, j \in Jobs : Classes[i] # {} /\ Classes[j] # {} => i = j

ASSUME FilesAssumption == Missing \notin Lists /\ Partial \notin Lists

VARIABLES
    pc,        \* where the run is
    job,       \* whose run it is
    source,    \* what the protected source holds
    forKea,    \* what materialize_records read
    forDns,    \* what materialize_dns_lines read
    keaFile,   \* the Kea configuration of each job
    dnsFile,   \* the include file
    before,    \* history: the two files when the run began
    steady     \* history: the source has not changed since the run began

vars == <<pc, job, source, forKea, forDns, keaFile, dnsFile, before, steady>>
readVars == <<forKea, forDns>>
fileVars == <<keaFile, dnsFile>>
historyVars == <<before, steady>>

Contents == Lists \cup {Missing}
Running == {"records", "lines", "dnsTemp", "dnsMove", "compare", "keaTemp", "keaMove"}
Ended == {"done", "failed", "killed"}

TypeOK ==
    /\ pc \in {"idle"} \cup Running \cup Ended
    /\ job \in Jobs \cup {NoJob}
    /\ source \in Lists
    /\ forKea \in Contents /\ forDns \in Contents
    /\ keaFile \in [Jobs -> Contents] /\ dnsFile \in Contents
    /\ before \in [kea : Contents, dns : Contents]
    /\ steady \in BOOLEAN

Init ==
    /\ pc = "idle" /\ job = NoJob
    /\ source \in Lists
    /\ forKea = Missing /\ forDns = Missing
    /\ keaFile = [j \in Jobs |-> Missing] /\ dnsFile = Missing
    /\ before = [kea |-> Missing, dns |-> Missing]
    /\ steady = TRUE

Publishes == Classes[job] # {}

-----------------------------------------------------------------------------
\* The next exec command of the container, or the same one once more.
Start(j) ==
    /\ pc \in {"idle"} \cup Ended
    /\ pc' = "records" /\ job' = j
    /\ forKea' = Missing /\ forDns' = Missing
    /\ before' = [kea |-> keaFile[j], dns |-> dnsFile]
    /\ steady' = TRUE
    /\ UNCHANGED <<source, keaFile, dnsFile>>

\* What was read ends with the process.
End(state) ==
    /\ pc' = state
    /\ forKea' = Missing /\ forDns' = Missing
    /\ UNCHANGED <<job, source, before, steady>>

\* Any exception: the temporary file is removed, and main ends with 1.
Fail == End("failed") /\ UNCHANGED <<keaFile, dnsFile>>

\* materialize_records and insert_reservations
MaterializeRecords ==
    /\ pc = "records"
    /\ KeaAccepts(source, Family[job])
    /\ forKea' = source
    /\ pc' = IF Publishes THEN "lines" ELSE "keaTemp"
    /\ UNCHANGED <<job, source, forDns, keaFile, dnsFile, before, steady>>

RecordsRejected ==
    /\ pc = "records"
    /\ ~KeaAccepts(source, Family[job])
    /\ Fail

\* materialize_dns_lines opens the source again.
MaterializeDnsLines ==
    /\ pc = "lines"
    /\ DnsAccepts(source, Classes[job])
    /\ forDns' = source
    /\ pc' = "dnsTemp"
    /\ UNCHANGED <<job, source, forKea, keaFile, dnsFile, before, steady>>

LinesRejected ==
    /\ pc = "lines"
    /\ ~DnsAccepts(source, Classes[job])
    /\ Fail

\* atomic_write_dns: the temporary file lies beside the published one.
WriteDnsTemp ==
    /\ pc = "dnsTemp"
    /\ pc' = "dnsMove"
    /\ UNCHANGED <<job, source, forKea, forDns, keaFile, dnsFile, before, steady>>

ReplaceDns ==
    /\ pc = "dnsMove"
    /\ dnsFile' = forDns
    /\ pc' = "compare"
    /\ UNCHANGED <<job, source, forKea, forDns, keaFile, before, steady>>

\* require(kea_ids == dns_ids)
SameIds == Ids(forKea) = Ids(forDns)

CompareIds ==
    /\ pc = "compare"
    /\ SameIds
    /\ pc' = "keaTemp"
    /\ UNCHANGED <<job, source, forKea, forDns, keaFile, dnsFile, before, steady>>

IdsDiffer ==
    /\ pc = "compare"
    /\ ~SameIds
    /\ Fail

WriteKeaInPlace ==
    /\ pc = "keaTemp"
    /\ pc' = "keaMove"
    /\ keaFile' = [keaFile EXCEPT ![job] = forKea]
    /\ UNCHANGED <<job, source, forKea, forDns, dnsFile, before, steady>>

\* atomic_write
WriteKeaTemp ==
    /\ pc = "keaTemp"
    /\ pc' = "keaMove"
    /\ UNCHANGED <<job, source, forKea, forDns, keaFile, dnsFile, before, steady>>

ReplaceKea ==
    /\ pc = "keaMove"
    /\ keaFile' = [keaFile EXCEPT ![job] = forKea]
    /\ UNCHANGED dnsFile
    /\ End("done")

\* No space, no such group, no permission.
WriteFails ==
    /\ pc \in {"dnsTemp", "dnsMove", "keaTemp", "keaMove"}
    /\ Fail

-----------------------------------------------------------------------------
\* What the program does not decide

\* The protected source is replaced.
Rotate(list) ==
    /\ source' = list /\ list # source
    /\ steady' = FALSE
    /\ UNCHANGED <<pc, job, forKea, forDns, keaFile, dnsFile, before>>

\* The process is killed, or its container stopped.
Kill ==
    /\ pc \in Running
    /\ End("killed")
    /\ UNCHANGED <<keaFile, dnsFile>>

Next ==
    \/ \E j \in Jobs : Start(j)
    \/ MaterializeRecords \/ RecordsRejected
    \/ MaterializeDnsLines \/ LinesRejected
    \/ WriteDnsTemp \/ ReplaceDns
    \/ CompareIds \/ IdsDiffer
    \/ WriteKeaTemp \/ ReplaceKea
    \/ WriteFails
    \/ Kill
    \/ \E list \in Lists : Rotate(list)

Spec == Init /\ [][Next]_vars
-----------------------------------------------------------------------------
(***************************************************************************)
(* What must hold of the two files, whenever the source is replaced and    *)
(* wherever a run fails or is killed.                                      *)
(***************************************************************************)

\* A Kea configuration is only put in place beside an include file that names the
\* same reservations, even if the source was replaced between the two reads.
KeaFollowsDns ==
    [][\A j \in Jobs :
          keaFile'[j] # keaFile[j] /\ Classes[j] # {} =>
              /\ dnsFile \in Lists
              /\ Ids(keaFile'[j]) = Ids(dnsFile)]_vars

\* A run that fails or is killed leaves Kea with the configuration it had.
FailureKeepsKea ==
    pc \in {"failed", "killed"} => keaFile[job] = before.kea

\* In every Kea configuration that is ever in place, a client has one address and
\* an address one client.
LeasesDistinct ==
    \A j \in Jobs :
        keaFile[j] # Missing =>
            \A r, s \in KeaRecords(keaFile[j], Family[j]) :
                r.key = s.key \/ r.addr = s.addr => r = s

\* In every include file that is ever in place an address belongs to one name, for
\* the name's own records and for the reverse one: "One PTR per unique IPv4/IPv6
\* address".
Names(classes) ==
    {[addr |-> d.addr, name |-> d.name] :
        d \in ForwardData(dnsFile, classes) \cup PtrData(dnsFile, classes)}

OneNamePerAddress ==
    dnsFile # Missing =>
        \A j \in Jobs :
            \A d, e \in Names(Classes[j]) : d.addr = e.addr => d.name = e.name

\* If the source was left alone while the run lasted, a host finds under its name
\* the address that Kea reserves for it.
ClassOf(family) == IF family = "ipv4" THEN "A" ELSE "AAAA"
Reserved(j) ==
    {[name |-> Folded[r.host], addr |-> r.addr] : r \in KeaRecords(keaFile[j], Family[j])}
SameNames(j) ==
    ClassOf(Family[j]) \in Classes[j] =>
        Reserved(j) \subseteq ForwardData(dnsFile, Classes[j])

QuietRunAgrees == pc = "done" /\ steady => SameNames(job)

-----------------------------------------------------------------------------
\* Predicate 010 of the program: "Reservation-to-Kea + reservation-to-DNS
\* identity".
RunAgrees == pc = "done" => SameNames(job)
=============================================================================
