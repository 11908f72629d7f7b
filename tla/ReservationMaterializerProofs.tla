-------------------- MODULE ReservationMaterializerProofs --------------------
(***************************************************************************)
(* What is proved about the materializer, for every set of source          *)
(* contents, every set of jobs and every assignment of record classes.     *)
(***************************************************************************)
EXTENDS ReservationMaterializer, TLAPS

-----------------------------------------------------------------------------
\* Lemmas about what the readers accept

\* Of two reservations made from an accepted source that agree on the client or on
\* the address, one is the other.
LEMMA KeaDistinct ==
    ASSUME NEW list, NEW family, KeaAccepts(list, family),
           NEW r \in KeaRecords(list, family), NEW s \in KeaRecords(list, family),
           r.key = s.key \/ r.addr = s.addr
    PROVE  r = s
<1> DEFINE Made(x) == [key |-> Identity(x, family).key,
                       addr |-> Identity(x, family).addr,
                       host |-> x.host]
<1>1. PICK i \in DOMAIN list : r = Made(list[i])
  BY DEF KeaRecords, Records
<1>2. PICK k \in DOMAIN list : s = Made(list[k])
  BY DEF KeaRecords, Records
<1>3. i = k
  BY <1>1, <1>2 DEF KeaAccepts, Distinct
<1> QED
  BY <1>1, <1>2, <1>3

\* What is published forward is published.
LEMMA ForwardPublished ==
    ASSUME NEW record, NEW classes
    PROVE  Forward(record, classes) \subseteq Published(record, classes)
BY DEF Published

\* In an accepted source an address that is published under two names shows that
\* the names are one.
LEMMA OneName ==
    ASSUME NEW classes, DnsAccepts(dnsFile, classes),
           NEW d \in Names(classes), NEW e \in Names(classes), d.addr = e.addr
    PROVE  d.name = e.name
<1>1. \A x \in Names(classes) :
          \E r \in Records(dnsFile) :
              x.name = Owner(r) /\ x.addr \in Published(r, classes)
  <2> TAKE x \in Names(classes)
  <2>1. PICK y \in ForwardData(dnsFile, classes) \cup PtrData(dnsFile, classes) :
            x = [addr |-> y.addr, name |-> y.name]
    BY DEF Names
  <2>2. CASE y \in ForwardData(dnsFile, classes)
    <3>1. PICK r \in Records(dnsFile) :
              \E a \in Forward(r, classes) : y = [name |-> Owner(r), addr |-> a]
      BY <2>2 DEF ForwardData
    <3> QED
      BY <2>1, <3>1, ForwardPublished
  <2>3. CASE y \in PtrData(dnsFile, classes)
    <3>1. "PTR" \in classes
      BY <2>3 DEF PtrData
    <3>2. PICK r \in Records(dnsFile) :
              \E a \in Published(r, classes) : y = [addr |-> a, name |-> Owner(r)]
      BY <2>3, <3>1 DEF PtrData
    <3> QED
      BY <2>1, <3>2
  <2> QED
    BY <2>1, <2>2, <2>3
<1>2. PICK r \in Records(dnsFile) : d.name = Owner(r) /\ d.addr \in Published(r, classes)
  BY <1>1
<1>3. PICK s \in Records(dnsFile) : e.name = Owner(s) /\ e.addr \in Published(s, classes)
  BY <1>1
<1> QED
  BY <1>2, <1>3 DEF DnsAccepts, OneOwner

\* A source that both readers accept gives each reserved address its host's name,
\* if the class of the family is published.
LEMMA ReservedIsPublished ==
    ASSUME NEW list, NEW family \in Families, NEW classes,
           KeaAccepts(list, family), ClassOf(family) \in classes
    PROVE  {[name |-> Folded[r.host], addr |-> r.addr] : r \in KeaRecords(list, family)}
               \subseteq ForwardData(list, classes)
<1> SUFFICES ASSUME NEW r \in KeaRecords(list, family)
             PROVE  [name |-> Folded[r.host], addr |-> r.addr] \in ForwardData(list, classes)
  OBVIOUS
<1>1. PICK x \in Records(list) :
          r = [key |-> Identity(x, family).key,
               addr |-> Identity(x, family).addr, host |-> x.host]
  BY DEF KeaRecords
<1>2. Identity(x, family) # NoIdentity
  BY DEF KeaAccepts, AcceptsRecord
<1>3. Identity(x, family).addr \in Addresses(Identity(x, family))
  BY <1>2 DEF Addresses
<1>4. Identity(x, family).addr \in Forward(x, classes)
  BY <1>3 DEF Forward, Identity, ClassOf, Families
<1>5. /\ Folded[r.host] = Owner(x)
      /\ r.addr = Identity(x, family).addr
  BY <1>1 DEF Owner
<1> QED
  BY <1>4, <1>5 DEF ForwardData

-----------------------------------------------------------------------------
\* The inductive invariant

AfterRecords == {"lines", "dnsTemp", "dnsMove", "compare", "keaTemp", "keaMove"}
BeforeCompare == {"dnsTemp", "dnsMove", "compare"}
AfterCompare == {"keaTemp", "keaMove"}

\* What a run holds was accepted, and is what the source still holds if it did not
\* change.
ReadInv ==
    /\ pc # "idle" => job \in Jobs
    /\ pc \in AfterRecords =>
          /\ forKea \in Lists
          /\ KeaAccepts(forKea, Family[job])
          /\ steady => forKea = source
    /\ pc \in BeforeCompare \cup {"lines"} => Publishes
    /\ pc \in BeforeCompare \/ (pc \in AfterCompare /\ Publishes) =>
          /\ forDns \in Lists
          /\ DnsAccepts(forDns, Classes[job])
          /\ steady => forDns = source

\* Where the include file has been replaced, and the ids compared.
MovedInv ==
    /\ pc = "compare" => dnsFile = forDns
    /\ pc \in AfterCompare /\ Publishes => dnsFile = forDns /\ SameIds
    /\ pc = "done" /\ steady =>
          /\ keaFile[job] = source
          /\ Publishes => dnsFile = source

\* Until its last step a run has not touched Kea's file.
KeptInv == pc \in Running \cup {"failed", "killed"} => keaFile[job] = before.kea

\* Every file in place was accepted.
FilesInv ==
    /\ \A j \in Jobs : keaFile[j] # Missing => KeaAccepts(keaFile[j], Family[j])
    /\ dnsFile # Missing =>
          \E j \in Jobs : Classes[j] # {} /\ DnsAccepts(dnsFile, Classes[j])

IInv == TypeOK /\ ReadInv /\ MovedInv /\ KeptInv /\ FilesInv

LEMMA InitIInv == Init => IInv
BY JobsAssumption, FilesAssumption
   DEF Init, IInv, TypeOK, ReadInv, MovedInv, KeptInv, FilesInv, Contents, Running,
       Ended, AfterRecords, BeforeCompare, AfterCompare

LEMMA NextIInv == IInv /\ [Next]_vars => IInv'
<1> SUFFICES ASSUME IInv, [Next]_vars PROVE IInv'
  OBVIOUS
<1> USE JobsAssumption, FilesAssumption
    DEF IInv, TypeOK, ReadInv, MovedInv, KeptInv, FilesInv, Contents, Running, Ended,
        AfterRecords, BeforeCompare, AfterCompare, Publishes
<1>1. ASSUME NEW j \in Jobs, Start(j) PROVE IInv'
  BY <1>1 DEF Start
<1>2. CASE MaterializeRecords
  BY <1>2 DEF MaterializeRecords
<1>3. CASE RecordsRejected
  BY <1>3 DEF RecordsRejected, Fail, End
<1>4. CASE MaterializeDnsLines
  BY <1>4 DEF MaterializeDnsLines
<1>5. CASE LinesRejected
  BY <1>5 DEF LinesRejected, Fail, End
<1>6. CASE WriteDnsTemp
  BY <1>6 DEF WriteDnsTemp
<1>7. CASE ReplaceDns
  BY <1>7 DEF ReplaceDns
<1>8. CASE CompareIds
  BY <1>8 DEF CompareIds, SameIds
<1>9. CASE IdsDiffer
  BY <1>9 DEF IdsDiffer, Fail, End
<1>10. CASE WriteKeaTemp
  BY <1>10 DEF WriteKeaTemp, SameIds
<1>11. CASE ReplaceKea
  BY <1>11 DEF ReplaceKea, End
<1>12. CASE WriteFails
  BY <1>12 DEF WriteFails, Fail, End
<1>13. CASE Kill
  BY <1>13 DEF Kill, End
<1>14. ASSUME NEW list \in Lists, Rotate(list) PROVE IInv'
  <2>1. ~steady' /\ steady' \in BOOLEAN
    BY <1>14 DEF Rotate
  <2>2. source' \in Lists
    BY <1>14 DEF Rotate
  <2>3. UNCHANGED <<pc, job, forKea, forDns, keaFile, dnsFile, before>>
    BY <1>14 DEF Rotate
  <2>4. TypeOK' /\ KeptInv' /\ FilesInv'
    BY <2>1, <2>2, <2>3
  <2>5. ReadInv'
    BY <2>1, <2>3
  <2>6. MovedInv'
    BY <2>1, <2>3 DEF SameIds
  <2> QED
    BY <2>4, <2>5, <2>6
<1>15. CASE UNCHANGED vars
  BY <1>15 DEF vars, SameIds
<1> QED
  BY <1>1, <1>2, <1>3, <1>4, <1>5, <1>6, <1>7, <1>8, <1>9, <1>10, <1>11, <1>12,
     <1>13, <1>14, <1>15 DEF Next

\* The inductive invariant holds in every state the materializer can reach.
THEOREM Invariance == Spec => []IInv
<1> QED
  BY InitIInv, NextIInv, PTL DEF Spec

-----------------------------------------------------------------------------
\* The files hold whole contents, nothing half written (atomic_write, os.replace).
THEOREM TypeCorrect == Spec => []TypeOK
<1>1. IInv => TypeOK
  BY DEF IInv
<1> QED
  BY <1>1, Invariance, PTL

\* Kea's configuration is only replaced beside an include file with the same ids.
THEOREM Follows == Spec => KeaFollowsDns
<1>1. ASSUME IInv, [Next]_vars
      PROVE  [\A j \in Jobs :
                 keaFile'[j] # keaFile[j] /\ Classes[j] # {} =>
                     /\ dnsFile \in Lists
                     /\ Ids(keaFile'[j]) = Ids(dnsFile)]_vars
  <2>1. CASE ReplaceKea
    <3> SUFFICES ASSUME NEW j \in Jobs, keaFile'[j] # keaFile[j], Classes[j] # {}
                 PROVE  dnsFile \in Lists /\ Ids(keaFile'[j]) = Ids(dnsFile)
      OBVIOUS
    <3>1. job = j /\ keaFile'[j] = forKea /\ pc \in AfterCompare
      BY <2>1, <1>1 DEF ReplaceKea, IInv, TypeOK, AfterCompare
    <3> QED
      BY <3>1, <1>1 DEF IInv, ReadInv, MovedInv, Publishes, SameIds
  <2>2. CASE UNCHANGED keaFile
    BY <2>2
  <2> QED
    BY <1>1, <2>1, <2>2
       DEF Next, vars, Start, MaterializeRecords, RecordsRejected, MaterializeDnsLines,
           LinesRejected, WriteDnsTemp, ReplaceDns, CompareIds, IdsDiffer, WriteKeaTemp,
           WriteFails, Kill, Rotate, Fail
<1> QED
  BY <1>1, Invariance, PTL DEF Spec, KeaFollowsDns

\* A run that fails or is killed leaves Kea with the configuration it had.
THEOREM Kept == Spec => []FailureKeepsKea
<1>1. IInv => FailureKeepsKea
  BY DEF IInv, KeptInv, FailureKeepsKea
<1> QED
  BY <1>1, Invariance, PTL

\* In every Kea configuration a client has one address and an address one client.
THEOREM Distinctness == Spec => []LeasesDistinct
<1>1. IInv => LeasesDistinct
  BY KeaDistinct DEF IInv, FilesInv, LeasesDistinct
<1> QED
  BY <1>1, Invariance, PTL

\* In every include file an address belongs to one name.
THEOREM OnePtr == Spec => []OneNamePerAddress
<1>1. IInv => OneNamePerAddress
  <2> SUFFICES ASSUME IInv, dnsFile # Missing, NEW j \in Jobs,
                      NEW d \in Names(Classes[j]), NEW e \in Names(Classes[j]),
                      d.addr = e.addr
               PROVE  d.name = e.name
    BY DEF OneNamePerAddress
  <2>1. PICK p \in Jobs : Classes[p] # {} /\ DnsAccepts(dnsFile, Classes[p])
    BY DEF IInv, FilesInv
  <2>2. Classes[j] # {}
    BY DEF Names, ForwardData, PtrData, Forward
  <2>3. Classes[p] = Classes[j]
    BY <2>1, <2>2, OnePublisherAssumption
  <2> QED
    BY <2>1, <2>3, OneName
<1> QED
  BY <1>1, Invariance, PTL

\* If the source was left alone, a host finds under its name the address that Kea
\* reserves for it.
THEOREM QuietAgreement == Spec => []QuietRunAgrees
<1>1. IInv => QuietRunAgrees
  <2> SUFFICES ASSUME IInv, pc = "done", steady, ClassOf(Family[job]) \in Classes[job]
               PROVE  Reserved(job) \subseteq ForwardData(dnsFile, Classes[job])
    BY DEF QuietRunAgrees, SameNames
  <2>1. job \in Jobs /\ source \in Lists /\ Family[job] \in Families
    BY JobsAssumption DEF IInv, ReadInv, TypeOK
  <2>2. keaFile[job] = source /\ dnsFile = source
    BY DEF IInv, MovedInv, Publishes
  <2>3. KeaAccepts(source, Family[job])
    BY <2>1, <2>2, FilesAssumption DEF IInv, FilesInv
  <2> QED
    BY <2>1, <2>2, <2>3, ReservedIsPublished DEF Reserved
<1> QED
  BY <1>1, Invariance, PTL
=============================================================================
