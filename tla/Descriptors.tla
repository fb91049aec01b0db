----------------------------- MODULE Descriptors ----------------------------
(***************************************************************************)
(* Configuration descriptors (cotton-usb-host wire.rs), the visitors that  *)
(* read them, and the choice of a mass-storage device's configuration and  *)
(* endpoints. A descriptor is a record of its length byte, its type and    *)
(* the fields some visitor looks at; a suite is the sequence a device      *)
(* sends, as its length bytes delimit it.                                  *)
(***************************************************************************)
EXTENDS Integers, Sequences, SequencesExt, FiniteSetsExt

ConfigurationDescriptor(value) ==
    [len |-> 9, type |-> "configuration", value |-> value]
InterfaceDescriptor(class, protocol) ==
    [len |-> 9, type |-> "interface", class |-> class, protocol |-> protocol]
EndpointDescriptor(dir, ep, kind) ==
    [len |-> 7, type |-> "endpoint", dir |-> dir, ep |-> ep, kind |-> kind]
OtherDescriptor(len) == [len |-> len, type |-> "other"]

\* The sizes that bytemuck::try_from_bytes insists on.
SizeOf == [configuration |-> 9, interface |-> 9, endpoint |-> 7]

\* wLength of get_configuration: the most that is ever fetched of a suite.
BufferSize == 64

\* Where the i-th descriptor of a suite starts.
Offset(suite, i) ==
    FoldLeft(LAMBDA sum, d : sum + d.len, 0, SubSeq(suite, 1, i - 1))

\* The number of bytes of the suite that get_configuration receives.
Fetched(suite) == Min({BufferSize, Offset(suite, Len(suite) + 1)})

\* parse_descriptors reaches the i-th descriptor unless it, or one before it,
\* is cut short, has an impossible length or starts in the last two bytes.
Reaches(suite, i) ==
    \A j \in 1..i :
        /\ Fetched(suite) > Offset(suite, j) + 2
        /\ suite[j].len >= 2
        /\ Fetched(suite) >= Offset(suite, j) + suite[j].len

\* The indices of the descriptors that a visitor is called with.
parse_descriptors(suite) ==
    {i \in 1..Len(suite) :
        /\ Reaches(suite, i)
        /\ suite[i].type = "other" \/ suite[i].len = SizeOf[suite[i].type]}

OfType(suite, type) == {i \in parse_descriptors(suite) : suite[i].type = type}

\* The configuration that a descriptor belongs to as far as a visitor knows:
\* the last one it was called with; 0 stands for none.
CurrentConfiguration(suite, i) ==
    LET before == {j \in OfType(suite, "configuration") : j < i}
    IN  IF before = {} THEN 0 ELSE suite[Max(before)].value

\* IdentifyMassStorage: the configuration of the last interface of class 8,
\* protocol 0x50 (bulk-only); 0 if there is none.
IsBulkOnly(d) == d.class = 8 /\ d.protocol = 80
IdentifyMassStorage(suite) ==
    LET msc == {i \in OfType(suite, "interface") : IsBulkOnly(suite[i])}
    IN  IF msc = {} THEN 0 ELSE CurrentConfiguration(suite, Max(msc))

\* A variant of SpecificConfiguration: the endpoints of every configuration.
SpecificConfiguration_Any(suite, value, dir) ==
    {suite[i].ep : i \in {j \in OfType(suite, "endpoint") : suite[j].dir = dir}}

\* SpecificConfiguration: the endpoints that configure() gives a UsbDevice,
\* those of every interface of the configuration.
SpecificConfiguration(suite, value, dir) ==
    {suite[i].ep : i \in {j \in OfType(suite, "endpoint") :
        suite[j].dir = dir /\ CurrentConfiguration(suite, j) = value}}

\* in_endpoints().iter().next().unwrap_or_default(): the lowest, or 0.
FirstEndpoint(bitmap) == IF bitmap = {} THEN 0 ELSE Min(bitmap)

\* open_in_endpoint and open_out_endpoint succeed for these.
CanOpen(ep, bitmap) == ep > 0 /\ ep < 16 /\ ep \in bitmap

\* The endpoints that truly belong to bulk-only interfaces of configuration
\* value: what the device made, whatever the host fetched of it.
TrueEndpoints(suite, value, dir) ==
    {suite[i].ep : i \in {j \in 1..Len(suite) :
        /\ suite[j].type = "endpoint"
        /\ suite[j].dir = dir /\ suite[j].kind = "bulk"
        /\ LET ifs == {k \in 1..(j - 1) : suite[k].type = "interface"}
               cfs == {k \in 1..(j - 1) : suite[k].type = "configuration"}
           IN  /\ ifs # {} /\ IsBulkOnly(suite[Max(ifs)])
               /\ cfs # {} /\ suite[Max(cfs)].value = value}}
=============================================================================
