---------------------------- MODULE Configuration ----------------------------
(***************************************************************************)
(* The description of an installation, configuration.py, and what is built *)
(* from it: the registry of registry.py and the plan of runtime.py.  A     *)
(* document is a record of sequences of records, one for each kind of      *)
(* table; what a table holds besides ids and references is of no concern   *)
(* here, and is of the right type.                                         *)
(***************************************************************************)
EXTENDS Ordering, SequencesExt

Ids(entries) == {entries[i].id : i \in DOMAIN entries}

\* _require_unique
Unique(entries) == Cardinality(Ids(entries)) = Len(entries)

Parents(entries) == {entries[i].parent : i \in DOMAIN entries}
Sources(entries) == {entries[i].source : i \in DOMAIN entries}
SensorsOf(entries) == {entries[i].sensor : i \in DOMAIN entries}

\* _validate_references
ReferencesHold(doc) ==
    /\ doc.systems # <<>>
    /\ Parents(doc.equipment) \subseteq Ids(doc.systems)
    /\ Parents(doc.sensors) \subseteq Ids(doc.equipment)
    /\ Sources(doc.sensors) \subseteq Ids(doc.serial) \cup Ids(doc.onewire)
    /\ Sources(doc.reads) \subseteq Ids(doc.serial)
    /\ SensorsOf(doc.reads) \subseteq Ids(doc.sensors)

\* _validate_onewire_references
OneWireReferencesHold(doc) ==
    /\ Ids(doc.onewire) \cap Ids(doc.serial) = {}
    /\ Sources(doc.probes) \subseteq Ids(doc.onewire)
    /\ SensorsOf(doc.probes) \subseteq Ids(doc.sensors)

\* Mutant: the buses of the bits are taken on trust.
BitReferencesTrusted(doc) == SensorsOf(doc.bits) \subseteq Ids(doc.sensors)

\* _validate_bit_references
BitReferencesHold(doc) ==
    /\ Sources(doc.bits) \subseteq Ids(doc.serial)
    /\ SensorsOf(doc.bits) \subseteq Ids(doc.sensors)

\* _validate_control_references
ControlReferencesHold(doc) == Sources(doc.targets) \subseteq Ids(doc.serial)

\* parse_configuration: everything is refused at once, or the whole is accepted.
Accepted(doc) ==
    /\ \A entries \in {doc.systems, doc.equipment, doc.sensors, doc.serial, doc.reads,
                       doc.onewire, doc.probes, doc.bits, doc.targets} : Unique(entries)
    /\ ControlReferencesHold(doc)
    /\ ReferencesHold(doc)
    /\ OneWireReferencesHold(doc)
    /\ BitReferencesHold(doc)

-------------------------------------------------------------------------------

\* add_hvac_system, add_equipment, add_sensor: an id that is new, of a parent that is there.
Added(assets, entry, parents) ==
    IF "raised" \in assets \/ entry.id \in assets \/ entry.parent \notin parents
    THEN {"raised"}
    ELSE assets \cup {entry.id}

\* One table after the other, and one entry of it after the other.
Growth(entries, parents) ==
    LET assets[n \in 0..Len(entries)] ==
            IF n = 0 THEN {} ELSE Added(assets[n - 1], entries[n], parents)
    IN assets

Grown(entries, parents) == Growth(entries, parents)[Len(entries)]

\* build_registry: the sensors in it, or an exception.
Registry(doc) ==
    LET systems == Grown(doc.systems, {doc.residence})
        equipment == Grown(doc.equipment, systems)
    IN Grown(doc.sensors, equipment)

\* The bits of a bus have a request of their own, named after the bus.
BitsId(source) == source \o ":bits"

\* _build_plan: a request for the registers of a bus, for its probes, for its bits.
Request(name, entries, source) ==
    [id |-> IF name = "bits" THEN BitsId(source) ELSE source, name |-> name,
     asks |-> {e.id : e \in {d \in ToSet(entries) : d.source = source}}]

OnEach(buses, name, entries) ==
    [i \in DOMAIN buses |-> Request(name, entries, buses[i].id)]

Requests(doc) ==
    OnEach(doc.serial, "registers", doc.reads)
    \o OnEach(doc.onewire, "probes", doc.probes)
    \o OnEach(doc.serial, "bits", doc.bits)

\* What asks for nothing is left out.
Plan(doc) ==
    Chosen(Requests(doc), {i \in DOMAIN Requests(doc) : Requests(doc)[i].asks # {}})

\* What a frame has room for: _require_uint8 and _require_uint16.
Addressed(read) == read.station <= 255 /\ read.address <= 65535

\* ModbusReadRequest and, for the scale, RegisterDefinition: a scale of 0 stands
\* for every scale and offset it refuses, those that are not finite among them.
Requestable(read) == Addressed(read) /\ read.quantity \in 1..125
RegisterTaken(read) == Requestable(read) /\ read.scale # 0

\* What building the plan stumbles on: a register read that cannot be requested
\* or decoded, and two requests of one id (AcquisitionPlan).  None of it is asked
\* of a configuration when it is parsed.
PlanRaises(doc) ==
    \/ \E read \in ToSet(doc.reads) : read.source \in Ids(doc.serial) /\ ~RegisterTaken(read)
    \/ ~Unique(Plan(doc))

\* How often a cycle of the recorder asks for a read.
Asks(doc, name, id) ==
    Cardinality({i \in DOMAIN Plan(doc) : Plan(doc)[i].name = name /\ id \in Plan(doc)[i].asks})
===============================================================================
