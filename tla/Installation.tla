----------------------------- MODULE Installation -----------------------------
(***************************************************************************)
(* One installation around its configuration file: the control surface,    *)
(* which loads it once, with its page and its probe; the recorder, which   *)
(* loads it for each cycle; and the calibration of the probes in a bath,   *)
(* whose offsets a person pastes into it.                                  *)
(***************************************************************************)
EXTENDS ControlPage, Configuration, Devices, Calibration

CONSTANT Scenes   \* what may be installed, and who acts: see Init

VARIABLES
    scene,     \* the installation
    doc,       \* the configuration file
    loaded,    \* what the surface was started with, Nothing if it refused it
    probed,    \* the last answer of the probe, and of which configuration
    stored,    \* what the last cycle of the recorder left, and of which
    run,       \* the readings of the calibration, by device
    answered,  \* history: what the devices answered in it
    pasted     \* the run whose offsets were pasted last: its answers, its target

benchVars == <<scene, doc, loaded, probed, stored, run, answered, pasted>>
vars == <<pageVars, benchVars>>

(***************************************************************************)
(* A scene: doc, the configuration; answers, a function from a bus and     *)
(* what is on it to what it answers; acts, which of the page, the readers  *)
(* and the bath are used, to bound what is checked at once; bath, the      *)
(* temperatures its probes may have in a round of a calibration, and       *)
(* reference, what they are brought to; rounds and runs, bounds of the     *)
(* calibration, and budget, those of the page and its service.             *)
(***************************************************************************)

Assets        == [id: STRING, parent: STRING]
Measures      == [id: STRING, parent: STRING, source: STRING, kind: STRING,
                  declared: {Nothing} \cup STRING]
Buses         == [id: STRING]
RegisterReads == [id: STRING, source: STRING, sensor: STRING, type: STRING, station: Nat,
                  address: Nat, quantity: Int, scale: Int, offset: Int, unit: STRING]
ProbeReads    == [id: STRING, source: STRING, sensor: STRING, device: STRING, offset: Int, unit: STRING]
BitReads      == [id: STRING, source: STRING, sensor: STRING, station: Nat, address: Nat,
                  inverted: BOOLEAN]
Relays        == [id: STRING, source: STRING]

\* The parsed file: tables of the right types, of which not all is of concern,
\* and each system is given the residence of the file.
Documents ==
    {d \in [residence: STRING, systems: Seq(Assets), equipment: Seq(Assets), sensors: Seq(Measures),
            serial: Seq(Buses), onewire: Seq(Buses), reads: Seq(RegisterReads),
            probes: Seq(ProbeReads), bits: Seq(BitReads), targets: Seq(Relays), enabled: BOOLEAN] :
        Parents(d.systems) \subseteq {d.residence}}

\* The bounds of a scene are counts, and so is the length of the list of records;
\* the word for an exception is nobody's id, and names that differ do so with the
\* same ending.
ASSUME InstallationAssumption ==
    /\ Recent \in Nat /\ Nothing \notin STRING
    /\ \A s \in Scenes :
          /\ s.budget \in [commands: Nat, hands: Nat, faults: Nat, restarts: Nat, loads: Nat]
          /\ s.doc \in Documents /\ s.bath \subseteq Int
          /\ s.reference \in [kind: {"group", "known", "device"}, device: STRING, celsius: Int]
          /\ "raised" \notin Ids(s.doc.systems) \cup Ids(s.doc.equipment) \cup Ids(s.doc.sensors)
          /\ \A one, other \in Ids(s.doc.serial) : BitsId(one) = BitsId(other) => one = other

\* Mutant: whatever can be read is taken.
StartUnchecked(document) == document

\* load_configuration: the document, or a refusal.
Start(document) == IF Accepted(document) THEN document ELSE Nothing

Init ==
    /\ scene \in Scenes
    /\ PageInit(scene.budget)
    /\ doc = scene.doc
    /\ loaded = Start(doc)
    /\ probed = Nothing
    /\ stored = Nothing
    /\ run = <<>>
    /\ answered = <<>>
    /\ pasted = Nothing

Answer(source, key) ==
    IF <<source, key>> \in DOMAIN scene.answers THEN scene.answers[<<source, key>>] ELSE Silent

SensorOf(document, id) ==
    document.sensors[CHOOSE i \in DOMAIN document.sensors : document.sensors[i].id = id]

-------------------------------------------------------------------------------
(***************************************************************************)
(* The probe: every register and bit that is configured, and every device  *)
(* that is configured or present on a bus.                                 *)
(***************************************************************************)

\* The devices of one bus; of two reads of a device, the later one counts.
Present1Wire(source) == {d[2] : d \in {e \in DOMAIN scene.answers : e[1] = source}}

ReadsOf(document, source, device) ==
    {i \in DOMAIN document.probes : /\ document.probes[i].source = source
                                    /\ document.probes[i].device = device}

ProbeOn(document, source, device) ==
    LET reads == ReadsOf(document, source, device)
    IN IF reads = {}
       THEN Shown(Nothing, ParseSlave(Answer(source, device)), "degC",
                  Answer(source, device) = PowerOnReset)
       ELSE ProbeDevice(document.probes[Max(reads)], Answer(source, device))

ProbeBus(document, source) ==
    {ProbeOn(document, source, device) :
        device \in Present1Wire(source)
                   \cup {p.device : p \in {q \in ToSet(document.probes) : q.source = source}}}

ProbeAll(document) ==
    (UNION {ProbeBus(document, s) : s \in Ids(document.onewire)})
    \cup {ProbeRegister(r, Answer(r.source, r.id)) : r \in ToSet(document.reads)}
    \cup {ProbeBit(r, Answer(r.source, r.id)) : r \in ToSet(document.bits)}

\* ControlSurface.probe: a request that cannot be made is an exception, and the
\* page is told that the probe failed instead of any result.
Probe ==
    /\ "readers" \in scene.acts
    /\ loaded # Nothing
    /\ \A r \in ToSet(loaded.reads) : Requestable(r)
    /\ \A r \in ToSet(loaded.bits) : Addressed(r)
    /\ probed # Nothing => probed.of # loaded
    /\ probed' = [of |-> loaded, results |-> ProbeAll(loaded)]
    /\ UNCHANGED <<scene, doc, loaded, stored, run, answered, pasted>>

-------------------------------------------------------------------------------
(***************************************************************************)
(* The recorder.                                                           *)
(***************************************************************************)

Registers(document) ==
    {[sensor |-> r.sensor,
      value |-> Ingested(SensorOf(document, r.sensor), RegisterRaw(r, Answer(r.source, r.id)), r.unit)]
        : r \in ToSet(document.reads)}

Probes(document) ==
    {[sensor |-> r.sensor,
      value |-> Ingested(SensorOf(document, r.sensor), ProbeRaw(r, Answer(r.source, r.device)), r.unit)]
        : r \in ToSet(document.probes)}

Bits(document) ==
    {[sensor |-> r.sensor,
      value |-> Ingested(SensorOf(document, r.sensor), BitRaw(r, Answer(r.source, r.id)), "state")]
        : r \in ToSet(document.bits)}

\* A cycle of a recorder that was started with the file as it is, and whose plan
\* could be built: a bit that cannot be requested is an exception in the cycle,
\* and one that is cut short is Recorder's concern.
Cycle ==
    /\ "readers" \in scene.acts
    /\ Accepted(doc)
    /\ ~PlanRaises(doc)
    /\ \A r \in ToSet(doc.bits) : Addressed(r)
    /\ stored # Nothing => stored.of # doc
    /\ stored' = [of |-> doc,
                  rows |-> {m \in Registers(doc) \cup Probes(doc) \cup Bits(doc) : m.value # Nothing}]
    /\ UNCHANGED <<scene, doc, loaded, probed, run, answered, pasted>>

-------------------------------------------------------------------------------
(***************************************************************************)
(* The calibration.                                                        *)
(***************************************************************************)

Devices == {p.device : p \in ToSet(doc.probes)}

\* Mutant: the readings are those the recorder would store.
ReadingCorrected(device, celsius) ==
    LET read == doc.probes[CHOOSE i \in DOMAIN doc.probes : doc.probes[i].device = device]
    IN celsius + read.offset

\* What sample() keeps of an answer: the offset of the moment is left out.
Reading1Wire(device, celsius) == celsius

\* A round of sample: a device that fails is left out of it.
Round ==
    /\ "bath" \in scene.acts
    /\ Accepted(doc)
    /\ pasted # Nothing => pasted.runs < scene.runs
    /\ \A d \in DOMAIN run : Len(run[d]) < scene.rounds
    /\ \E answering \in SUBSET Devices :
        \E celsius \in [answering -> scene.bath] :
            /\ run' = Sampled(run, [d \in answering |-> Reading1Wire(d, celsius[d])])
            /\ answered' = Sampled(answered, celsius)
    /\ UNCHANGED <<scene, doc, loaded, probed, stored, pasted>>

\* The run is over and its offsets are pasted into the file, if they were printed.
Paste ==
    /\ run # <<>>
    /\ CalibrateExit(run, scene.reference) = "ok"
    /\ doc' = [doc EXCEPT !.probes =
                  [i \in DOMAIN @ |->
                      IF @[i].device \in DOMAIN run
                      THEN [@[i] EXCEPT !.offset = Offsets(run, scene.reference)[doc.probes[i].device]]
                      ELSE @[i]]]
    /\ pasted' = [answers |-> answered, target |-> Target(run, scene.reference),
                  runs |-> IF pasted = Nothing THEN 1 ELSE pasted.runs + 1]
    /\ run' = <<>>
    /\ answered' = <<>>
    /\ UNCHANGED <<scene, loaded, probed, stored>>

\* The surface is restarted with the file as it is.
Reload ==
    /\ Restart
    /\ loaded' = Start(doc)
    /\ UNCHANGED <<scene, doc, probed, stored, run, answered, pasted>>

PageStep ==
    /\ "page" \in scene.acts
    /\ loaded # Nothing
    /\ PageNext(loaded.enabled /\ loaded.targets # <<>>)
    /\ UNCHANGED benchVars

BenchStep ==
    /\ Probe \/ Cycle \/ Round \/ Paste
    /\ UNCHANGED pageVars

Next == PageStep \/ BenchStep \/ Reload

(***************************************************************************)
(* Fairness: the timer of the page fires, and what was sent is served or   *)
(* fails.  Nobody has to load the page, press a button or restart.         *)
(***************************************************************************)
Fairness ==
    /\ WF_vars(PageStep /\ Refresh)
    /\ WF_vars(PageStep /\ \E r \in requests : Serve(r, loaded.enabled /\ loaded.targets # <<>>))
    /\ WF_vars(PageStep /\ \E r \in requests : Receive(r))

Spec == Init /\ [][Next]_vars /\ Fairness

-------------------------------------------------------------------------------
(***************************************************************************)
(* Properties.                                                             *)
(***************************************************************************)

\* Every variable has its type; a surface that runs was started with a
\* configuration that is accepted.
TypeOK ==
    /\ session \in 1..(1 + scene.budget.restarts)
    /\ \A i \in DOMAIN coil : coil[i].closed \in BOOLEAN
    /\ journal \in Seq(1..scene.budget.commands) /\ gate \in 0..scene.budget.commands
    /\ page.inFlight \in BOOLEAN /\ page.session \in 0..session
    /\ \A r \in requests : r.kind \in {"state", "command"} /\ r.session \in 1..session
    /\ \A i \in DOMAIN doc.probes : doc.probes[i].offset \in Int
    /\ loaded # Nothing => Accepted(loaded)
    /\ \A d \in DOMAIN run : run[d] \in Seq(Int)

\* What the page shows of a relay is what the equipment once was, and a state a
\* command brought about is never shown without a record of that command, unless
\* later ones have pushed it off the page: the coil is read before the journal,
\* and an intent is on record before the coil moves (control_server.py:169).
MoveIsExplained ==
    page.picture # NoPicture /\ page.picture.known =>
        LET mover == coil[page.picture.version].by IN
        /\ page.picture.closed = coil[page.picture.version].closed
        /\ mover # Hand =>
              \E i \in 1..page.picture.rows :
                  /\ journal[i] = mover
                  /\ i > page.picture.rows - Recent => mover \in ToSet(page.picture.journal)

\* One load of the page never shows an older state of the relay after a newer
\* one, although requests overlap and answers are lost (assets/control.js:169).
PictureNeverGoesBack ==
    [][page'.load = page.load /\ page.picture # NoPicture /\ page'.picture # NoPicture
        => page'.picture.version >= page.picture.version]_vars

\* Once the relay rests, a page that holds the token of the running service comes
\* to show it and goes on showing it, whatever failed before: the flag of a
\* refresh in flight is always given back (assets/control.js:185).
PictureCatchesUp ==
    <>[](/\ "page" \in scene.acts /\ loaded # Nothing
         /\ page.load > 0 /\ page.session = session
         =>
            /\ page.picture # NoPicture
            /\ page.picture.known
            /\ page.picture.version = Len(coil))

\* What is accepted gives a registry with every sensor, and a plan, unless a register
\* read cannot be requested or decoded, or the bits of a bus go by the name of another
\* bus that is read: nothing else makes two requests of one id.  A cycle asks for every
\* read once, on a bus of its kind and for a sensor that is registered; a relay is on
\* a serial bus (configuration.py:444, runtime.py:302, acquisition_runner.py:56).
AcceptedConfigurationBuilds ==
    Accepted(doc) =>
        /\ Registry(doc) = Ids(doc.sensors)
        /\ PlanRaises(doc) <=>
              \/ \E i \in DOMAIN doc.reads : ~RegisterTaken(doc.reads[i])
              \/ \E bus \in Sources(doc.bits) :
                    BitsId(bus) \in Sources(doc.reads) \cup Sources(doc.probes)
        /\ \A kind \in {[name |-> "registers", entries |-> doc.reads],
                        [name |-> "probes", entries |-> doc.probes],
                        [name |-> "bits", entries |-> doc.bits]} :
              \A i \in DOMAIN kind.entries :
                  /\ Asks(doc, kind.name, kind.entries[i].id) = 1
                  /\ kind.entries[i].sensor \in Registry(doc)
        /\ Sources(doc.targets) \subseteq Ids(doc.serial) \ Ids(doc.onewire)

\* Whether each sensor has one read and each device too.
OneReadEach(document) ==
    /\ Cardinality(SensorsOf(document.reads) \cup SensorsOf(document.probes)
                   \cup SensorsOf(document.bits))
       = Len(document.reads) + Len(document.probes) + Len(document.bits)
    /\ Cardinality({<<p.source, p.device>> : p \in ToSet(document.probes)}) = Len(document.probes)

\* The probe and the recorder, with one configuration, make the same of what a
\* device answers: what is shown is recorded in the unit of the record if that can
\* be done, and nothing else is; a wiring fault is neither (probe.py:222).
OneReadingOneValue ==
    probed # Nothing /\ stored # Nothing =>
        (probed.of = stored.of /\ OneReadEach(stored.of) =>
            LET document == stored.of
                expected(p) ==
                    IF p.value = Nothing THEN Nothing
                    ELSE Normalized(SensorOf(document, p.sensor), p.value, p.unit)
                shown == {p \in probed.results : p.sensor # Nothing}
            IN /\ stored.rows = {m \in {[sensor |-> p.sensor, value |-> expected(p)] : p \in shown} :
                                    m.value # Nothing}
               /\ \A p \in probed.results : p.suspect => p.value = Nothing)

\* A run whose offsets were printed brings each of its devices to the target:
\* exactly in the mean, and within the settled spread in every answer, in a first
\* run and in one over offsets that are already there (geopilot_calibrate.py:84).
UsableCalibrationMeetsReference ==
    pasted # Nothing =>
        \A i \in DOMAIN doc.probes :
            LET read == doc.probes[i] IN
            read.device \in DOMAIN pasted.answers =>
                LET answers == pasted.answers[read.device]
                    off(k) == answers[k] + read.offset - pasted.target
                IN /\ Mean(answers) + read.offset = pasted.target
                   /\ \A k \in DOMAIN answers : off(k) \in -SettledSpread..SettledSpread
===============================================================================
