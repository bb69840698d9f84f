---------------------------- MODULE MCInstallation ----------------------------
(***************************************************************************)
(* Small instances of Installation for TLC: a page with one relay, one     *)
(* read of every sort and answer, documents with mistakes in them, and     *)
(* two probes in a bath.                                                   *)
(***************************************************************************)
EXTENDS Installation

Budget(commands, hands, faults, restarts, loads) ==
    [commands |-> commands, hands |-> hands, faults |-> faults, restarts |-> restarts,
     loads |-> loads]

Asset(id, parent) == [id |-> id, parent |-> parent]

Measure(id, source, kind, declared) ==
    [id |-> id, parent |-> "pump", source |-> source, kind |-> kind, declared |-> declared]

RegisterRead(type, quantity, unit, offset) ==
    [id |-> "r", source |-> "port", sensor |-> "water", type |-> type, station |-> 1,
     address |-> 0, quantity |-> quantity, scale |-> 2, offset |-> offset, unit |-> unit]

ProbeRead(id, device, sensor, unit, offset) ==
    [id |-> id, source |-> "wire", sensor |-> sensor, device |-> device, offset |-> offset,
     unit |-> unit]

BitRead(inverted) == [id |-> "b", source |-> "port", sensor |-> "running", station |-> 1,
                      address |-> 0, inverted |-> inverted]

Document ==
    [residence |-> "house",
     systems   |-> <<Asset("system", "house")>>,
     equipment |-> <<Asset("pump", "system")>>,
     sensors   |-> <<Measure("water", "port", "temperature", Nothing),
                     Measure("air", "wire", "temperature", Nothing),
                     Measure("running", "port", "other", "state")>>,
     serial    |-> <<[id |-> "port"]>>,
     onewire   |-> <<[id |-> "wire"]>>,
     reads     |-> <<>>, probes |-> <<>>, bits |-> <<>>, targets |-> <<>>,
     enabled   |-> FALSE]

Group == [kind |-> "group", device |-> "none", celsius |-> 0]

Bench(document, answers) ==
    [doc |-> document, answers |-> answers, acts |-> {"readers"}, bath |-> {0},
     reference |-> Group, rounds |-> 0, runs |-> 0, budget |-> Budget(0, 0, 0, 0, 0)]

-------------------------------------------------------------------------------

\* A relay that may be commanded, or only watched.
PageScenes ==
    {[Bench([Document EXCEPT !.targets = <<[id |-> "relay", source |-> "port"]>>,
                             !.enabled = TRUE], <<>>) EXCEPT !.acts = {"page"}, !.budget = b] :
        b \in {Budget(2, 1, 0, 0, 1), Budget(1, 0, 1, 1, 2), Budget(1, 1, 1, 0, 1)}}
    \cup {[Bench([Document EXCEPT !.targets = <<[id |-> "relay", source |-> "port"]>>], <<>>)
             EXCEPT !.acts = {"page"}, !.budget = Budget(1, 1, 0, 1, 2)]}

\* One register: every type, as one word or two, in the units of every kind.
RegisterScenes ==
    {Bench([Document EXCEPT !.reads = <<RegisterRead(type, quantity, unit, 1)>>,
                            !.sensors = <<Measure("water", "port", kind, Nothing)>>],
           <<"port", "r">> :> words) :
        type \in {"uint16", "int16", "float32", "float32_swapped"},
        quantity \in {1, 2},
        unit \in {"degC", "degF", "kW", "state"},
        kind \in {"temperature", "power", "energy"},
        words \in {Silent, <<0, 1>>, <<2, 1>>, <<NotFinite, 0>>, <<0, NotFinite>>}}

\* Probes that are configured or not, read once or twice.
ProbeScenes ==
    {Bench([Document EXCEPT !.probes = probes], <<"wire", "d">> :> celsius) :
        probes \in {<<>>, <<ProbeRead("p", "d", "air", "degC", 1)>>,
                    <<ProbeRead("p", "d", "air", "degF", 0)>>,
                    <<ProbeRead("p", "e", "air", "degC", 0)>>,
                    <<ProbeRead("p", "d", "air", "degC", 1), ProbeRead("q", "d", "water", "degC", 2)>>},
        celsius \in {50, PowerOnReset, Garbled, Silent}}

BitScenes ==
    {Bench([Document EXCEPT !.bits = <<BitRead(inverted)>>, !.sensors[3].declared = declared],
           <<"port", "b">> :> answer) :
        inverted \in BOOLEAN, declared \in {"state", "temperature", Nothing},
        answer \in {TRUE, FALSE, Silent}}

\* Up to two mistakes in a document that has everything.
Complete ==
    [Document EXCEPT !.reads = <<RegisterRead("int16", 1, "degC", 0)>>,
                     !.probes = <<ProbeRead("p", "d", "air", "degC", 0)>>,
                     !.bits = <<BitRead(FALSE)>>,
                     !.targets = <<[id |-> "relay", source |-> "port"]>>]

Edit(document, what) ==
    CASE what = "no system"        -> [document EXCEPT !.systems = <<>>]
      [] what = "system twice"     -> [document EXCEPT !.systems = @ \o @]
      [] what = "equipment parent" -> [document EXCEPT !.equipment[1].parent = "ghost"]
      [] what = "sensor parent"    -> [document EXCEPT !.sensors[1].parent = "ghost"]
      [] what = "sensor source"    -> [document EXCEPT !.sensors[1].source = "ghost"]
      [] what = "sensor twice"     -> [document EXCEPT !.sensors = Append(@, @[1])]
      [] what = "no sensor"        -> [document EXCEPT !.sensors = <<@[2], @[3]>>]
      [] what = "read source"      -> [document EXCEPT !.reads[1].source = "ghost"]
      [] what = "read elsewhere"   -> [document EXCEPT !.reads[1].source = "wire"]
      [] what = "read twice"       -> [document EXCEPT !.reads = @ \o @]
      [] what = "probe sensor"     -> [document EXCEPT !.probes[1].sensor = "ghost"]
      [] what = "probe elsewhere"  -> [document EXCEPT !.probes[1].source = "port"]
      [] what = "probe twice"      -> [document EXCEPT !.probes = @ \o @]
      [] what = "bit source"       -> [document EXCEPT !.bits[1].source = "ghost"]
      [] what = "bit elsewhere"    -> [document EXCEPT !.bits[1].source = "wire"]
      [] what = "bit sensor"       -> [document EXCEPT !.bits[1].sensor = "ghost"]
      [] what = "target source"    -> [document EXCEPT !.targets[1].source = "wire"]
      [] what = "bus is both"      -> [document EXCEPT !.onewire = Append(@, [id |-> "port"])]
      [] what = "second bus"       -> [document EXCEPT !.serial = Append(@, [id |-> "spare"])]
      [] what = "bus named as bits" ->
             [document EXCEPT !.serial = Append(@, [id |-> "port:bits"])]
      [] what = "read on it"       ->
             [document EXCEPT !.reads = Append(@, [@[1] EXCEPT !.id = "s", !.source = "port:bits"])]
      [] what = "wire named as bits" ->
             [document EXCEPT !.onewire = Append(@, [id |-> "port:bits"]),
                              !.probes[1].source = "port:bits"]
      [] what = "no bit"           -> [document EXCEPT !.bits = <<>>]
      [] what = "no register"      -> [document EXCEPT !.reads[1].quantity = 0]
      [] what = "most registers"   -> [document EXCEPT !.reads[1].quantity = 125]
      [] what = "too many"         -> [document EXCEPT !.reads[1].quantity = 126]
      [] what = "no scale"         -> [document EXCEPT !.reads[1].scale = 0]
      [] what = "read station"     -> [document EXCEPT !.reads[1].station = 256]
      [] what = "read address"     -> [document EXCEPT !.reads[1].address = 65536]
      [] what = "bit station"      -> [document EXCEPT !.bits[1].station = 256]

Edits == {"no system", "system twice", "equipment parent", "sensor parent", "sensor source",
          "sensor twice", "no sensor", "read source", "read elsewhere", "read twice",
          "probe sensor", "probe elsewhere", "probe twice", "bit source", "bit elsewhere",
          "bit sensor", "target source", "bus is both", "second bus", "bus named as bits",
          "wire named as bits", "no bit", "no register", "most registers", "too many",
          "no scale", "read station", "read address", "bit station"}

DocumentScenes ==
    {Bench(Edit(Edit(Complete, one), "second bus"), <<>>) : one \in Edits \ {"second bus"}}
    \cup {Bench(Edit(Complete, one), <<>>) : one \in Edits} \cup {Bench(Complete, <<>>)}
    \cup {Bench(Edit(Edit(Edit(Complete, "bus named as bits"), "read on it"), one), <<>>) :
              one \in Edits}
    \cup {Bench(Edit(Edit(Complete, "wire named as bits"), one), <<>>) : one \in Edits}

\* Two probes and every sort of reference, and one probe that is recorded meanwhile.
Pair == [Document EXCEPT !.probes = <<ProbeRead("p", "d", "air", "degC", 1),
                                      ProbeRead("q", "e", "water", "degC", 0)>>]

BathScenes ==
    {[Bench(Pair, <<>>) EXCEPT !.acts = {"bath"}, !.bath = {0, 4, 8}, !.rounds = 2, !.runs = 2,
                               !.reference = reference] :
        reference \in {Group, [Group EXCEPT !.kind = "device", !.device = "d"],
                       [Group EXCEPT !.kind = "known", !.celsius = 5]}}
    \cup {[Bench([Document EXCEPT !.probes = <<ProbeRead("p", "d", "air", "degC", 1)>>],
                 <<"wire", "d">> :> 50)
             EXCEPT !.acts = {"bath", "readers"}, !.bath = {0, 4}, !.rounds = 2, !.runs = 2,
                    !.budget = Budget(0, 0, 0, 1, 0), !.reference = [Group EXCEPT !.kind = "known", !.celsius = 2]]}

MCScenes == PageScenes \cup RegisterScenes \cup ProbeScenes \cup BitScenes
            \cup DocumentScenes \cup BathScenes
===============================================================================
