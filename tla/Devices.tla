------------------------------- MODULE Devices -------------------------------
(***************************************************************************)
(* From what a device answers to what is recorded, and to what the live    *)
(* probe shows: register_decoder.py, onewire.py, modbus_simulator.py, the  *)
(* executors of runtime.py, ingestion.py and probe.py.  Values are whole   *)
(* numbers; a floating-point number is a pair of words like any other,     *)
(* except that one high word stands for all that are not finite.           *)
(***************************************************************************)
EXTENDS Integers, SequencesExt

CONSTANTS
    WordSize,     \* how many values a register has, 2^16
    NotFinite,    \* the high word of a NaN or an infinity
    PowerOnReset, \* the 85 degrees of a probe that is not ready
    Silent,       \* no answer, from a register, a coil or a probe that is absent
    Garbled,      \* a payload of the kernel without its CRC, its lines or a number
    Nothing       \* no value

\* _decode_int16
Signed(word) == IF word < WordSize \div 2 THEN word ELSE word - WordSize

\* _decode_float32
Float(high, low) == IF high = NotFinite THEN Nothing ELSE WordSize * high + low

\* decode_words: each type wants its number of words.
DecodeWords(words, type) ==
    CASE type = "uint16" /\ Len(words) = 1          -> words[1]
      [] type = "int16" /\ Len(words) = 1           -> Signed(words[1])
      [] type = "float32" /\ Len(words) = 2         -> Float(words[1], words[2])
      [] type = "float32_swapped" /\ Len(words) = 2 -> Float(words[2], words[1])
      [] OTHER                                      -> Nothing

\* Both the decoder of the recorder and _decode of the probe.
Decoded(read, words) ==
    LET number == DecodeWords(words, read.type)
    IN IF number = Nothing THEN Nothing ELSE number * read.scale + read.offset

\* The words of a response are as many as were asked for.
Response(read, answer) ==
    IF answer = Silent THEN Silent ELSE SubSeq(answer, 1, read.quantity)

\* SysfsOneWireBus.read_temperature and parse_w1_slave.
ParseSlave(answer) ==
    IF answer \in {Silent, Garbled, PowerOnReset} THEN Nothing ELSE answer

-------------------------------------------------------------------------------
(***************************************************************************)
(* The recorder.                                                           *)
(***************************************************************************)

RegisterRaw(read, answer) ==
    LET words == Response(read, answer)
    IN IF words = Silent THEN Nothing ELSE Decoded(read, words)

ProbeRaw(read, answer) ==
    LET celsius == ParseSlave(answer)
    IN IF celsius = Nothing THEN Nothing ELSE celsius + read.offset

\* _bit_executor_for: 1 always means asserted.
BitRaw(read, answer) ==
    IF answer = Silent THEN Nothing ELSE IF answer # read.inverted THEN 1 ELSE 0

\* The capability of a sensor, declared or derived (domain.py, Sensor).
Capability(sensor) ==
    CASE sensor.declared # Nothing -> sensor.declared
      [] sensor.declared = Nothing /\ sensor.kind \in {"temperature", "humidity", "power"} -> sensor.kind
      [] OTHER -> Nothing

\* _normalize_unit: a value in the unit of the record, or a refusal.
Normalized(sensor, value, unit) ==
    CASE Capability(sensor) = "temperature" /\ unit = "degC"        -> value
      [] Capability(sensor) = "temperature" /\ unit = "degF"        -> ((value - 32) * 5) \div 9
      [] Capability(sensor) = "humidity" /\ unit = "%"              -> value
      [] Capability(sensor) = "power" /\ unit = "W"                 -> value
      [] Capability(sensor) = "power" /\ unit = "kW"                -> 1000 * value
      [] Capability(sensor) = "state" /\ unit = "state" /\ value \in {0, 1} -> value
      [] OTHER                                                      -> Nothing

\* ingest_raw_measurements: what one read leaves on record, if anything.
Ingested(sensor, raw, unit) == IF raw = Nothing THEN Nothing ELSE Normalized(sensor, raw, unit)

-------------------------------------------------------------------------------
(***************************************************************************)
(* The probe: a value in the unit of the read, whether it is usable and    *)
(* whether it points at the wiring.                                        *)
(***************************************************************************)

Shown(sensor, value, unit, suspect) ==
    [sensor |-> sensor, value |-> value, unit |-> unit, suspect |-> suspect]

\* probe_registers
ProbeRegister(read, answer) == Shown(read.sensor, RegisterRaw(read, answer), read.unit, FALSE)

\* _probe_one_device, of a device the configuration names.
ProbeDevice(read, answer) ==
    Shown(read.sensor, ProbeRaw(read, answer), read.unit, answer = PowerOnReset)

\* Mutant: the coil as it is.
ProbeBitPlain(read, answer) ==
    Shown(read.sensor, IF answer = Silent THEN Nothing ELSE IF answer THEN 1 ELSE 0,
          "state", FALSE)

\* probe_bits
ProbeBit(read, answer) ==
    Shown(read.sensor,
          IF answer = Silent THEN Nothing ELSE IF answer # read.inverted THEN 1 ELSE 0,
          "state", FALSE)
===============================================================================
