----------------------------- MODULE MCModbusBus -----------------------------
(***************************************************************************)
(* Small instances of ModbusBus for TLC.  The poller keeps its port open   *)
(* and reads registers w1, w2, ... and the state s1 of a relay; the page   *)
(* and the button are two request threads of the control surface, which    *)
(* open the port for each exchange: the page reads the relay back (b1) and *)
(* operates it (a1), the button operates it the other way (a2).            *)
(***************************************************************************)
EXTENDS ModbusBus

CONSTANTS poller, page, button, w1, w2, w3, w4, s1, b1, a1, a2

Words(c, item) == [client |-> c, kind |-> "registers", unit |-> 1, item |-> item,
                   quantity |-> 2, closed |-> FALSE]
Bits(c)        == [client |-> c, kind |-> "bits", unit |-> 2, item |-> 0,
                   quantity |-> 1, closed |-> FALSE]
Coil(c, on)    == [client |-> c, kind |-> "coil", unit |-> 2, item |-> 0,
                   quantity |-> 1, closed |-> on]

MCAsks == [r \in Requests |->
    CASE r = w1 -> Words(poller, 1)
      [] r = w2 -> Words(poller, 2)
      [] r = w3 -> Words(poller, 3)
      [] r = w4 -> Words(poller, 4)
      [] r = s1 -> Bits(poller)
      [] r = b1 -> Bits(page)
      [] r = a1 -> Coil(page, TRUE)
      [] r = a2 -> Coil(button, FALSE)]
=============================================================================
