--------------------------- MODULE MCOscPackets ---------------------------
(* Packets for TLC. *)
EXTENDS OscPackets

NoPacket == Packet(FALSE, 0, << >>, << >>)

Set   == Message(3, "plain", NoPacket)
Short == Message(2, "plain", NoPacket)
Async(then) == Message(5, "async", then)

One(m)            == Packet(FALSE, 0, <<m>>, << >>)
Bundle(time, ms)  == Packet(TRUE, time, ms, << >>)
Around(ms, inner) == Packet(TRUE, 1, ms, inner)

(* Messages, bundles for now and for later, commands that complete with    *)
(* either, and a bundle of bundles.                                        *)
MCReceived ==
  {One(Set), Bundle(0, <<Set>>), Bundle(1, <<Set, Short>>), Bundle(2, <<Short>>), One(Async(Bundle(2, <<Set>>))),
   Bundle(1, <<Async(One(Short))>>),
   Around(<< >>, <<Bundle(1, <<Set>>), Around(<< >>, <<Bundle(0, <<Set, Short>>)>>)>>)}
=============================================================================
