--------------------------- MODULE MCPacketStream ---------------------------
\* A receiver's datagrams, each part on its own: the starts and stops of the
\* tasks that number and send them, under two callers; one receiver, whose
\* packetSeq wraps at 6 in each of two boots, and its tracker; and datagrams
\* from the builder to the files, with room for two frames each.  A behaviour is
\* of one of them.
EXTENDS MCCaptureLifecycle, StreamTracker, Datagram
CONSTANT d1
OneDevice == {d1}

VARIABLE part
packetVars == <<part, vars, trackingVars, datagramVars>>

PacketInit ==
  /\ part \in {"sender", "tracker", "datagrams"}
  /\ Init /\ TrackerInit /\ DatagramInit

Sender == part = "sender" /\ Next /\ UNCHANGED <<part, trackingVars, datagramVars>>
Tracker == part = "tracker" /\ TrackerNext /\ UNCHANGED <<part, vars, datagramVars>>
Datagrams == part = "datagrams" /\ DatagramNext /\ UNCHANGED <<part, vars, trackingVars>>

PacketSpec == PacketInit /\ [][Sender \/ Tracker \/ Datagrams]_packetVars
=============================================================================
