--------------------------- MODULE MCPortAllocator ---------------------------
(***************************************************************************)
(* Two template names, two local ports, a pool of three and a local range  *)
(* of three: either range can run dry, a pin can fall into the pool, into  *)
(* the local range or outside both.                                        *)
(***************************************************************************)
EXTENDS PortAllocator

MCPortName == {"api", "ssh", "local-0", "local-1"}
MCRank == [n \in MCPortName |->
  CASE n = "api" -> 1 [] n = "local-0" -> 2 [] n = "local-1" -> 3 [] n = "ssh" -> 4]
MCLocalNames == <<"local-0", "local-1">>

Any(n)    == [name |-> n, pin |-> 0]
Pin(n, p) == [name |-> n, pin |-> p]

MCPortLists ==
  { {}, {Any("api")}, {Any("api"), Any("ssh")} }
  \cup { {Pin("api", p), Any("ssh")} : p \in {31, 32, 90, 50} }
  \cup { {Pin("api", p), Pin("ssh", q)} : p, q \in {32, 90, 50} }

MCLabelMaps ==
  { NoPorts }
  \cup [{"api", "local-0"} -> {0, 31, 32, 90}]
  \cup [{"api", "ssh", "local-0", "local-1"} -> {0, 32, 90, 91}]

MCOthers == { {}, {31, 50}, {31, 33, 91} }
MCBusy   == { {}, {32, 90}, {50, 91, 92} }
=============================================================================
