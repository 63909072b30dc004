------------------------------- MODULE MCPorts -------------------------------
(***************************************************************************)
(* Two runtimes competing for a small pool and a local range of two; a pin *)
(* outside both.                                                           *)
(***************************************************************************)
EXTENDS RuntimeService

A == <<"a">>
B == <<"b">>
MCRuntimes == {A, B}

MCPortName == {"api", "local-0", "ssh"}
MCRank == [n \in MCPortName |->
             CASE n = "api" -> 1 [] n = "local-0" -> 2 [] n = "ssh" -> 3]
MCLocalNames == <<"local-0">>
MCHostPorts == {31, 90}

Any(n)    == [name |-> n, pin |-> 0]
Pin(n, p) == [name |-> n, pin |-> p]
Asks(ports, extra) == [image |-> "i", ports |-> ports, extra |-> extra,
                       vols |-> {}, sound |-> TRUE, covers |-> {},
                       defaults |-> <<>>, user |-> <<>>]

MCSpecs == { Asks({Any("ssh")}, {}), Asks({Pin("api", 50), Any("ssh")}, {}) }
PinnedSpecs == { Asks({Any("api"), Any("ssh")}, {}), Asks({Pin("api", 50)}, {}) }
WithRuntimePort == { Asks({Any("ssh")}, {Any("api")}) }
OnlyA == {A}
OntoItsOwn == { Asks({Any("ssh")}, {}), Asks({Pin("ssh", 90)}, {}) }
=============================================================================
