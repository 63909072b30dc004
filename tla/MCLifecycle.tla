----------------------------- MODULE MCLifecycle -----------------------------
(***************************************************************************)
(* Two runtimes, one name a prefix of the other, their volumes, no ports.  *)
(***************************************************************************)
EXTENDS RuntimeService

New == <<"new">>
NewDev == <<"new", "dev">>
MCRuntimes == {New, NewDev}

Home == <<"home">>
DevHome == <<"dev", "home">>
MCDeclared == {Home}
CollidingDeclared == {Home, DevHome}

MCPortName == {"ssh"}
MCRank == [n \in MCPortName |-> 1]
MCLocalNames == <<>>
MCHostPorts == {}

Asks(image, vols) ==
  [image |-> image, ports |-> {}, extra |-> {}, vols |-> vols, sound |-> TRUE,
   covers |-> {}, defaults |-> <<[path |-> "p", body |-> image]>>, user |-> <<>>]

MCSpecs == {Asks("a", {Home}), Asks("b", {})}
OneSpec == {Asks("a", {Home})}
CollidingSpecs == {Asks("a", {Home}), Asks("b", {DevHome})}
=============================================================================
