------------------------------ MODULE MCMounts ------------------------------
(***************************************************************************)
(* One runtime, one volume, two VolumeMounts: a directory and docker's     *)
(* socket, both wanted at one container path.  Templates Plan accepts,     *)
(* refuses outright, and refuses as soon as either is asked for.           *)
(***************************************************************************)
EXTENDS VolumeMounts

MCRuntimes == {<<"a">>}
Home == <<"home">>
MCDeclared == {Home}

MCPortName == {"ssh"}
MCRank == [n \in MCPortName |-> 1]
MCLocalNames == <<>>
MCHostPorts == {}

Src  == [host |-> <<"src">>, path |-> <<"work">>, readOnly |-> FALSE]
Sock == [host |-> <<"run", "docker.sock">>, path |-> <<"work">>, readOnly |-> TRUE]
MCHostMounts == {Src, Sock}
Untidy == {[host |-> <<"src">>, path |-> <<"work", "">>, readOnly |-> FALSE]}

File(path, body) == [path |-> path, body |-> body]
Defaults == <<File("p", "1"), File("q", "1")>>
Asks(vols, sound, covers, defaults, user) ==
  [image |-> "i", ports |-> {}, extra |-> {}, vols |-> vols, sound |-> sound,
   covers |-> covers, defaults |-> defaults, user |-> user]

MCSpecs ==
  { Asks({Home}, TRUE, {}, Defaults, <<>>),
    Asks({}, TRUE, {<<"work">>}, Defaults, <<File("p", "2"), File("r", "1")>>),
    Asks({}, FALSE, {}, Defaults \o <<File("q", "0")>>,
         <<File("r", "1"), File("q", "2"), File("r", "2")>>) }
OneSpec == { Asks({}, TRUE, {}, Defaults, <<>>) }
=============================================================================
