------------------------ MODULE MCTopologyPersistence ------------------------
(***************************************************************************)
(* TopologyPersistence with a service that depends on another one, up to   *)
(* two dependencies at once, and up to two saves in flight: enough for a   *)
(* late answer of an older save and for a snapshot that holds a dependency *)
(* twice.                                                                  *)
(***************************************************************************)
EXTENDS TopologyPersistence

CONSTANTS a, b

OneLink == {<<a, b>>}

SelfLink == {<<a, a>>}
==============================================================================
