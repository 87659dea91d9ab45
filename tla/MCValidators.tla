---------------------------- MODULE MCValidators ----------------------------
(***************************************************************************)
(* TLC instances of Validators: one mesh node, one town, two layers.       *)
(***************************************************************************)
EXTENDS Validators

CONSTANTS node, meshLayer, fireLayer, town, c1, tel1

OneNode  == {node}
NodeLayer == [e \in OneNode |-> meshLayer]
NodeNear == [e \in OneNode |-> {town}]
Layers   == {meshLayer, fireLayer}
Meshes   == {meshLayer}
Contents == {c1}
Extras   == {tel1}
Towns    == {town}

List(layers, place) == [kind |-> "ListEvents", layers |-> layers, place |-> place, status |-> LiveStatus]
History(place)      == [kind |-> "ListHistory", layers |-> Layers, place |-> place]

Lists   == {List(Layers, town)}
Others  == {History(town),
           [kind |-> "GetEvent", id |-> node], [kind |-> "GetEventHistory", id |-> node],
           [kind |-> "ListPlaces"]}
Queries == Lists \cup Others
=============================================================================
