--------------------------- MODULE MCMeshPresence ---------------------------
(***************************************************************************)
(* Two repeaters, a and b, heard by one radio o over one broker and one    *)
(* packet forwarder.  A monitor lists b, whose adverts carry no position,  *)
(* and a prefix that a and b share.  Hash aa is two bytes of a's key, hash *)
(* x the first byte of both.                                               *)
(***************************************************************************)
EXTENDS MeshPresence, TLC

CONSTANTS a, b, o, aa, x, broker, monitor, forwarder, pre

MCCarriedBy == (aa :> {a}) @@ (x :> {a, b})

Advert(n, hops, loc) ==
    [kind |-> "advert", route |-> "flood", hops |-> hops, observer |-> o, sender |-> n, loc |-> loc]
Traffic(route, hops) ==
    [kind |-> "other", route |-> route, hops |-> hops, observer |-> o, sender |-> Nil, loc |-> Nil]

MCPacket == {Advert(a, <<>>, 1), Advert(a, <<>>, 5), Advert(b, <<aa>>, Nil),
             Traffic("flood", <<x>>), Traffic("direct", <<aa>>)}

MCStreams  == (monitor :> {"mesh.repeater"}) @@ (forwarder :> {"mesh.packet"})
MCPrefixOf == pre :> {a, b}
MCListing  == {{b, pre}}
MCFence    == {1}

============================================================================
