---------------------------- MODULE MCColorMarker ----------------------------
(***************************************************************************)
(* Two VNs whose bucket indices would collide if VN and port were added     *)
(* unscaled, a flow without a VN entry, one without a route and one that is *)
(* not IPv4.  Packets of one or two bytes; a microsecond drains one byte of *)
(* "ab", two of "ba".                                                       *)
(***************************************************************************)
EXTENDS MarkerWindow, TLC

MCFlows == {"ab", "ba", "default", "lost", "arp"}
MCNonIP == {"arp"}
MCRoute == "ab" :> 2 @@ "ba" :> 1 @@ "default" :> 1 @@ "lost" :> NoRoute @@ "arp" :> NoRoute
MCClass == "ab" :> 0 @@ "ba" :> 1 @@ "default" :> Miss @@ "lost" :> Miss @@ "arp" :> Miss
MCRate == "ab" :> 8 @@ "ba" :> 16 @@ "default" :> 8 @@ "lost" :> 8 @@ "arp" :> 8

ReceiversAlike == Permutations(Receivers)
=============================================================================
