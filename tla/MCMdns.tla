------------------------------- MODULE MCMdns -------------------------------
(* Mdns with one server on two interfaces and one on the first of them.     *)
EXTENDS Mdns

OnEach == <<{"eth", "vpn"}, {"eth"}>>
=============================================================================
