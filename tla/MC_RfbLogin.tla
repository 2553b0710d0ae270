----------------------------- MODULE MC_RfbLogin -----------------------------
(* RfbLogin with a server of each generation, and offers that lead to each of
   the security types. *)
EXTENDS RfbLogin

MCVersions == {<<2, 2>>, <<3, 3>>, <<3, 4>>, <<3, 5>>, <<3, 6>>, <<3, 7>>, <<3, 8>>,
               <<3, 14>>, <<3, 16>>, <<3, 889>>, <<4, 1>>, <<5, 0>>}

MCOffers == {{}, {"Tight"}} \cup {{a} : a \in Schemes}
            \cup {{a, "ClientInitExtraMsgSupportNew"} : a \in Schemes}
            \cup {{"NoAuth", "VncAuth"}, {"VncAuth", "RSAAES_256", "RSAAES"}, {"UltraVNC", "UltraMSLogonII"}}
=============================================================================
