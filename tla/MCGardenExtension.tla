-------------------------- MODULE MCGardenExtension --------------------------
(* Small instances of GardenExtension for TLC. *)
EXTENDS GardenExtension

CONSTANTS d1, d2, dns1, dns2

\* A Garden with one domain, one with a second domain under another provider,
\* the same domains without a provider, and one without domains.
One     == [virtual |-> <<d1>>, ingress |-> <<d1>>, provider |-> dns1]
Two     == [virtual |-> <<d1>>, ingress |-> <<d2>>, provider |-> dns2]
TwoBare == [virtual |-> <<d1>>, ingress |-> <<d2>>, provider |-> NoProvider]
None    == [virtual |-> <<>>, ingress |-> <<>>, provider |-> dns1]
AllSpecs == {One, Two, TwoBare, None}
SpecsWithDomains == {One, Two}
=============================================================================
