--------------------------- MODULE MCSeedExtension ---------------------------
(* Small instances of SeedExtension for TLC. *)
EXTENDS SeedExtension

CONSTANTS d1, d2, dns1, dns2

\* A domain that fits into a common name, a longer one under another provider,
\* and a Seed without provider.
SomeSeeds == {[domain |-> d1, long |-> FALSE, provider |-> dns1],
              [domain |-> d2, long |-> TRUE, provider |-> dns2],
              [domain |-> d1, long |-> FALSE, provider |-> NoProvider]}
=============================================================================
