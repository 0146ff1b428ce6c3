--------------------------- MODULE MCCertDeployment ---------------------------
(* Small instances of CertDeployment for TLC. *)
EXTENDS CertDeployment

CONSTANTS garden, own, second, ref1, ref2, dns1, dns2

Service(kind, ownKey, flag, shootIssuers, servers) ==
  [kind |-> kind, ownKey |-> ownKey, restrict |-> flag, caCerts |-> flag,
   shootIssuers |-> shootIssuers, nameservers |-> servers]
SomeServices == {Service("acme", TRUE, TRUE, "on", <<dns1>>),
                 Service("acme", FALSE, FALSE, "unset", <<>>),
                 Service("ca", FALSE, FALSE, "off", <<>>)}

Issuer(name, key, eab, skip, ok) ==
  [name |-> name, key |-> key, eab |-> eab, skip |-> skip, wellFormed |-> ok]
Config(issuers, servers, shootIssuers, challenge) ==
  [issuers |-> issuers, nameservers |-> servers, shootIssuers |-> shootIssuers,
   challenge |-> challenge, alerting |-> FALSE]

Bare      == Issuer(own, None, None, FALSE, TRUE)
Keyed     == Issuer(own, ref1, None, FALSE, TRUE)
Bound     == Issuer(second, None, ref1, TRUE, TRUE)
BothRefs  == Issuer(second, ref1, ref2, FALSE, TRUE)
Unbound   == Issuer(second, None, None, TRUE, TRUE)
Malformed == Issuer(second, None, None, FALSE, FALSE)
Imitation == Issuer(garden, ref1, None, FALSE, TRUE)

\* No issuers; one and two, with and without references; a second default
\* issuer; the same name twice; and what validation refuses on its own.
SomeConfigs ==
  {Config(<<>>, <<>>, "unset", "unset"), Config(<<>>, <<dns2, dns1>>, "on", "off"),
   Config(<<Bare>>, <<>>, "on", "on"), Config(<<Keyed, Bound>>, <<>>, "off", "on"),
   Config(<<Bare, BothRefs>>, <<dns1>>, "unset", "unset"),
   Config(<<Imitation, Bare>>, <<>>, "off", "unset"),
   Config(<<Bare, Keyed>>, <<>>, "off", "unset"), Config(<<Unbound>>, <<>>, "off", "unset"),
   Config(<<Malformed>>, <<>>, "off", "unset"), Config(<<>>, <<>>, "on", "nowhere"),
   Config(<<>>, <<dns1, Empty>>, "off", "unset"),
   [Config(<<>>, <<>>, "unset", "unset") EXCEPT !.alerting = TRUE]}
=============================================================================
