-------------------------- MODULE MCRuntimeCluster --------------------------
(* Small instances of RuntimeCluster for TLC. *)
EXTENDS RuntimeCluster

Server(n) == [host |-> "name", brackets |-> "none", port |-> {n}]
OneACME == [server |-> "url", email |-> "address", privateKey |-> {},
            precheckNameservers |-> {<<Server(53), Server(5353)>>}, caCertificates |-> {}]
Base == [issuerName |-> "default", restrictIssuer |-> {}, defaultRequestsPerDayQuota |-> {},
         acme |-> {}, ca |-> {}, privateKeyDefaults |-> {}, acmeNamespaces |-> FALSE]
OneCA == [certificate |-> <<"certificate">>, certificateKey |-> <<"key">>]

\* The default of the chart.
NoneDisabled == [i \in Installations |-> {}]

\* An ACME server with own CA certificates, a CA, and what is refused: both,
\* and a nameserver with a port that does not exist.
WithACME == [Base EXCEPT !.acme = {[OneACME EXCEPT !.caCertificates = {<<"certificate">>}]},
                         !.acmeNamespaces = TRUE]
WithCA == [Base EXCEPT !.ca = {OneCA}]
WithBoth == [WithACME EXCEPT !.ca = {OneCA}]
WithBadServer ==
  [WithACME EXCEPT !.acme = {[OneACME EXCEPT !.precheckNameservers = {<<Server(53), Server(65536)>>}]}]
SomeConfigs == {WithACME, WithCA, WithBoth, WithBadServer}
FirstConfig == {WithACME}

\* An own issuer with its account, and one that has the name of the default.
OwnIssuers == [alertDays |-> 0, shootIssuers |-> TRUE, hasDomain |-> TRUE,
               ownIssuers |-> {[name |-> "own", secrets |-> {"ref-account"}],
                               [name |-> "default", secrets |-> {}]}]
\* The other shoot has no domain.
SomeProviderConfigs == {OwnIssuers, [Plain EXCEPT !.hasDomain = FALSE]}
=============================================================================
