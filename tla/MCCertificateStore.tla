------------------------- MODULE MCCertificateStore -------------------------
(* Instances of CertificateStore for TLC. *)
EXTENDS CertificateStore

Config(issuer, domains, first) == [issuer |-> issuer, domains |-> domains, first |-> first]

\* The domains, their order and the issuer of a deployment change.
SeveralDomains == {Config("acme", {"a"}, "a"), Config("acme", {"a", "b"}, "a"),
                   Config(SelfSigned, {"a", "10.0.0.1"}, "a"),
                   Config(SelfSigned, {"a", "10.0.0.1"}, "10.0.0.1")}
OneAcme == {Config("acme", {"a"}, "a")}

=============================================================================
