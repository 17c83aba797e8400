---------------------- MODULE CertificateStoreProofs ----------------------
(* Theorems about CertificateStore, for every value of its constants. *)
EXTENDS CertificateStore, TLAPS

\* A certificate for the configuration, with the time left that a start asks for.
Suitable ==
    /\ certificate.left >= RenewBelow
    /\ conf.domains \subseteq certificate.names \cup certificate.addresses
    /\ certificate.names \subseteq conf.domains

\* From the choice of the certificate on it is suitable; while it is served, only time
\* passes.
DateInv ==
    /\ pc \in {Writing("certificate"), "listen"} => Suitable
    /\ pc = "serving" => ServedInDate /\ ServedDomains

\* A certificate file was written under the key that is in the other file; that file
\* is complete by the time anyone looks at a certificate, and stays so.
KeyInv ==
    /\ file["certificate"] # "missing" => file["key"] = "whole" /\ certificate.key = key
    /\ pc \in {"certificate", "obtain", Writing("certificate"), "listen"} => file["key"] = "whole"
    /\ pc = Writing("certificate") => file["certificate"] # "missing"
    /\ pc = "listen" => file["certificate"] = "whole"

-----------------------------------------------------------------------------
\* What Obtain makes is a certificate, and suitable.
LEMMA ObtainedSuitable ==
    ASSUME TypeOK, Obtain
    PROVE  certificate' \in Certificate /\ Suitable' /\ certificate'.key = key
<1>1. conf \in Configurations /\ conf.first \in conf.domains /\ conf.domains \subseteq Domains
  BY ConstantsAssumption DEF TypeOK, Domains
<1>3. SelfSignedNames \subseteq conf.domains
  BY <1>1 DEF SelfSignedNames
<1>4. conf.domains \subseteq SelfSignedNames \cup (conf.domains \cap Addresses)
  BY DEF SelfSignedNames
<1>5. key \in Nat /\ AcmeLifetime \in Nat /\ SelfSignedLifetime \in Nat /\ RenewBelow \in Nat
      /\ AcmeLifetime >= RenewBelow /\ SelfSignedLifetime >= RenewBelow
  BY ConstantsAssumption DEF TypeOK
<1>6. CASE conf.issuer = SelfSigned
  <2>1. certificate' = [key |-> key, names |-> SelfSignedNames,
                        addresses |-> conf.domains \cap Addresses,
                        left |-> SelfSignedLifetime]
    BY <1>6 DEF Obtain
  <2> QED
    BY <1>1, <1>3, <1>4, <1>5, <1>6, <2>1 DEF Obtain, Certificate, Suitable
<1>7. CASE conf.issuer # SelfSigned
  <2>1. certificate' = [key |-> key, names |-> conf.domains,
                        addresses |-> {}, left |-> AcmeLifetime]
    BY <1>7 DEF Obtain
  <2> QED
    BY <1>1, <1>5, <2>1 DEF Obtain, Certificate, Suitable
<1> QED
  BY <1>6, <1>7

LEMMA InitType == Init => TypeOK
<1> SUFFICES ASSUME Init PROVE TypeOK
  OBVIOUS
<1>2. certificate \in Certificate
  BY DEF Init, Certificate
<1>3. file \in [Files -> {"missing", "torn", "whole"}]
  BY DEF Init
<1> QED
  BY <1>2, <1>3, ConstantsAssumption DEF Init, TypeOK

LEMMA NextType == TypeOK /\ [Next]_vars => TypeOK'
<1> SUFFICES ASSUME TypeOK, [Next]_vars PROVE TypeOK'
  OBVIOUS
<1>1. \A f \in Files : [file EXCEPT ![f] = "torn"] \in [Files -> {"missing", "torn", "whole"}]
  BY DEF TypeOK
<1>2. \A f \in Files : [file EXCEPT ![f] = "whole"] \in [Files -> {"missing", "torn", "whole"}]
  BY DEF TypeOK
<1>3. CASE Start
  BY <1>3 DEF Start, TypeOK, stored, counters, Reads, Keys
<1>4. ASSUME NEW f \in Keys, ReadKey(f) PROVE TypeOK'
  BY <1>4 DEF ReadKey, TypeOK, stored, counters, Reads, Keys, After
<1>5. ASSUME NEW f \in Keys, CreateKey(f) PROVE TypeOK'
  <2>1. f \in Files /\ Writing(f) \in Writes
    BY <1>5 DEF Writes, Keys, Files
  <2> QED
    BY <1>1, <1>5, <2>1 DEF CreateKey, TypeOK, counters
<1>6. ASSUME NEW f \in Keys, WriteKey(f) PROVE TypeOK'
  BY <1>2, <1>6 DEF WriteKey, TypeOK, counters, Reads, Keys, Files, After
<1>7. CASE ReadCertificate
  <2>1. pc' \in {"obtain", "down", "listen"}
    BY <1>7 DEF ReadCertificate, TypeOK, Files
  <2> QED
    BY <1>7, <2>1 DEF ReadCertificate, TypeOK, stored, counters, Reads
<1>8. CASE Obtain
  BY <1>1, <1>8, ObtainedSuitable DEF Obtain, TypeOK, counters, Writes, Files
<1>9. CASE WriteCertificate
  BY <1>2, <1>9 DEF WriteCertificate, TypeOK, counters, Reads, Files
<1>10. CASE Listen
  BY <1>10, ConstantsAssumption DEF Listen, TypeOK, stored, counters
<1>11. CASE Fail \/ Crash
  BY <1>11 DEF Fail, Crash, TypeOK, stored
<1>12. CASE Remove
  BY <1>12, ConstantsAssumption DEF Remove, TypeOK
<1>13. CASE Day
  <2>1. certificate' \in Certificate
    BY <1>13 DEF Day, TypeOK, Certificate
  <2>2. uptime' \in 0..RenewBelow
    BY <1>13, ConstantsAssumption DEF Day, TypeOK
  <2> QED
    BY <1>13, <2>1, <2>2 DEF Day, TypeOK, counters
<1>14. CASE UNCHANGED vars
  BY <1>14 DEF vars, TypeOK, stored, counters
<1> QED
  BY <1>3, <1>4, <1>5, <1>6, <1>7, <1>8, <1>9, <1>10, <1>11, <1>12, <1>13, <1>14
     DEF Next, Proceed

\* No step of a start, whatever configuration it meets and wherever the one before it
\* broke off, leaves a file or the certificate malformed.
THEOREM TypeCorrect == Spec => []TypeOK
  BY InitType, NextType, PTL DEF Spec

-----------------------------------------------------------------------------
LEMMA NextDate == TypeOK /\ DateInv /\ [Next]_vars => DateInv'
<1> SUFFICES ASSUME TypeOK, DateInv, [Next]_vars PROVE DateInv'
  OBVIOUS
<1>1. Writing("certificate") = "write certificate" /\ Writing("key") = "write key"
      /\ Writing("account key") = "write account key"
  BY DEF Writing
<1>2. CASE Start \/ Fail \/ Crash
  BY <1>1, <1>2 DEF Start, Fail, Crash, DateInv
<1>3. ASSUME NEW f \in Keys, ReadKey(f) \/ CreateKey(f) \/ WriteKey(f) PROVE DateInv'
  BY <1>1, <1>3 DEF ReadKey, CreateKey, WriteKey, After, Keys, DateInv
<1>4. CASE ReadCertificate
  <2>1. pc' \in {"obtain", "down"} \/ (pc' = "listen" /\ ~NeedsRegenerate)
    BY <1>4 DEF ReadCertificate, TypeOK, Files
  <2>2. ~NeedsRegenerate => Suitable
    BY ConstantsAssumption DEF NeedsRegenerate, Suitable, TypeOK, Certificate
  <2> QED
    BY <1>1, <1>4, <2>1, <2>2 DEF ReadCertificate, DateInv, Suitable, stored
<1>5. CASE Obtain
  BY <1>1, <1>5, ObtainedSuitable DEF Obtain, DateInv
<1>6. CASE WriteCertificate
  BY <1>1, <1>6 DEF WriteCertificate, DateInv, Suitable
<1>7. CASE Listen
  <2>1. Suitable /\ pc' \in {"down", "serving"} /\ uptime' = 0 /\ UNCHANGED <<conf, certificate>>
    BY <1>7 DEF Listen, DateInv, stored
  <2>2. certificate.left \in Nat /\ RenewBelow \in Nat
    BY ConstantsAssumption DEF TypeOK, Certificate
  <2>3. ServedInDate'
    BY <2>1, <2>2 DEF Suitable, ServedInDate
  <2>4. ServedDomains'
    BY <2>1 DEF Suitable, ServedDomains
  <2> QED
    BY <1>1, <2>1, <2>3, <2>4 DEF DateInv
<1>8. CASE Remove
  BY <1>1, <1>8 DEF Remove, DateInv, ServedInDate, ServedDomains
<1>9. CASE Day
  <2>1. pc \in {"down", "serving"} /\ UNCHANGED <<pc, conf>>
        /\ certificate' = [certificate EXCEPT !.left = @ - 1]
    BY <1>9 DEF Day
  <2>2. CASE pc = "serving"
    <3>1. ServedDomains'
      BY <2>1, <2>2 DEF DateInv, ServedDomains, TypeOK, Certificate
    <3>2. certificate'.left = certificate.left - 1 /\ certificate.left \in Nat
      BY <2>1 DEF TypeOK, Certificate
    <3>3. ServedInDate'
      BY <1>9, <2>2, <3>2, ConstantsAssumption DEF Day, DateInv, ServedInDate, TypeOK
    <3> QED
      BY <1>1, <2>1, <2>2, <3>1, <3>3 DEF DateInv
  <2> QED
    BY <1>1, <2>1, <2>2 DEF DateInv
<1>10. CASE UNCHANGED vars
  BY <1>10 DEF vars, stored, DateInv, Suitable, ServedInDate, ServedDomains
<1> QED
  BY <1>2, <1>3, <1>4, <1>5, <1>6, <1>7, <1>8, <1>9, <1>10 DEF Next, Proceed

LEMMA DateInvariance == Spec => []DateInv
<1>1. Init => DateInv
  BY DEF Init, DateInv, Writing
<1> QED
  BY <1>1, TypeCorrect, NextDate, PTL DEF Spec

\* Whatever the lifetimes are, as long as they reach the 40 days: a process younger
\* than that serves a certificate that is in date.
THEOREM ServedInDateHolds == Spec => []ServedInDate
<1>1. DateInv => ServedInDate
  BY DEF DateInv, ServedInDate
<1> QED
  BY <1>1, DateInvariance, PTL

\* For every set of configurations and every order of starts under them, the
\* certificate served is for the domains of the latest.
THEOREM ServedDomainsHolds == Spec => []ServedDomains
<1>1. DateInv => ServedDomains
  BY DEF DateInv, ServedDomains
<1> QED
  BY <1>1, DateInvariance, PTL

-----------------------------------------------------------------------------
LEMMA NextKey ==
    ASSUME "key" \notin Removable
    PROVE  TypeOK /\ KeyInv /\ [Next]_vars => KeyInv'
<1> SUFFICES ASSUME TypeOK, KeyInv, [Next]_vars PROVE KeyInv'
  OBVIOUS
<1>1. Writing("certificate") = "write certificate" /\ Writing("key") = "write key"
      /\ Writing("account key") = "write account key"
  BY DEF Writing
<1>2. CASE Start \/ Fail \/ Crash
  BY <1>1, <1>2 DEF Start, Fail, Crash, KeyInv, stored
<1>3. ASSUME NEW f \in Keys, ReadKey(f) PROVE KeyInv'
  BY <1>1, <1>3 DEF ReadKey, After, Keys, KeyInv, stored
<1>4. ASSUME NEW f \in Keys, CreateKey(f) PROVE KeyInv'
  BY <1>1, <1>4 DEF CreateKey, Keys, Files, KeyInv, TypeOK
<1>5. ASSUME NEW f \in Keys, WriteKey(f) PROVE KeyInv'
  BY <1>1, <1>5 DEF WriteKey, After, Keys, Files, KeyInv, TypeOK
<1>6. CASE ReadCertificate
  BY <1>1, <1>6 DEF ReadCertificate, KeyInv, stored
<1>7. CASE Obtain
  BY <1>1, <1>7, ObtainedSuitable DEF Obtain, Files, KeyInv, TypeOK
<1>8. CASE WriteCertificate
  BY <1>1, <1>8 DEF WriteCertificate, Files, KeyInv, TypeOK
<1>9. CASE Listen
  BY <1>1, <1>9 DEF Listen, KeyInv, stored
<1>10. CASE Remove
  BY <1>1, <1>10, ConstantsAssumption DEF Remove, Files, KeyInv, TypeOK
<1>11. CASE Day
  <2>1. certificate'.key = certificate.key /\ UNCHANGED <<pc, file, key>>
    BY <1>11 DEF Day, TypeOK, Certificate
  <2> QED
    BY <2>1 DEF KeyInv
<1>12. CASE UNCHANGED vars
  BY <1>12 DEF vars, stored, KeyInv
<1> QED
  BY <1>2, <1>3, <1>4, <1>5, <1>6, <1>7, <1>8, <1>9, <1>10, <1>11, <1>12 DEF Next, Proceed

\* As long as nobody deletes the key, no sequence of crashes, torn writes, renewals and
\* changes of configuration makes a start reuse or write a certificate that does not
\* belong to the key, with which the HTTPS listener could never come up.
THEOREM PairLoadsHolds ==
    ASSUME "key" \notin Removable
    PROVE  Spec => []PairLoads
<1>1. Init => KeyInv
  BY DEF Init, KeyInv, Files, Writing
<1>2. KeyInv => PairLoads
  BY DEF KeyInv, PairLoads, Loads
<1> QED
  BY <1>1, <1>2, TypeCorrect, NextKey, PTL DEF Spec

=============================================================================
