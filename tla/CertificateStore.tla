-------------------------- MODULE CertificateStore --------------------------
(***************************************************************************)
(* The start of a shimiko server as far as its certificate is concerned    *)
(* (src/shimiko/server/tls.go and NewServer, RunServer in server.go): the  *)
(* account key, the certificate's key and the certificate are read from    *)
(* three files, or made and written to them, and the HTTPS listener reads  *)
(* the last two again.  Whatever goes wrong ends the process, and systemd  *)
(* starts another one, perhaps under another configuration.                *)
(*                                                                         *)
(* A file is written by truncating it and filling it in place; "torn" is   *)
(* a file that ends before its (first) PEM block does.  What a torn file   *)
(* would have held is kept in certificate and key, and read by nobody.     *)
(* Time passes while a server runs or while the machine is down, not       *)
(* within a start.                                                         *)
(***************************************************************************)
EXTENDS Naturals

CONSTANTS
    Configurations,   \* what the environment may ask for: issuer, domains, first
    Addresses,        \* those domains that are IP addresses
    RenewBelow,       \* 40 days
    AcmeLifetime, SelfSignedLifetime,
    TornWrites,       \* a write may break off after the truncation
    Removable,        \* the files an operator may delete
    MaxFaults, MaxCrashes, MaxRemovals  \* bounds on the environment

SelfSigned == "self-signed"   \* the issuer when SHIMIKO_ACME_EMAIL is not set
Files == {"account key", "key", "certificate"}
Keys == {"account key", "key"}
Domains == UNION {c.domains : c \in Configurations}

ASSUME ConstantsAssumption ==
    /\ \A c \in Configurations :
          /\ c.first \in c.domains
          /\ c.issuer # SelfSigned => c.domains \cap Addresses = {}
    /\ Configurations # {}
    /\ RenewBelow \in Nat /\ AcmeLifetime \in Nat /\ SelfSignedLifetime \in Nat
    /\ RenewBelow <= AcmeLifetime /\ RenewBelow <= SelfSignedLifetime
    /\ TornWrites \in BOOLEAN /\ Removable \subseteq Files
    /\ MaxFaults \in Nat /\ MaxCrashes \in Nat /\ MaxRemovals \in Nat

VARIABLES
    pc,           \* the file the starting process has come to
    conf,         \* its configuration
    file,         \* "missing", "torn" or "whole"
    key,          \* the certificate's key: in the file and in the process
    lastKey,      \* the newest key (0 is the account's)
    certificate,  \* the leaf certificate in the file, or about to be
    uptime,       \* of a serving process, in units of time up to RenewBelow
    faults, crashes, removals  \* counters behind the bounds

counters == <<faults, crashes, removals>>
stored == <<file, key, lastKey, certificate>>
vars == <<pc, conf, stored, uptime, counters>>

\* names are the DNS names and the common name, addresses the IP addresses.
Certificate == [key : Nat, names : SUBSET Domains,
                addresses : SUBSET Domains, left : Nat]

Writing(f) == CASE f = "account key" -> "write account key" [] f = "key" -> "write key"
                [] f = "certificate" -> "write certificate"
Reads == Keys \cup {"certificate", "obtain", "listen"}
Writes == {Writing(f) : f \in Files}

TypeOK ==
    /\ pc \in Reads \cup Writes \cup {"down", "serving"}
    /\ conf \in Configurations
    /\ file \in [Files -> {"missing", "torn", "whole"}]
    /\ key \in Nat /\ lastKey \in Nat
    /\ certificate \in Certificate
    /\ uptime \in 0..RenewBelow
    /\ faults \in Nat /\ crashes \in Nat /\ removals \in Nat

-----------------------------------------------------------------------------
Start ==
    /\ pc = "down" /\ pc' = "account key"
    /\ conf' \in Configurations
    /\ UNCHANGED <<stored, uptime, counters>>

After(f) == IF f = "account key" THEN "key" ELSE "certificate"

\* GetOrGeneratePrivateKey.  A torn file has no PEM block, and the code dereferences
\* the nil one that pem.Decode returns.
ReadKey(f) ==
    /\ pc = f /\ file[f] # "missing"
    /\ pc' = IF file[f] = "whole" THEN After(f) ELSE "down"
    /\ UNCHANGED <<conf, stored, uptime, counters>>

CreateKey(f) ==
    /\ pc = f /\ file[f] = "missing"
    /\ pc' = Writing(f) /\ file' = [file EXCEPT ![f] = "torn"]
    /\ lastKey' = IF f = "key" THEN lastKey + 1 ELSE lastKey
    /\ key' = IF f = "key" THEN lastKey + 1 ELSE key
    /\ UNCHANGED <<conf, certificate, uptime, counters>>

WriteKey(f) ==
    /\ pc = Writing(f)
    /\ pc' = After(f) /\ file' = [file EXCEPT ![f] = "whole"]
    /\ UNCHANGED <<conf, key, lastKey, certificate, uptime, counters>>

\* Wrong variants: the date does not count, nor does a name too many.
RegenerateForNames == conf.domains # certificate.names
RegenerateForNewNames ==
    certificate.left < RenewBelow \/ ~(conf.domains \subseteq certificate.names)

\* Less than 40 days left, or a name that only one of certificate and configuration
\* has.  Neither its issuer nor its IP addresses are looked at.
NeedsRegenerate == certificate.left < RenewBelow \/ conf.domains # certificate.names

\* The first halves of GetOrGenerateACMECert and GetOrGenerateSelfSignedCert.
ReadCertificate ==
    /\ pc = "certificate"
    /\ \/ file["certificate"] = "missing" /\ pc' = "obtain"
       \/ file["certificate"] = "torn" /\ pc' = "down"
       \/ file["certificate"] = "whole" /\ NeedsRegenerate /\ pc' = "obtain"
       \/ file["certificate"] = "whole" /\ ~NeedsRegenerate /\ pc' = "listen"
    /\ UNCHANGED <<conf, stored, uptime, counters>>

\* A wrong variant: the certificate is for another key.
ObtainForAccountKey ==
    /\ pc = "obtain" /\ pc' = Writing("certificate")
    /\ file' = [file EXCEPT !["certificate"] = "torn"]
    /\ certificate' = [key |-> 0, names |-> conf.domains, addresses |-> {},
                       left |-> AcmeLifetime]
    /\ UNCHANGED <<conf, key, lastKey, uptime, counters>>

\* A wrong variant: a name nobody configured.
ObtainWithLocalhost ==
    /\ pc = "obtain" /\ pc' = Writing("certificate")
    /\ file' = [file EXCEPT !["certificate"] = "torn"]
    /\ certificate' = [key |-> key, names |-> conf.domains \cup {"localhost"},
                       addresses |-> {}, left |-> AcmeLifetime]
    /\ UNCHANGED <<conf, key, lastKey, uptime, counters>>

\* A self-signed certificate has IP addresses among its DNS names only if the first
\* domain, its common name, is one.
SelfSignedNames == (conf.domains \ Addresses) \cup {conf.first}

\* Their second halves, up to the truncation of the file.
Obtain ==
    /\ pc = "obtain" /\ pc' = Writing("certificate")
    /\ file' = [file EXCEPT !["certificate"] = "torn"]
    /\ certificate' =
          IF conf.issuer = SelfSigned
          THEN [key |-> key, names |-> SelfSignedNames,
                addresses |-> conf.domains \cap Addresses, left |-> SelfSignedLifetime]
          ELSE [key |-> key, names |-> conf.domains, addresses |-> {},
                left |-> AcmeLifetime]
    /\ UNCHANGED <<conf, key, lastKey, uptime, counters>>

WriteCertificate ==
    /\ pc = Writing("certificate") /\ pc' = "listen"
    /\ file' = [file EXCEPT !["certificate"] = "whole"]
    /\ UNCHANGED <<conf, key, lastKey, certificate, uptime, counters>>

\* StartTLS reads both files and refuses a pair that does not belong together; its
\* error ends the server.
Loads == file["key"] = "whole" /\ file["certificate"] = "whole" /\ certificate.key = key

Listen ==
    /\ pc = "listen" /\ pc' = IF Loads THEN "serving" ELSE "down"
    /\ uptime' = 0
    /\ UNCHANGED <<conf, stored, counters>>

\* An outage, an I/O or database error, a refusal of the ACME server: NewServer returns
\* the error.
Fail ==
    /\ pc \in Reads \/ (pc \in Writes /\ TornWrites)
    /\ faults < MaxFaults /\ faults' = faults + 1
    /\ pc' = "down"
    /\ UNCHANGED <<conf, stored, uptime, crashes, removals>>

Crash ==
    /\ pc \in Reads \cup {"serving"} \/ (pc \in Writes /\ TornWrites)
    /\ crashes < MaxCrashes /\ crashes' = crashes + 1
    /\ pc' = "down"
    /\ UNCHANGED <<conf, stored, uptime, faults, removals>>

\* An operator deletes a file to have it made anew by the next start.
Remove ==
    /\ pc \in {"down", "serving"}
    /\ removals < MaxRemovals /\ removals' = removals + 1
    /\ \E f \in Removable : file' = [file EXCEPT ![f] = "missing"]
    /\ UNCHANGED <<pc, conf, key, lastKey, certificate, uptime, faults, crashes>>

Day ==
    /\ pc \in {"down", "serving"}
    /\ certificate.left > 0 /\ certificate' = [certificate EXCEPT !.left = @ - 1]
    /\ uptime' = IF pc = "serving" /\ uptime < RenewBelow THEN uptime + 1 ELSE uptime
    /\ UNCHANGED <<pc, conf, file, key, lastKey, counters>>

Init ==
    /\ pc = "down" /\ conf \in Configurations
    /\ file = [f \in Files |-> "missing"]
    /\ key = 0 /\ lastKey = 0 /\ uptime = 0
    /\ certificate = [key |-> 0, names |-> {}, addresses |-> {}, left |-> 0]
    /\ faults = 0 /\ crashes = 0 /\ removals = 0

\* What the process, or systemd, does by itself.
Proceed ==
    \/ Start \/ (\E f \in Keys : ReadKey(f) \/ CreateKey(f) \/ WriteKey(f))
    \/ ReadCertificate \/ Obtain \/ WriteCertificate \/ Listen

Next == Proceed \/ Fail \/ Crash \/ Remove \/ Day

\* A process runs until it serves, and systemd starts one after it (Restart=always).
Spec == Init /\ [][Next]_vars /\ WF_vars(Proceed)

-----------------------------------------------------------------------------
(* Properties.                                                             *)

\* A certificate that was found "valid" and is reused, or was just written, belongs to
\* the key in the other file, whatever starts broke off before: StartTLS never refuses
\* the pair, which nothing would repair.
PairLoads == pc = "listen" => Loads

\* A process that has run for less than 40 days serves a certificate that is in date;
\* renewal happens at its start only.
ServedInDate == pc = "serving" => certificate.left + uptime >= RenewBelow

\* The certificate served is for all configured domains and for no other name, although
\* configurations change between starts and the file outlives them.
ServedDomains ==
    pc = "serving" => /\ conf.domains \subseteq certificate.names \cup certificate.addresses
                      /\ certificate.names \subseteq conf.domains

\* When faults and crashes are over a server comes up and stays up, unless a write broke
\* off within a file: no start gets past such a file.
Serves == <>[](pc = "serving" \/ \E f \in Files : file[f] = "torn")

=============================================================================
