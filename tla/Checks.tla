------------------------------- MODULE Checks -------------------------------
(***************************************************************************)
(* What the nine scan modules of the worker do, src/worker/modules: a run  *)
(* of a module is a sequence of checks, a check is a sequence of steps,    *)
(* and a step is a loop of requests, or a look at the job itself.  A step  *)
(* keeps the control of its loop: how many requests it makes, whether they *)
(* end with the job's context, what a lost one, a telling one and one that *)
(* cannot be built make of the rest.  What an answer tells is one title.   *)
(***************************************************************************)
EXTENDS Integers, Sequences

CONSTANTS
  QueryParams,    \* how many query parameters the target has
  SpecEndpoints   \* how many paths an exposed specification lists

ASSUME ChecksAssumption == QueryParams \in Nat /\ SpecEndpoints \in Nat

(* A loop of n requests of an HTTP client for the target.                  *)
Requests(n, title) ==
  [n |-> n,
   title |-> title,    \* the finding a telling answer adds; "" for none
   via |-> "target",   \* whom it asks, and how
   secs |-> 20,        \* the limit of one request; 0 for none
   bound |-> TRUE,     \* the job's context ends it
   sure |-> FALSE,     \* every answer tells
   lost |-> "next",    \* after a request without answer: next, stop, return
   hit |-> "next",     \* after a telling answer
   unbuilt |-> "next", \* after a request that cannot be built
   failed |-> {""},    \* the findings a lost request may add; "" for none
   absent |-> "",      \* the finding a loop without a telling answer adds
   inner |-> <<>>]     \* the loop a telling answer leads to

(* Of the target's scheme and host, not of all its URL.                    *)
OfBase(step) == [step EXCEPT !.via = "base"]

(* url.Parse of the target where the check does not ask for its host.      *)
Parse(broken) == [Requests(1, "") EXCEPT !.via = "parse", !.unbuilt = broken]

(* A finding that the job alone decides.                                   *)
Job(title) == [Requests(1, title) EXCEPT !.via = "job"]
Always(title) == [Job(title) EXCEPT !.sure = TRUE]
If(condition, steps) == IF condition THEN steps ELSE <<>>

---------------------------------------------------------------------------
(* crawler                                                                 *)

TestSpecEndpoints(job) ==
  OfBase(Requests(SpecEndpoints, IF job.bearer # "" THEN "open endpoint" ELSE ""))

DiscoverSpecFiles(job) ==
  <<Parse("panic"),
    [OfBase(Requests(14, "specification")) EXCEPT !.inner = <<TestSpecEndpoints(job)>>]>>

CrawlOpenAPIEndpoints == <<>>
CheckGraphQL == <<Parse("panic"), OfBase(Requests(4, "GraphQL"))>>
DiscoverCommonPaths == <<Parse("panic"), OfBase(Requests(12, "sensitive path"))>>

CrawlerRun(job) ==
  <<DiscoverSpecFiles(job), CrawlOpenAPIEndpoints, CheckGraphQL, DiscoverCommonPaths>>

---------------------------------------------------------------------------
(* fuzzer                                                                  *)

FuzzPayloads == 10
FuzzQueryParams ==
  <<Parse("return"),
    Requests(FuzzPayloads * (IF QueryParams = 0 THEN 2 ELSE QueryParams), "query parameter")>>

FuzzPathParams == <<Parse("panic"), OfBase(Requests(6, "path traversal"))>>
FuzzJSONBody == <<Requests(10 * 9, "type confusion")>>
FuzzHeaders == <<Requests(4, ""), Requests(5, "address bypass")>>
CheckMassAssignment == <<Requests(2 * 7, "mass assignment")>>

FuzzerRun == <<FuzzQueryParams, FuzzPathParams, FuzzJSONBody, FuzzHeaders, CheckMassAssignment>>

---------------------------------------------------------------------------
(* vuln                                                                    *)

VulnAccessControl ==
  <<Parse("return"),
    [OfBase(Requests(8, "open resource")) EXCEPT !.unbuilt = "panic"],
    [Requests(1, "TRACE") EXCEPT !.unbuilt = "panic"],
    [Requests(1, "") EXCEPT !.unbuilt = "panic"]>>

VulnCryptoFailures == <<Parse("return"), Job("sensitive parameter")>>

VulnInjection ==
  <<[Requests(3, "reflected script") EXCEPT !.hit = "stop", !.unbuilt = "panic"],
    [Requests(2, "NoSQL injection") EXCEPT !.hit = "stop"],
    Requests(4, "request forgery")>>

VulnMisconfiguration ==
  <<[Requests(1, "debug mode") EXCEPT !.lost = "return", !.unbuilt = "panic"]>>

VulnOutdatedComponents ==
  <<[Requests(1, "end of life") EXCEPT !.lost = "return", !.unbuilt = "panic"]>>

(* The attempts tell by a 429, after which none is made and no finding     *)
(* added.                                                                  *)
VulnAuthFailures ==
  <<Requests(1, "unsigned token"),
    [Requests(5, "") EXCEPT !.hit = "stop", !.lost = "stop", !.unbuilt = "stop",
                            !.absent = "no rate limiting"]>>

VulnInfoDisclosure == <<Requests(1, "file system path")>>

RunNuclei(job) ==
  If(job.nuclei,
     <<[Requests(1, "template match") EXCEPT !.secs = 300]>>)

VulnRun(job) ==
  <<VulnAccessControl, VulnCryptoFailures, VulnInjection, VulnMisconfiguration,
    VulnOutdatedComponents, VulnAuthFailures, VulnInfoDisclosure, RunNuclei(job)>>

---------------------------------------------------------------------------
(* auth: the bearer is none, no JWT, or a JWT with its algorithm           *)

AuthJWT(job) ==
  If(job.bearer \in {"HS256", "RS256"},
     <<Requests(1, "unsigned token")>>
       \o If(job.bearer = "RS256", <<Requests(1, "algorithm confusion")>>)
       \o <<Job("sensitive claim"), Job("token expiry")>>)

(* One resource after the other, and a finding when both answer.           *)
AuthIDOR == <<[Requests(2, "object reference") EXCEPT !.secs = 40]>>

AuthOAuth == <<[Requests(4, "") EXCEPT !.inner = <<Requests(1, "open redirect")>>]>>

AuthPrivilegeEscalation == <<Requests(6, "privilege escalation")>>

(* Mutant: no nil check of the request.                                    *)
AuthSessionManagementUnchecked ==
  <<[Requests(1, "cookie flag") EXCEPT !.lost = "return", !.unbuilt = "panic"]>>
AuthSessionManagement ==
  <<[Requests(1, "cookie flag") EXCEPT !.lost = "return", !.unbuilt = "return"]>>

AuthRun(job) ==
  <<AuthJWT(job), AuthIDOR, AuthOAuth, AuthPrivilegeEscalation, AuthSessionManagement>>

---------------------------------------------------------------------------
(* asset                                                                   *)

CheckDNS ==
  LET Lookup(title) == [Requests(1, title) EXCEPT !.via = "dns", !.secs = 5]
  IN  <<[Lookup("addresses") EXCEPT !.failed = {"resolution failed"}, !.lost = "return"],
        Lookup("mail exchangers"), Lookup("permissive SPF")>>

(* Nmap also exits 0 for a host that is down.                              *)
RunNmap ==
  [Requests(1, "network scan") EXCEPT !.via = "tool", !.secs = 90, !.sure = TRUE, !.hit = "return"]

TcpProbePorts ==
  [Requests(14, "open ports") EXCEPT !.via = "ports", !.secs = 2, !.bound = FALSE]

ScanPorts == <<RunNmap, TcpProbePorts>>

FingerprintHTTP ==
  <<[Requests(1, "headers") EXCEPT !.secs = 15, !.lost = "return", !.unbuilt = "return"],
    [Requests(13, "sensitive path") EXCEPT !.secs = 15]>>

CheckTLSPresence == <<[Requests(1, "plain HTTP") EXCEPT !.via = "http", !.secs = 5]>>

AssetRun == <<CheckDNS, ScanPorts, FingerprintHTTP, CheckTLSPresence>>

---------------------------------------------------------------------------
(* pci                                                                     *)

PciRequests(n, title) == [Requests(n, title) EXCEPT !.secs = 15]

(* tls.Dial: neither the job's context nor a limit of its own.             *)
PciEncryption(job) ==
  If(job.target.scheme = "http", <<Always("HTTP target")>>)
    \o <<[Requests(1, "old TLS") EXCEPT !.via = "tls", !.secs = 0, !.bound = FALSE]>>

PciCardholderData ==
  <<[PciRequests(1, "card number") EXCEPT !.lost = "return", !.unbuilt = "return"]>>

PciInjection == <<PciRequests(5, "SQL injection")>>

PciAuthentication(job) ==
  LET token == job.bearer # "" IN
  If(job.target.scheme = "http" /\ token, <<Always("token over HTTP")>>)
    \o <<PciRequests(1, IF token THEN "open endpoint" ELSE "")>>

PciErrorHandling == <<PciRequests(3, "stack trace")>>

PciSecurityHeadersGuessed ==    \* mutant: no answer is taken for no header
  <<[PciRequests(1, "security header") EXCEPT !.lost = "return", !.unbuilt = "return",
                                              !.failed = {"security header"}]>>
PciSecurityHeaders ==
  <<[PciRequests(1, "security header") EXCEPT !.lost = "return", !.unbuilt = "return"]>>

PciRun(job) ==
  <<PciEncryption(job), PciCardholderData, PciInjection, PciAuthentication(job),
    PciErrorHandling, PciSecurityHeaders>>

---------------------------------------------------------------------------
(* cert                                                                    *)

Handshakes(n, title, secs) ==
  [Requests(n, title) EXCEPT !.via = "tls", !.secs = secs, !.bound = FALSE]

(* An error that holds "certificate" or "x509" is taken for a bad          *)
(* certificate; the error of a dial holds the name of the host.            *)
CertErrors == {"", "certificate error"}
AnalyzeTLSUntimed ==    \* mutant: a dialer without its timeout
  <<[Handshakes(1, "certificate", 0) EXCEPT !.lost = "return", !.failed = CertErrors]>>
AnalyzeTLS ==
  <<[Handshakes(1, "certificate", 10) EXCEPT !.lost = "return", !.failed = CertErrors]>>

CheckCipherSuitesSlow == <<Handshakes(4, "weak cipher", 10), Handshakes(1, "TLS 1.0", 10)>>    \* mutant
CheckCipherSuites == <<Handshakes(4, "weak cipher", 5), Handshakes(1, "TLS 1.0", 5)>>

CertRun == <<AnalyzeTLS, CheckCipherSuites>>

---------------------------------------------------------------------------
(* compliance and passive: no requests                                     *)

CheckHIPAARequirements(job) ==
  If(job.bearer = "", <<Job("HIPAA access control")>>)
    \o If(job.target.scheme = "http", <<Always("HIPAA transmission")>>)

CheckSOC2Requirements(job) ==
  If(job.target.scheme = "http", <<Always("SOC2 CC6.1"), Always("SOC2 CC6.7")>>)

GeneratePostureSummary == <<Always("framework mapping")>>

ComplianceRun(job) ==
  <<CheckHIPAARequirements(job), CheckSOC2Requirements(job), GeneratePostureSummary>>

(* The target is opened as a file, under the name it has been given: with  *)
(* a scheme there is none, and the error ends in no finding.               *)
AnalyzeHAR(job) ==
  If(job.target.scheme = "", <<Job("secret in traffic"), Always("HAR analysis")>>)

CheckLiveEndpoint == <<Always("provide a HAR file")>>

PassiveRun(job) ==
  <<IF job.target.form = "har" THEN AnalyzeHAR(job) ELSE CheckLiveEndpoint>>

---------------------------------------------------------------------------
Modules == {"asset", "auth", "cert", "compliance", "crawler", "fuzzer", "passive", "pci", "vuln"}

(* The checks of a module, in the order of its Run.                        *)
Checks(job) ==
  CASE job.module = "asset" -> AssetRun
    [] job.module = "auth" -> AuthRun(job)
    [] job.module = "cert" -> CertRun
    [] job.module = "compliance" -> ComplianceRun(job)
    [] job.module = "crawler" -> CrawlerRun(job)
    [] job.module = "fuzzer" -> FuzzerRun
    [] job.module = "passive" -> PassiveRun(job)
    [] job.module = "pci" -> PciRun(job)
    [] job.module = "vuln" -> VulnRun(job)
=============================================================================
