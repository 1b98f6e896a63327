------------------------- MODULE ScanModules_proofs -------------------------
(***************************************************************************)
(* What a host, a target and the deadline can make of a job, for any       *)
(* targets, tokens, query parameters and endpoints.  First the table of    *)
(* the checks: what all of their steps have in common, module by module.   *)
(***************************************************************************)
EXTENDS ScanModules, TLAPS

How == {"next", "stop", "return"}
Via == {"target", "base", "parse", "job", "tool", "dns", "ports", "http", "tls"}

(* What a failure to answer is reported as.                                *)
Failures == {"resolution failed", "certificate error"}

(* What every loop is.                                                     *)
IsLoop(s) ==
  /\ s.n \in Nat /\ s.via \in Via /\ s.secs \in Nat
  /\ s.bound \in BOOLEAN /\ s.sure \in BOOLEAN
  /\ s.lost \in How /\ s.hit \in How /\ s.unbuilt \in How \cup {"panic"}

(* A loop within a loop.                                                   *)
IsInner(s) ==
  /\ IsLoop(s)
  /\ s.via \in {"target", "base"} /\ s.n <= SpecEndpoints + 1
  /\ s.unbuilt = "next" /\ s.failed = {""} /\ s.absent = "" /\ s.bound /\ s.inner = <<>>

(* A step of module m.                                                     *)
IsStep(s, m) ==
  /\ IsLoop(s)
  /\ s.n > 0
  /\ \/ s.bound
     \/ s.secs = 0 /\ m = "pci"
     \/ s.secs > 0 /\ m \in {"asset", "cert"}
  /\ s.inner = <<>> \/ (Len(s.inner) = 1 /\ s.inner # <<>> /\ IsInner(s.inner[1]))
  /\ s.unbuilt = "panic" => \/ s.via \in {"parse", "target"} /\ m \in {"vuln", "crawler", "fuzzer"}
                            \/ s.via = "base" /\ m = "vuln"
  /\ s.failed \subseteq Failures \cup {""}
  /\ s.absent \in {"", "no rate limiting"}
  /\ s.via = "parse" => s.title = "" /\ s.absent = "" /\ s.inner = <<>>
  /\ s.via = "tool" => s.title = "network scan"

IsCheck(c, m) == (\E S : c \in Seq(S)) /\ \A i \in DOMAIN c : IsStep(c[i], m)
IsRun(r, m) == (\E S : r \in Seq(S)) /\ \A k \in DOMAIN r : IsCheck(r[k], m)

(* Checks and runs that are written out.                                   *)
LEMMA NoStep == ASSUME NEW m PROVE IsCheck(<<>>, m)
  <1>1. <<>> \in Seq({}) /\ DOMAIN <<>> = {}
    OBVIOUS
  <1> QED
    BY <1>1 DEF IsCheck

LEMMA OneStep ==
  ASSUME NEW m, NEW a,
         IsStep(a, m)
  PROVE  IsCheck(<<a>>, m)
  <1>1. <<a>> \in Seq({a})
    OBVIOUS
  <1>2. \A i \in DOMAIN <<a>> : <<a>>[i] \in {a}
    OBVIOUS
  <1> QED
    BY <1>1, <1>2 DEF IsCheck

LEMMA TwoSteps ==
  ASSUME NEW m, NEW a, NEW b,
         IsStep(a, m), IsStep(b, m)
  PROVE  IsCheck(<<a, b>>, m)
  <1>1. <<a, b>> \in Seq({a, b})
    OBVIOUS
  <1>2. \A i \in DOMAIN <<a, b>> : <<a, b>>[i] \in {a, b}
    OBVIOUS
  <1> QED
    BY <1>1, <1>2 DEF IsCheck

LEMMA ThreeSteps ==
  ASSUME NEW m, NEW a, NEW b, NEW c,
         IsStep(a, m), IsStep(b, m), IsStep(c, m)
  PROVE  IsCheck(<<a, b, c>>, m)
  <1>1. <<a, b, c>> \in Seq({a, b, c})
    OBVIOUS
  <1>2. \A i \in DOMAIN <<a, b, c>> : <<a, b, c>>[i] \in {a, b, c}
    OBVIOUS
  <1> QED
    BY <1>1, <1>2 DEF IsCheck

LEMMA FourSteps ==
  ASSUME NEW m, NEW a, NEW b, NEW c, NEW d,
         IsStep(a, m), IsStep(b, m), IsStep(c, m), IsStep(d, m)
  PROVE  IsCheck(<<a, b, c, d>>, m)
  <1>1. <<a, b, c, d>> \in Seq({a, b, c, d})
    OBVIOUS
  <1>2. \A i \in DOMAIN <<a, b, c, d>> : <<a, b, c, d>>[i] \in {a, b, c, d}
    OBVIOUS
  <1> QED
    BY <1>1, <1>2 DEF IsCheck

LEMMA OneCheck ==
  ASSUME NEW m, NEW a,
         IsCheck(a, m)
  PROVE  IsRun(<<a>>, m)
  <1>1. <<a>> \in Seq({a})
    OBVIOUS
  <1>2. \A i \in DOMAIN <<a>> : <<a>>[i] \in {a}
    OBVIOUS
  <1> QED
    BY <1>1, <1>2 DEF IsRun

LEMMA TwoChecks ==
  ASSUME NEW m, NEW a, NEW b,
         IsCheck(a, m), IsCheck(b, m)
  PROVE  IsRun(<<a, b>>, m)
  <1>1. <<a, b>> \in Seq({a, b})
    OBVIOUS
  <1>2. \A i \in DOMAIN <<a, b>> : <<a, b>>[i] \in {a, b}
    OBVIOUS
  <1> QED
    BY <1>1, <1>2 DEF IsRun

LEMMA ThreeChecks ==
  ASSUME NEW m, NEW a, NEW b, NEW c,
         IsCheck(a, m), IsCheck(b, m), IsCheck(c, m)
  PROVE  IsRun(<<a, b, c>>, m)
  <1>1. <<a, b, c>> \in Seq({a, b, c})
    OBVIOUS
  <1>2. \A i \in DOMAIN <<a, b, c>> : <<a, b, c>>[i] \in {a, b, c}
    OBVIOUS
  <1> QED
    BY <1>1, <1>2 DEF IsRun

LEMMA FourChecks ==
  ASSUME NEW m, NEW a, NEW b, NEW c, NEW d,
         IsCheck(a, m), IsCheck(b, m), IsCheck(c, m), IsCheck(d, m)
  PROVE  IsRun(<<a, b, c, d>>, m)
  <1>1. <<a, b, c, d>> \in Seq({a, b, c, d})
    OBVIOUS
  <1>2. \A i \in DOMAIN <<a, b, c, d>> : <<a, b, c, d>>[i] \in {a, b, c, d}
    OBVIOUS
  <1> QED
    BY <1>1, <1>2 DEF IsRun

LEMMA FiveChecks ==
  ASSUME NEW m, NEW a, NEW b, NEW c, NEW d, NEW e,
         IsCheck(a, m), IsCheck(b, m), IsCheck(c, m), IsCheck(d, m),
         IsCheck(e, m)
  PROVE  IsRun(<<a, b, c, d, e>>, m)
  <1>1. <<a, b, c, d, e>> \in Seq({a, b, c, d, e})
    OBVIOUS
  <1>2. \A i \in DOMAIN <<a, b, c, d, e>> : <<a, b, c, d, e>>[i] \in {a, b, c, d, e}
    OBVIOUS
  <1> QED
    BY <1>1, <1>2 DEF IsRun

LEMMA SixChecks ==
  ASSUME NEW m, NEW a, NEW b, NEW c, NEW d, NEW e, NEW f,
         IsCheck(a, m), IsCheck(b, m), IsCheck(c, m), IsCheck(d, m),
         IsCheck(e, m), IsCheck(f, m)
  PROVE  IsRun(<<a, b, c, d, e, f>>, m)
  <1>1. <<a, b, c, d, e, f>> \in Seq({a, b, c, d, e, f})
    OBVIOUS
  <1>2. \A i \in DOMAIN <<a, b, c, d, e, f>> : <<a, b, c, d, e, f>>[i] \in {a, b, c, d, e, f}
    OBVIOUS
  <1> QED
    BY <1>1, <1>2 DEF IsRun

LEMMA EightChecks ==
  ASSUME NEW m, NEW a, NEW b, NEW c, NEW d, NEW e, NEW f, NEW g, NEW h,
         IsCheck(a, m), IsCheck(b, m), IsCheck(c, m), IsCheck(d, m),
         IsCheck(e, m), IsCheck(f, m), IsCheck(g, m), IsCheck(h, m)
  PROVE  IsRun(<<a, b, c, d, e, f, g, h>>, m)
  <1>1. <<a, b, c, d, e, f, g, h>> \in Seq({a, b, c, d, e, f, g, h})
    OBVIOUS
  <1>2. \A i \in DOMAIN <<a, b, c, d, e, f, g, h>> :
          <<a, b, c, d, e, f, g, h>>[i] \in {a, b, c, d, e, f, g, h}
    OBVIOUS
  <1> QED
    BY <1>1, <1>2 DEF IsRun

LEMMA JoinedChecks ==
  ASSUME NEW m, NEW c, NEW d, IsCheck(c, m), IsCheck(d, m)
  PROVE  IsCheck(c \o d, m)
  <1>1. PICK S, T : c \in Seq(S) /\ d \in Seq(T)
    BY DEF IsCheck
  <1>2. c \in Seq(S \cup T) /\ d \in Seq(S \cup T)
    BY <1>1
  <1>3. c \o d \in Seq(S \cup T)
    BY <1>2
  <1>4. \A i \in DOMAIN (c \o d) : IsStep((c \o d)[i], m)
    BY <1>2 DEF IsCheck
  <1> QED
    BY <1>3, <1>4 DEF IsCheck

(* The numbers of the table, for Zenon.                                    *)
LEMMA Numerals ==
  \A n \in {1, 2, 3, 4, 5, 6, 8, 10, 12, 14} : n \in Nat /\ n > 0
  OBVIOUS

(* Any loop of requests that nothing else is said about.                   *)
LEMMA PlainSteps ==
  ASSUME NEW m, NEW n \in Nat, n > 0, NEW title
  PROVE  IsStep(Requests(n, title), m) /\ IsStep(OfBase(Requests(n, title)), m)
  BY DEF IsStep, IsLoop, How, Via, Requests, OfBase

LEMMA JobSteps ==
  ASSUME NEW m, NEW title
  PROVE  IsStep(Job(title), m) /\ IsStep(Always(title), m)
  BY DEF IsStep, IsLoop, How, Via, Requests, Job, Always

LEMMA HandshakeSteps ==
  ASSUME NEW n \in Nat, n > 0, NEW title, NEW secs \in Nat, secs > 0
  PROVE  /\ IsStep(Handshakes(n, title, secs), "cert")
         /\ IsStep([Handshakes(n, title, secs) EXCEPT !.lost = "return",
                                                       !.failed = CertErrors], "cert")
  <1>1. IsStep(Handshakes(n, title, secs), "cert")
    BY DEF Handshakes, Requests, IsStep, IsLoop, How, Via
  <1>2. IsStep([Handshakes(n, title, secs) EXCEPT !.lost = "return",
                                                  !.failed = CertErrors], "cert")
    BY DEF Handshakes, CertErrors, Failures, Requests, IsStep, IsLoop, How, Via
  <1> QED
    BY <1>1, <1>2

LEMMA CertSteps == IsRun(CertRun, "cert")
  <1>1. IsCheck(AnalyzeTLS, "cert")
    BY HandshakeSteps, Numerals, OneStep, Zenon DEF AnalyzeTLS
  <1>2. IsCheck(CheckCipherSuites, "cert")
    BY HandshakeSteps, Numerals, TwoSteps, Zenon DEF CheckCipherSuites
  <1> QED
    BY <1>1, <1>2, TwoChecks DEF CertRun

LEMMA CrawlerSteps ==
  ASSUME NEW j
  PROVE  IsRun(CrawlerRun(j), "crawler")
  <1> DEFINE m == "crawler"
  <1>1. IsStep(Parse("panic"), m)
    BY DEF Parse, Requests, IsStep, IsLoop, How, Via
  <1>2. IsInner(TestSpecEndpoints(j))
    BY ChecksAssumption
       DEF ChecksAssumption, TestSpecEndpoints, OfBase, Requests, IsInner, IsLoop, How, Via
  <1>3. IsStep([OfBase(Requests(14, "specification")) EXCEPT !.inner = <<TestSpecEndpoints(j)>>], m)
    <2> DEFINE s == [OfBase(Requests(14, "specification"))
                       EXCEPT !.inner = <<TestSpecEndpoints(j)>>]
    <2>1. s.inner = <<TestSpecEndpoints(j)>>
      BY DEF OfBase, Requests
    <2>2. Len(s.inner) = 1 /\ s.inner # <<>> /\ IsInner(s.inner[1])
      BY <1>2, <2>1
    <2>3. /\ s.n > 0 /\ IsLoop(s) /\ s.via = "base" /\ s.unbuilt = "next"
          /\ s.failed = {""} /\ s.absent = "" /\ s.bound
      BY DEF OfBase, Requests, IsLoop, How, Via
    <2>4. IsStep(s, m)
      <3> HIDE DEF s
      <3> QED
        BY <2>2, <2>3 DEF IsStep
    <2> QED
      BY <2>4
  <1>4. IsCheck(DiscoverSpecFiles(j), m)
    BY <1>1, <1>3, TwoSteps, Zenon DEF DiscoverSpecFiles
  <1>5. IsCheck(CrawlOpenAPIEndpoints, m)
    BY NoStep, Zenon DEF CrawlOpenAPIEndpoints
  <1>6. IsCheck(CheckGraphQL, m) /\ IsCheck(DiscoverCommonPaths, m)
    BY <1>1, PlainSteps, Numerals, TwoSteps, Zenon DEF CheckGraphQL, DiscoverCommonPaths
  <1> QED
    BY <1>4, <1>5, <1>6, FourChecks DEF CrawlerRun

LEMMA FuzzerSteps == IsRun(FuzzerRun, "fuzzer")
  <1> DEFINE m == "fuzzer"
             n == FuzzPayloads * (IF QueryParams = 0 THEN 2 ELSE QueryParams)
  <1>1. IsStep(Parse("panic"), m) /\ IsStep(Parse("return"), m)
    BY DEF Parse, Requests, IsStep, IsLoop, How, Via
  <1>2. n \in Nat /\ n > 0 /\ 10 * 9 \in Nat /\ 10 * 9 > 0 /\ 2 * 7 \in Nat /\ 2 * 7 > 0
    BY ChecksAssumption DEF ChecksAssumption, FuzzPayloads
  <1>3. IsCheck(FuzzQueryParams, m)
    <2>1. IsStep(Requests(n, "query parameter"), m)
      BY <1>2, PlainSteps
    <2> QED
      BY <1>1, <2>1, TwoSteps, Zenon DEF FuzzQueryParams
  <1>4. IsCheck(FuzzPathParams, m)
    BY <1>1, PlainSteps, Numerals, TwoSteps, Zenon DEF FuzzPathParams
  <1>5. IsCheck(FuzzJSONBody, m) /\ IsCheck(CheckMassAssignment, m)
    BY <1>2, PlainSteps, OneStep, Zenon DEF FuzzJSONBody, CheckMassAssignment
  <1>6. IsCheck(FuzzHeaders, m)
    BY PlainSteps, Numerals, TwoSteps, Zenon DEF FuzzHeaders
  <1> QED
    BY <1>3, <1>4, <1>5, <1>6, FiveChecks DEF FuzzerRun

LEMMA VulnSteps ==
  ASSUME NEW j
  PROVE  IsRun(VulnRun(j), "vuln")
  <1> DEFINE m == "vuln"
  <1>1. IsCheck(VulnAccessControl, m)
    <2> DEFINE a == Parse("return")
               b == [OfBase(Requests(8, "open resource")) EXCEPT !.unbuilt = "panic"]
               c == [Requests(1, "TRACE") EXCEPT !.unbuilt = "panic"]
               d == [Requests(1, "") EXCEPT !.unbuilt = "panic"]
    <2>1. IsStep(a, m) /\ IsStep(b, m)
      BY DEF Parse, OfBase, Requests, IsStep, IsLoop, How, Via
    <2>2. IsStep(c, m) /\ IsStep(d, m)
      BY DEF Requests, IsStep, IsLoop, How, Via
    <2>3. IsCheck(<<a, b, c, d>>, m)
      <3> HIDE DEF a, b, c, d
      <3> QED
        BY <2>1, <2>2, FourSteps
    <2> QED
      BY <2>3 DEF VulnAccessControl
  <1>2. IsCheck(VulnCryptoFailures, m)
    <2>1. IsStep(Parse("return"), m)
      BY DEF Parse, Requests, IsStep, IsLoop, How, Via
    <2> QED
      BY <2>1, JobSteps, TwoSteps, Zenon DEF VulnCryptoFailures
  <1>3. IsCheck(VulnInjection, m)
    <2> DEFINE a == [Requests(3, "reflected script") EXCEPT !.hit = "stop", !.unbuilt = "panic"]
               b == [Requests(2, "NoSQL injection") EXCEPT !.hit = "stop"]
               c == Requests(4, "request forgery")
    <2>1. IsStep(a, m) /\ IsStep(b, m) /\ IsStep(c, m)
      BY DEF Requests, IsStep, IsLoop, How, Via
    <2>2. IsCheck(<<a, b, c>>, m)
      <3> HIDE DEF a, b, c
      <3> QED
        BY <2>1, ThreeSteps
    <2> QED
      BY <2>2 DEF VulnInjection
  <1>4. IsCheck(VulnMisconfiguration, m)
    <2>1. IsStep([Requests(1, "debug mode") EXCEPT !.lost = "return", !.unbuilt = "panic"], m)
      BY DEF Requests, IsStep, IsLoop, How, Via
    <2> QED
      BY <2>1, OneStep, Zenon DEF VulnMisconfiguration
  <1>5. IsCheck(VulnOutdatedComponents, m)
    <2>1. IsStep([Requests(1, "end of life") EXCEPT !.lost = "return", !.unbuilt = "panic"], m)
      BY DEF Requests, IsStep, IsLoop, How, Via
    <2> QED
      BY <2>1, OneStep, Zenon DEF VulnOutdatedComponents
  <1>6. IsCheck(VulnAuthFailures, m)
    <2>1. IsStep([Requests(5, "") EXCEPT !.hit = "stop", !.lost = "stop", !.unbuilt = "stop",
                                         !.absent = "no rate limiting"], m)
      BY DEF Requests, IsStep, IsLoop, How, Via
    <2> QED
      BY <2>1, PlainSteps, Numerals, TwoSteps, Zenon DEF VulnAuthFailures
  <1>7. IsCheck(VulnInfoDisclosure, m)
    BY PlainSteps, Numerals, OneStep, Zenon DEF VulnInfoDisclosure
  <1>8. IsCheck(RunNuclei(j), m)
    <2>1. IsStep([Requests(1, "template match") EXCEPT !.secs = 300], m)
      BY DEF Requests, IsStep, IsLoop, How, Via
    <2> QED
      BY <2>1, NoStep, OneStep, Zenon DEF RunNuclei, If
  <1> QED
    BY <1>1, <1>2, <1>3, <1>4, <1>5, <1>6, <1>7, <1>8, EightChecks DEF VulnRun

LEMMA AuthSteps ==
  ASSUME NEW j
  PROVE  IsRun(AuthRun(j), "auth")
  <1> DEFINE m == "auth"
  <1>1. IsCheck(AuthJWT(j), m)
    <2>1. IsCheck(<<Requests(1, "unsigned token")>>, m)
      BY PlainSteps, Numerals, OneStep, Zenon
    <2>2. IsCheck(If(j.bearer = "RS256", <<Requests(1, "algorithm confusion")>>), m)
      BY PlainSteps, Numerals, NoStep, OneStep, Zenon DEF If
    <2>3. IsCheck(<<Job("sensitive claim"), Job("token expiry")>>, m)
      BY JobSteps, TwoSteps, Zenon
    <2>4. IsCheck(<<Requests(1, "unsigned token")>>
                    \o If(j.bearer = "RS256", <<Requests(1, "algorithm confusion")>>)
                    \o <<Job("sensitive claim"), Job("token expiry")>>, m)
      BY <2>1, <2>2, <2>3, JoinedChecks, Zenon
    <2> QED
      BY <2>4, NoStep, Zenon DEF AuthJWT, If
  <1>2. IsCheck(AuthIDOR, m)
    <2>1. IsStep([Requests(2, "object reference") EXCEPT !.secs = 40], m)
      BY DEF Requests, IsStep, IsLoop, How, Via
    <2> QED
      BY <2>1, OneStep, Zenon DEF AuthIDOR
  <1>3. IsCheck(AuthOAuth, m)
    <2> DEFINE t == Requests(1, "open redirect")
               s == [Requests(4, "") EXCEPT !.inner = <<t>>]
    <2>1. IsInner(t)
      BY ChecksAssumption DEF ChecksAssumption, Requests, IsInner, IsLoop, How, Via
    <2>2. s.inner = <<t>>
      BY DEF Requests
    <2>3. Len(s.inner) = 1 /\ s.inner # <<>> /\ IsInner(s.inner[1])
      <3> HIDE DEF s, t
      <3> QED
        BY <2>1, <2>2
    <2>4. /\ s.n > 0 /\ IsLoop(s) /\ s.via = "target" /\ s.unbuilt = "next"
          /\ s.failed = {""} /\ s.absent = "" /\ s.bound
      BY DEF Requests, IsLoop, How, Via
    <2>5. IsStep(s, m)
      <3> HIDE DEF s, t
      <3> QED
        BY <2>3, <2>4 DEF IsStep
    <2> QED
      BY <2>5, OneStep, Zenon DEF AuthOAuth
  <1>4. IsCheck(AuthPrivilegeEscalation, m)
    BY PlainSteps, Numerals, OneStep, Zenon DEF AuthPrivilegeEscalation
  <1>5. IsCheck(AuthSessionManagement, m)
    <2>1. IsStep([Requests(1, "cookie flag") EXCEPT !.lost = "return", !.unbuilt = "return"], m)
      BY DEF Requests, IsStep, IsLoop, How, Via
    <2> QED
      BY <2>1, OneStep, Zenon DEF AuthSessionManagement
  <1> QED
    BY <1>1, <1>2, <1>3, <1>4, <1>5, FiveChecks DEF AuthRun

LEMMA AssetSteps == IsRun(AssetRun, "asset")
  <1> DEFINE m == "asset"
  <1>1. IsCheck(CheckDNS, m)
    <2> DEFINE Lookup(title) == [Requests(1, title) EXCEPT !.via = "dns", !.secs = 5]
               a == [Lookup("addresses") EXCEPT !.failed = {"resolution failed"}, !.lost = "return"]
               b == Lookup("mail exchangers")
               c == Lookup("permissive SPF")
    <2>1. IsStep(a, m)
      BY DEF Requests, IsStep, IsLoop, How, Via, Failures
    <2>2. IsStep(b, m) /\ IsStep(c, m)
      BY DEF Requests, IsStep, IsLoop, How, Via
    <2>3. IsCheck(<<a, b, c>>, m)
      <3> HIDE DEF a, b, c
      <3> QED
        BY <2>1, <2>2, ThreeSteps
    <2> QED
      BY <2>3 DEF CheckDNS
  <1>2. IsCheck(ScanPorts, m)
    <2>1. IsStep(RunNmap, m) /\ IsStep(TcpProbePorts, m)
      BY DEF RunNmap, TcpProbePorts, Requests, IsStep, IsLoop, How, Via
    <2> QED
      BY <2>1, TwoSteps, Zenon DEF ScanPorts
  <1>3. IsCheck(FingerprintHTTP, m)
    <2>1. IsStep([Requests(1, "headers") EXCEPT !.secs = 15, !.lost = "return",
                                                !.unbuilt = "return"], m)
      BY DEF Requests, IsStep, IsLoop, How, Via
    <2>2. IsStep([Requests(13, "sensitive path") EXCEPT !.secs = 15], m)
      BY DEF Requests, IsStep, IsLoop, How, Via
    <2> QED
      BY <2>1, <2>2, TwoSteps, Zenon DEF FingerprintHTTP
  <1>4. IsCheck(CheckTLSPresence, m)
    <2>1. IsStep([Requests(1, "plain HTTP") EXCEPT !.via = "http", !.secs = 5], m)
      BY DEF Requests, IsStep, IsLoop, How, Via
    <2> QED
      BY <2>1, OneStep, Zenon DEF CheckTLSPresence
  <1> QED
    BY <1>1, <1>2, <1>3, <1>4, FourChecks DEF AssetRun

LEMMA PciSteps ==
  ASSUME NEW j
  PROVE  IsRun(PciRun(j), "pci")
  <1> DEFINE m == "pci"
  <1>1. ASSUME NEW n \in Nat, n > 0, NEW title
        PROVE  /\ IsStep(PciRequests(n, title), m)
               /\ IsStep([PciRequests(n, title) EXCEPT !.lost = "return", !.unbuilt = "return"], m)
    <2>1. IsStep(PciRequests(n, title), m)
      BY <1>1 DEF PciRequests, Requests, IsStep, IsLoop, How, Via
    <2>2. IsStep([PciRequests(n, title) EXCEPT !.lost = "return", !.unbuilt = "return"], m)
      BY <1>1 DEF PciRequests, Requests, IsStep, IsLoop, How, Via
    <2> QED
      BY <2>1, <2>2
  <1>2. IsCheck(PciEncryption(j), m)
    <2>1. IsCheck(If(j.target.scheme = "http", <<Always("HTTP target")>>), m)
      BY JobSteps, NoStep, OneStep, Zenon DEF If
    <2>2. IsStep([Requests(1, "old TLS") EXCEPT !.via = "tls", !.secs = 0, !.bound = FALSE], m)
      BY DEF Requests, IsStep, IsLoop, How, Via
    <2>3. IsCheck(<<[Requests(1, "old TLS") EXCEPT !.via = "tls", !.secs = 0, !.bound = FALSE]>>, m)
      BY <2>2, OneStep, Zenon
    <2> QED
      BY <2>1, <2>3, JoinedChecks, Zenon DEF PciEncryption
  <1>3. IsCheck(PciCardholderData, m) /\ IsCheck(PciSecurityHeaders, m)
    BY <1>1, Numerals, OneStep, Zenon DEF PciCardholderData, PciSecurityHeaders
  <1>4. IsCheck(PciInjection, m) /\ IsCheck(PciErrorHandling, m)
    BY <1>1, Numerals, OneStep, Zenon DEF PciInjection, PciErrorHandling
  <1>5. IsCheck(PciAuthentication(j), m)
    <2> DEFINE token == j.bearer # ""
    <2>1. IsCheck(If(j.target.scheme = "http" /\ token, <<Always("token over HTTP")>>), m)
      BY JobSteps, NoStep, OneStep, Zenon DEF If
    <2>2. IsCheck(<<PciRequests(1, IF token THEN "open endpoint" ELSE "")>>, m)
      BY <1>1, Numerals, OneStep, Zenon
    <2> QED
      BY <2>1, <2>2, JoinedChecks, Zenon DEF PciAuthentication
  <1> QED
    BY <1>2, <1>3, <1>4, <1>5, SixChecks DEF PciRun

LEMMA ComplianceSteps ==
  ASSUME NEW j
  PROVE  IsRun(ComplianceRun(j), "compliance")
  <1> DEFINE m == "compliance"
  <1>1. IsCheck(CheckHIPAARequirements(j), m)
    <2>1. IsCheck(If(j.bearer = "", <<Job("HIPAA access control")>>), m)
      BY JobSteps, NoStep, OneStep, Zenon DEF If
    <2>2. IsCheck(If(j.target.scheme = "http", <<Always("HIPAA transmission")>>), m)
      BY JobSteps, NoStep, OneStep, Zenon DEF If
    <2> QED
      BY <2>1, <2>2, JoinedChecks, Zenon DEF CheckHIPAARequirements
  <1>2. IsCheck(CheckSOC2Requirements(j), m)
    BY JobSteps, NoStep, TwoSteps, Zenon DEF CheckSOC2Requirements, If
  <1>3. IsCheck(GeneratePostureSummary, m)
    BY JobSteps, OneStep, Zenon DEF GeneratePostureSummary
  <1> QED
    BY <1>1, <1>2, <1>3, ThreeChecks DEF ComplianceRun

LEMMA PassiveSteps ==
  ASSUME NEW j
  PROVE  IsRun(PassiveRun(j), "passive")
  <1>1. IsCheck(AnalyzeHAR(j), "passive") /\ IsCheck(CheckLiveEndpoint, "passive")
    BY JobSteps, NoStep, OneStep, TwoSteps, Zenon DEF AnalyzeHAR, CheckLiveEndpoint, If
  <1> QED
    BY <1>1, OneCheck DEF PassiveRun

(* The whole table.                                                        *)
LEMMA ChecksSteps ==
  ASSUME NEW j, j.module \in Modules
  PROVE  IsRun(Checks(j), j.module)
  BY AssetSteps, AuthSteps, CertSteps, ComplianceSteps, CrawlerSteps, FuzzerSteps, PassiveSteps,
     PciSteps, VulnSteps DEF Checks, Modules

---------------------------------------------------------------------------
(* Where a run can be.                                                     *)
RunState ==
  [pc : Ended \cup Probing \cup {"taken", "settled", "check", "step"}, check : Nat \ {0},
   step : Nat, req : Nat, inner : Nat, tested : Nat, told : BOOLEAN, heard : BOOLEAN]

(* A loop of the module's checks, and within its inner loop.               *)
Placed(j, r) ==
  /\ r.check \in DOMAIN Checks(j) /\ r.step \in DOMAIN Checks(j)[r.check]
  /\ LET outer == Checks(j)[r.check][r.step] IN
     /\ r.req \in 1..outer.n
     /\ r.inner > 0 => outer.inner # <<>> /\ r.inner <= outer.inner[1].n
  /\ r.tested <= MaxTested

(* The types of all but the run.                                           *)
Surroundings ==
  /\ typed \in Typed
  /\ job \in [module : Modules \cup {"unknown"}, target : Target, bearer : Bearer \cup {""},
              nuclei : BOOLEAN]
  /\ \A f \in found : f.basis \in {"job", "answer", "failure", "nothing"}
  /\ host \in {"answers", "refuses", "mute"} /\ serves \subseteq {"http", "https"}
  /\ over \in BOOLEAN /\ late \in Nat /\ steady \in BOOLEAN

ModulesInv ==
  /\ Surroundings
  /\ run \in RunState
  /\ run.pc \in Probing \cup {"settled", "check", "step"} => job.module \in Modules
  /\ run.pc = "step" => Placed(job, run)
  /\ FindingsRest /\ OnlyTargetEndsRun

(* The table, for the job at hand.                                         *)
LEMMA TableFacts ==
  ASSUME NEW j, j.module \in Modules
  PROVE  /\ Len(Checks(j)) \in Nat /\ DOMAIN Checks(j) = 1..Len(Checks(j))
         /\ \A k \in DOMAIN Checks(j) :
              /\ Len(Checks(j)[k]) \in Nat /\ DOMAIN Checks(j)[k] = 1..Len(Checks(j)[k])
              /\ Checks(j)[k] # <<>> => 1 \in DOMAIN Checks(j)[k]
              /\ \A i \in DOMAIN Checks(j)[k] : IsStep(Checks(j)[k][i], j.module)
  <1>1. IsRun(Checks(j), j.module)
    BY ChecksSteps
  <1>2. PICK S : Checks(j) \in Seq(S)
    BY <1>1 DEF IsRun
  <1>3. Len(Checks(j)) \in Nat /\ DOMAIN Checks(j) = 1..Len(Checks(j))
    BY <1>2
  <1>4. ASSUME NEW k \in DOMAIN Checks(j)
        PROVE  /\ Len(Checks(j)[k]) \in Nat /\ DOMAIN Checks(j)[k] = 1..Len(Checks(j)[k])
               /\ Checks(j)[k] # <<>> => 1 \in DOMAIN Checks(j)[k]
               /\ \A i \in DOMAIN Checks(j)[k] : IsStep(Checks(j)[k][i], j.module)
    <2>1. IsCheck(Checks(j)[k], j.module)
      BY <1>1 DEF IsRun
    <2> DEFINE c == Checks(j)[k]
    <2>2. \A i \in DOMAIN c : IsStep(c[i], j.module)
      BY <2>1 DEF IsCheck
    <2>3. PICK T : c \in Seq(T)
      BY <2>1 DEF IsCheck
    <2>4. Len(c) \in Nat /\ DOMAIN c = 1..Len(c) /\ (c # <<>> => 1 \in DOMAIN c)
      <3> HIDE DEF c
      <3> QED
        BY <2>3
    <2> QED
      BY <2>2, <2>4
  <1> QED
    BY <1>3, <1>4

(* The loop that is under way.                                             *)
LEMMA AtStep ==
  ASSUME ModulesInv, run.pc = "step"
  PROVE  /\ job.module \in Modules
         /\ IsStep(Outer, job.module)
         /\ run.inner = 0 => Step = Outer
         /\ run.inner > 0 => IsInner(Step) /\ run.inner <= Step.n /\ Step = Outer.inner[1]
         /\ IsLoop(Step)
         /\ Step.unbuilt = "panic" =>
              \/ Step.via \in {"parse", "target"} /\ job.module \in {"vuln", "crawler", "fuzzer"}
              \/ Step.via = "base" /\ job.module = "vuln"
         /\ Step.failed \subseteq Failures \cup {""}
         /\ Step.absent \in {"", "no rate limiting"}
         /\ Step.via = "parse" => Step.title = "" /\ Step.absent = "" /\ Step.inner = <<>>
         /\ Step.via = "tool" => Step.title = "network scan"
         /\ Step.inner # <<>> =>
              /\ run.inner = 0 /\ Outer.inner # <<>> /\ Step = Outer
              /\ IsInner(Step.inner[1])
  <1>1. job.module \in Modules /\ run \in RunState
    BY DEF ModulesInv
  <1>2. /\ run.check \in DOMAIN Checks(job) /\ run.step \in DOMAIN Checks(job)[run.check]
        /\ run.inner > 0 => Outer.inner # <<>> /\ run.inner <= Outer.inner[1].n
    BY DEF ModulesInv, Placed, Outer
  <1>3. IsStep(Outer, job.module)
    BY <1>1, <1>2, TableFacts DEF Outer
  <1>4. CASE run.inner > 0
    <2>1. Step = Outer.inner[1]
      BY <1>4 DEF Step
    <2>2. IsInner(Step)
      BY <1>2, <1>3, <1>4, <2>1 DEF IsStep
    <2>3. ~(run.inner = 0) /\ run.inner <= Step.n
      BY <1>1, <1>2, <1>4, <2>1 DEF RunState
    <2>4. /\ IsLoop(Step) /\ Step.via \in {"target", "base"} /\ Step.unbuilt = "next"
          /\ Step.failed = {""} /\ Step.absent = "" /\ Step.inner = <<>>
      BY <2>2 DEF IsInner
    <2> QED
      BY <1>1, <1>3, <2>1, <2>2, <2>3, <2>4
  <1>5. CASE ~(run.inner > 0)
    <2>1. Step = Outer /\ run.inner = 0
      BY <1>1, <1>5 DEF Step, RunState
    <2> QED
      BY <1>1, <1>3, <1>5, <2>1 DEF IsStep
  <1> QED
    BY <1>4, <1>5

(* The four places a request can lead to.                                  *)
LEMMA AfterCases ==
  ASSUME ModulesInv, run.pc = "step",
         NEW how, NEW tested \in Nat, NEW told \in BOOLEAN, NEW heard \in BOOLEAN
  PROVE  LET r == After(how, tested, told, heard) IN
         /\ r \in RunState
         /\ \/ /\ r.pc = "step" /\ r.check = run.check /\ r.step = run.step
               /\ r.req = run.req /\ r.inner = run.inner + 1 /\ r.tested = tested
               /\ run.inner > 0 /\ r.inner <= Step.n /\ tested < MaxTested
            \/ r.pc = "check" /\ r.check = run.check + 1
            \/ /\ r.pc = "step" /\ r.check = run.check /\ r.step = run.step + 1
               /\ run.step < Len(Checks(job)[run.check])
               /\ r.req = 1 /\ r.inner = 0 /\ r.tested = 0
            \/ /\ r.pc = "step" /\ r.check = run.check /\ r.step = run.step
               /\ r.req = run.req + 1 /\ run.req < Outer.n /\ how # "return"
               /\ r.inner = 0 /\ r.tested = 0
  <1> DEFINE r == After(how, tested, told, heard)
  <1>1. run \in RunState /\ Placed(job, run)
    BY DEF ModulesInv
  <1>2. /\ run.check \in Nat \ {0} /\ run.step \in Nat /\ run.req \in Nat /\ run.inner \in Nat
        /\ run = [pc |-> "step", check |-> run.check, step |-> run.step, req |-> run.req,
                  inner |-> run.inner, tested |-> run.tested, told |-> run.told,
                  heard |-> run.heard]
    BY <1>1 DEF RunState
  <1>3. IsLoop(Step) /\ IsLoop(Outer)
    BY AtStep DEF IsStep
  <1>4. CASE InnerGoesOn(tested)
    <2>1. r = [run EXCEPT !.inner = @ + 1, !.tested = tested]
      BY <1>4 DEF After
    <2>2. r = [pc |-> "step", check |-> run.check, step |-> run.step, req |-> run.req,
               inner |-> run.inner + 1, tested |-> tested, told |-> run.told,
               heard |-> run.heard]
      BY <1>2, <2>1
    <2>3. r \in RunState
      BY <1>1, <1>2, <2>2 DEF RunState
    <2>4. run.inner > 0 /\ run.inner + 1 <= Step.n /\ tested < MaxTested
      BY <1>2, <1>3, <1>4 DEF InnerGoesOn, IsLoop
    <2> QED
      BY <2>2, <2>3, <2>4
  <1>5. CASE ~InnerGoesOn(tested) /\
             (how = "return" \/ (LoopEnds(how) /\ run.step = Len(Checks(job)[run.check])))
    <2>1. r = [pc |-> "check", check |-> run.check + 1, step |-> 1, req |-> 1, inner |-> 0,
               tested |-> 0, told |-> FALSE, heard |-> FALSE]
      BY <1>5 DEF After, At
    <2>2. r \in RunState
      BY <1>2, <2>1 DEF RunState
    <2> QED
      BY <2>1, <2>2
  <1>6. CASE ~InnerGoesOn(tested) /\ how # "return" /\ LoopEnds(how)
             /\ run.step # Len(Checks(job)[run.check])
    <2>1. r = [pc |-> "step", check |-> run.check, step |-> run.step + 1, req |-> 1,
               inner |-> 0, tested |-> 0, told |-> FALSE, heard |-> FALSE]
      BY <1>2, <1>6 DEF After, At
    <2>2. r \in RunState
      BY <1>2, <2>1 DEF RunState
    <2>3. run.step < Len(Checks(job)[run.check])
      <3>1. run.step \in 1..Len(Checks(job)[run.check]) /\ Len(Checks(job)[run.check]) \in Nat
        BY <1>1, AtStep, TableFacts DEF Placed
      <3> QED
        BY <1>6, <3>1
    <2> QED
      BY <2>1, <2>2, <2>3
  <1>7. CASE ~InnerGoesOn(tested) /\ how # "return" /\ ~LoopEnds(how)
    <2>1. r = [pc |-> "step", check |-> run.check, step |-> run.step, req |-> run.req + 1,
               inner |-> 0, tested |-> 0, told |-> told, heard |-> heard]
      BY <1>2, <1>7 DEF After, At
    <2>2. r \in RunState
      <3> HIDE DEF r
      <3> QED
        BY <1>2, <2>1 DEF RunState
    <2>3. /\ r.pc = "step" /\ r.check = run.check /\ r.step = run.step /\ r.req = run.req + 1
          /\ r.inner = 0 /\ r.tested = 0
      <3> HIDE DEF r
      <3> QED
        BY <2>1
    <2>4. run.req < Outer.n
      BY <1>1, <1>2, <1>3, <1>7 DEF LoopEnds, Placed, Outer, IsLoop
    <2> QED
      BY <1>7, <2>2, <2>3, <2>4
  <1> QED
    BY <1>4, <1>5, <1>6, <1>7

LEMMA AfterPlaced ==
  ASSUME ModulesInv, run.pc = "step",
         NEW how, NEW tested \in Nat, NEW told \in BOOLEAN, NEW heard \in BOOLEAN
  PROVE  LET r == After(how, tested, told, heard) IN
         r \in RunState /\ r.pc \in {"check", "step"} /\ (r.pc = "step" => Placed(job, r))
  <1> DEFINE r == After(how, tested, told, heard)
  <1>1. run \in RunState /\ Placed(job, run) /\ job.module \in Modules
    BY DEF ModulesInv
  <1>2. MaxTested \in Nat
    BY ScanModulesAssumption DEF ScanModulesAssumption
  <1>3. r \in RunState /\ r.pc \in {"check", "step"}
    BY AfterCases
  <1>4. CASE /\ r.pc = "step" /\ r.check = run.check /\ r.step = run.step
             /\ r.req = run.req /\ r.inner = run.inner + 1 /\ r.tested = tested
             /\ run.inner > 0 /\ r.inner <= Step.n /\ tested < MaxTested
    <2>1. Step = Outer.inner[1] /\ Outer.inner # <<>>
      BY <1>1, <1>4, AtStep DEF Placed, Outer
    <2>2. Placed(job, r)
      <3> HIDE DEF r
      <3> QED
        BY <1>1, <1>2, <1>3, <1>4, <2>1 DEF Placed, Outer
    <2> QED
      BY <1>3, <2>2
  <1>5. CASE /\ r.pc = "step" /\ r.check = run.check /\ r.step = run.step + 1
             /\ run.step < Len(Checks(job)[run.check])
             /\ r.req = 1 /\ r.inner = 0 /\ r.tested = 0
    <2>1. /\ run.step \in Nat
          /\ run.step + 1 \in DOMAIN Checks(job)[run.check]
      BY <1>1, <1>5, TableFacts DEF Placed, RunState
    <2>2. IsStep(Checks(job)[run.check][run.step + 1], job.module)
      <3>1. run.check \in DOMAIN Checks(job)
        BY <1>1 DEF Placed
      <3> QED
        BY <1>1, <2>1, <3>1, TableFacts
    <2>3. 1 \in 1..Checks(job)[run.check][run.step + 1].n
      <3>1. /\ Checks(job)[run.check][run.step + 1].n \in Nat
            /\ Checks(job)[run.check][run.step + 1].n > 0
        BY <2>2 DEF IsStep, IsLoop
      <3> QED
        BY <3>1
    <2>4. Placed(job, r)
      <3> HIDE DEF r
      <3> QED
        BY <1>1, <1>2, <1>3, <1>5, <2>1, <2>3 DEF Placed
    <2> QED
      BY <1>3, <2>4
  <1>6. CASE /\ r.pc = "step" /\ r.check = run.check /\ r.step = run.step
             /\ r.req = run.req + 1 /\ run.req < Outer.n
             /\ r.inner = 0 /\ r.tested = 0
    <2>1. Outer.n \in Nat
      BY AtStep DEF IsStep, IsLoop
    <2>2. run.req + 1 \in 1..Outer.n
      BY <1>1, <1>6, <2>1 DEF RunState
    <2>3. Placed(job, r)
      <3> HIDE DEF r
      <3> QED
        BY <1>1, <1>2, <1>3, <1>6, <2>2 DEF Placed, Outer
    <2> QED
      BY <1>3, <2>3
  <1> QED
    BY <1>3, <1>4, <1>5, <1>6, AfterCases

LEMMA ModulesTypes ==
  ASSUME ModulesInv
  PROVE  TypeOK
  <1>1. run.pc \in Ended \cup Probing \cup {"taken", "settled", "check", "step"}
    BY DEF ModulesInv, RunState
  <1>2. ASSUME run.pc = "step"
        PROVE  /\ run.check \in DOMAIN Checks(job) /\ run.step \in DOMAIN Checks(job)[run.check]
               /\ run.req \in 1..Outer.n /\ run.inner \in 0..SpecEndpoints + 1
               /\ run.tested \in 0..MaxTested
               /\ run.told \in BOOLEAN /\ run.heard \in BOOLEAN
    <2>1. run \in RunState /\ Placed(job, run)
      BY <1>2 DEF ModulesInv
    <2>2. run.inner \in Nat /\ run.tested \in Nat /\ run.tested <= MaxTested
      BY <2>1 DEF RunState, Placed
    <2>3. run.inner \in 0..SpecEndpoints + 1
      <3>1. CASE run.inner > 0
        <4>1. run.inner <= Step.n /\ IsInner(Step)
          BY <1>2, <3>1, AtStep
        <4>2. Step.n \in Nat /\ Step.n <= SpecEndpoints + 1
          BY <4>1 DEF IsInner, IsLoop
        <4> QED
          BY <2>2, <4>1, <4>2, ChecksAssumption DEF ChecksAssumption
      <3> QED
        BY <2>2, <3>1, ChecksAssumption DEF ChecksAssumption
    <2>4. MaxTested \in Nat
      BY ScanModulesAssumption DEF ScanModulesAssumption
    <2>5. run.tested \in 0..MaxTested
      BY <2>2, <2>4
    <2> QED
      BY <2>1, <2>3, <2>5 DEF RunState, Placed, Outer
  <1> QED
    BY <1>1, <1>2 DEF TypeOK, ModulesInv, Surroundings

---------------------------------------------------------------------------
(* The steps keep ModulesInv                                               *)

LEMMA Normalized ==
  ASSUME NEW t \in Target
  PROVE  /\ NormalizeTarget(t) \in Target
         /\ NormalizeTarget(t).form = t.form /\ NormalizeTarget(t).port = t.port
         /\ t.form # "blank" => NormalizeTarget(t).scheme \in {"http", "https"}
         /\ HasScheme(t) => NormalizeTarget(t) = t
  BY DEF NormalizeTarget, HasScheme, Target

(* A run that is at none of its checks.                                    *)
LEMMA Elsewhere ==
  ASSUME NEW pc \in Ended \cup Probing \cup {"taken", "settled", "check", "step"}
  PROVE  At(pc) \in RunState /\ At(pc).pc = pc
  BY DEF At, RunState

LEMMA ModulesInvInit ==
  ASSUME Init
  PROVE  ModulesInv
  <1>1. NoJob.target \in Typed /\ NoJob.target \in Target
    BY ScanModulesAssumption DEF ScanModulesAssumption, NoJob
  <1>2. Surroundings
    BY <1>1 DEF Init, Surroundings, NoJob
  <1>3. run \in RunState /\ run.pc = "idle"
    BY Elsewhere DEF Init, Ended
  <1> QED
    BY <1>2, <1>3 DEF Init, ModulesInv, Probing, FindingsRest, OnlyTargetEndsRun

LEMMA TakeJobModules ==
  ASSUME ModulesInv, TakeJob
  PROVE  ModulesInv'
  <1>1. PICK m \in Modules \cup {"unknown"}, t \in Typed, b \in Bearer, n \in BOOLEAN :
          /\ typed' = t
          /\ job' = [module |-> m, target |-> QueuedTarget(t), bearer |-> b, nuclei |-> n]
    BY DEF TakeJob
  <1>2. QueuedTarget(t) \in Target
    BY ScanModulesAssumption, Normalized DEF ScanModulesAssumption, QueuedTarget
  <1>3. steady' \in BOOLEAN /\ serves' \subseteq {"http", "https"}
    BY DEF TakeJob
  <1>4. Surroundings'
    BY <1>1, <1>2, <1>3 DEF ModulesInv, Surroundings, TakeJob
  <1>5. run' \in RunState /\ run'.pc = "taken"
    BY Elsewhere DEF TakeJob
  <1> QED
    BY <1>4, <1>5 DEF TakeJob, ModulesInv, Probing, FindingsRest, OnlyTargetEndsRun

LEMMA UnknownModuleModules ==
  ASSUME ModulesInv, UnknownModule
  PROVE  ModulesInv'
  <1>1. run' \in RunState /\ run'.pc = "failed"
    BY Elsewhere DEF UnknownModule, Ended
  <1> QED
    BY <1>1 DEF UnknownModule, ModulesInv, Surroundings, Probing, FindingsRest, OnlyTargetEndsRun

LEMMA SettleModules ==
  ASSUME ModulesInv, Settle
  PROVE  ModulesInv'
  <1>1. job.target \in Target
    BY DEF ModulesInv, Surroundings
  <1>2. WorkerNormalizeTarget(job.target) \in Target
    BY <1>1, Normalized DEF WorkerNormalizeTarget
  <1>3. /\ job' \in [module : Modules \cup {"unknown"}, target : Target,
                     bearer : Bearer \cup {""}, nuclei : BOOLEAN]
        /\ job'.module \in Modules
    BY <1>2 DEF Settle, ModulesInv, Surroundings
  <1>4. run' \in RunState /\ run'.pc \in {"settled", "head"}
    BY Elsewhere DEF Settle, Probing
  <1> QED
    BY <1>3, <1>4 DEF Settle, ModulesInv, Surroundings, Ended, FindingsRest, OnlyTargetEndsRun

LEMMA ProbeAnsweredModules ==
  ASSUME ModulesInv, ProbeAnswered
  PROVE  ModulesInv'
  <1>1. job.target.form = "url" /\ ProbedScheme \in {"http", "https"}
    BY DEF ProbeAnswered, Serving, ModulesInv, Surroundings
  <1>2. [job.target EXCEPT !.scheme = ProbedScheme] \in Target
    BY <1>1 DEF ModulesInv, Surroundings, Target
  <1>3. /\ job' \in [module : Modules \cup {"unknown"}, target : Target,
                     bearer : Bearer \cup {""}, nuclei : BOOLEAN]
        /\ job'.module \in Modules
    BY <1>2 DEF ProbeAnswered, ModulesInv, Surroundings
  <1>4. run' \in RunState /\ run'.pc = "settled"
    BY Elsewhere DEF ProbeAnswered
  <1> QED
    BY <1>3, <1>4
       DEF ProbeAnswered, ModulesInv, Surroundings, Ended, FindingsRest, OnlyTargetEndsRun

LEMMA ProbeLostModules ==
  ASSUME ModulesInv, ProbeLost
  PROVE  ModulesInv'
  <1>1. run' \in RunState /\ run'.pc \in Probing \cup {"settled"}
    BY Elsewhere DEF ProbeLost, Probing
  <1> QED
    BY <1>1
       DEF ProbeLost, ModulesInv, Surroundings, Probing, Ended, FindingsRest, OnlyTargetEndsRun

LEMMA BeginModuleModules ==
  ASSUME ModulesInv, BeginModule
  PROVE  ModulesInv'
  <1>1. /\ run' \in RunState /\ run'.pc \in {"failed", "check"}
        /\ run'.pc = "failed" => job.target.form = "malformed" /\ job.module \in {"asset", "cert"}
    BY Elsewhere DEF BeginModule, Ended
  <1> QED
    BY <1>1
       DEF BeginModule, ModulesInv, Surroundings, Probing, Ended, FindingsRest, OnlyTargetEndsRun

LEMMA NextCheckModules ==
  ASSUME ModulesInv, NextCheck
  PROVE  ModulesInv'
  <1>1. run \in RunState /\ run.pc = "check" /\ job.module \in Modules
    BY DEF ModulesInv, NextCheck
  <1>2. Surroundings' /\ FindingsRest'
    BY DEF NextCheck, ModulesInv, Surroundings, FindingsRest
  <1>3. CASE run.check > Len(Checks(job))
    <2>1. run' = At("completed")
      BY <1>3 DEF NextCheck
    <2>2. run' \in RunState /\ run'.pc = "completed"
      BY <2>1, Elsewhere DEF Ended
    <2> QED
      BY <1>2, <2>2 DEF ModulesInv, Probing, OnlyTargetEndsRun
  <1>4. CASE ~(run.check > Len(Checks(job))) /\ Checks(job)[run.check] = <<>>
    <2>1. run' = [run EXCEPT !.check = @ + 1]
      BY <1>4 DEF NextCheck
    <2>2. run' \in RunState /\ run'.pc = "check"
      BY <1>1, <2>1 DEF RunState
    <2> QED
      BY <1>1, <1>2, <2>2 DEF NextCheck, ModulesInv, OnlyTargetEndsRun
  <1>5. CASE ~(run.check > Len(Checks(job))) /\ Checks(job)[run.check] # <<>>
    <2>1. run' = [At("step") EXCEPT !.check = run.check]
      BY <1>5 DEF NextCheck
    <2>2. run' = [pc |-> "step", check |-> run.check, step |-> 1, req |-> 1, inner |-> 0,
                  tested |-> 0, told |-> FALSE, heard |-> FALSE]
      BY <2>1 DEF At
    <2>3. run' \in RunState /\ run'.pc = "step" /\ run.check \in Nat \ {0}
      BY <1>1, <2>2 DEF RunState
    <2>4. run.check \in DOMAIN Checks(job)
      BY <1>1, <1>5, <2>3, TableFacts
    <2>5. 1 \in DOMAIN Checks(job)[run.check] /\ IsStep(Checks(job)[run.check][1], job.module)
      BY <1>1, <1>5, <2>4, TableFacts
    <2>6. 1 \in 1..Checks(job)[run.check][1].n
      <3>1. Checks(job)[run.check][1].n \in Nat /\ Checks(job)[run.check][1].n > 0
        BY <2>5 DEF IsStep, IsLoop
      <3> QED
        BY <3>1
    <2>7. job' = job /\ MaxTested \in Nat
      BY ScanModulesAssumption DEF ScanModulesAssumption, NextCheck
    <2>8. Placed(job, run')
      BY <2>2, <2>4, <2>5, <2>6, <2>7 DEF Placed
    <2> QED
      BY <1>1, <1>2, <2>3, <2>7, <2>8 DEF ModulesInv, OnlyTargetEndsRun
  <1> QED
    BY <1>3, <1>4, <1>5

(* A request, whatever has become of it, leaves the run at a request or    *)
(* between two checks; what it finds is as FindingsRest wants it.          *)
LEMMA RequestModules ==
  ASSUME ModulesInv, run.pc = "step", late' \in Nat,
         run' \in RunState, run'.pc \in {"check", "step"}, run'.pc = "step" => Placed(job, run'),
         UNCHANGED <<typed, job, host, serves, over, steady>>,
         NEW new, found' = found \cup new,
         \A f \in new : \/ f.basis \in {"job", "answer"}
                        \/ /\ f.basis = "nothing"
                           /\ f.title \in {"no rate limiting", "network scan"}
                        \/ f.basis = "failure" /\ f.title \in Failures
  PROVE  ModulesInv'
  <1>1. Surroundings'
    BY DEF ModulesInv, Surroundings
  <1>2. FindingsRest'
    BY DEF ModulesInv, FindingsRest, Failures
  <1>3. (run.pc = "step" => Placed(job, run))'
    OBVIOUS
  <1>4. job'.module \in Modules
    BY DEF ModulesInv
  <1>5. OnlyTargetEndsRun'
    BY DEF OnlyTargetEndsRun
  <1> QED
    BY <1>1, <1>2, <1>3, <1>4, <1>5 DEF ModulesInv

LEMMA FindingIs ==
  ASSUME NEW title, NEW basis, NEW f \in Finding(title, basis)
  PROVE  title # "" /\ f.title = title /\ f.basis = basis
  <1>1. title # "" /\ f = [title |-> title, basis |-> basis]
    BY DEF Finding
  <1> QED
    BY <1>1

LEMMA AbsenceRests ==
  ASSUME ModulesInv, run.pc = "step", NEW basis, NEW f \in Finding(Step.absent, basis)
  PROVE  f.title = "no rate limiting" /\ f.title = Step.absent /\ f.basis = basis
  <1>1. Step.absent # "" /\ f.title = Step.absent /\ f.basis = basis
    BY FindingIs
  <1>2. Step.absent \in {"", "no rate limiting"}
    BY AtStep
  <1> QED
    BY <1>1, <1>2

LEMMA PanicModules ==
  ASSUME ModulesInv, Panic
  PROVE  ModulesInv'
  <1>1. run' \in RunState /\ run'.pc = "crashed"
    BY Elsewhere DEF Panic, Ended
  <1>2. /\ Step.unbuilt = "panic" /\ ~Built
        /\ \/ Step.via \in {"parse", "target"} /\ job.module \in {"vuln", "crawler", "fuzzer"}
           \/ Step.via = "base" /\ job.module = "vuln"
    BY AtStep DEF Panic
  <1>3. job.target.form \in {"url", "har", "malformed", "blank"}
    BY DEF ModulesInv, Surroundings, Target
  <1>4. \/ job.target.form = "malformed" /\ job.module \in {"vuln", "crawler", "fuzzer"}
        \/ job.target.form = "blank" /\ job.module = "vuln"
    BY <1>2, <1>3 DEF Built
  <1>5. OnlyTargetEndsRun'
    BY <1>1, <1>4 DEF Panic, OnlyTargetEndsRun
  <1> QED
    BY <1>1, <1>5 DEF Panic, ModulesInv, Surroundings, Probing, FindingsRest

LEMMA UnbuiltModules ==
  ASSUME ModulesInv, Unbuilt
  PROVE  ModulesInv'
  <1>1. run.pc = "step" /\ run \in RunState
    BY DEF Unbuilt, ModulesInv
  <1>2. /\ run' \in RunState /\ run'.pc \in {"check", "step"}
        /\ run'.pc = "step" => Placed(job, run')
    BY <1>1, AfterPlaced DEF Unbuilt, RunState
  <1>3. \A f \in Absence(Step.unbuilt, run.told, run.heard) :
          f.basis \in {"answer", "nothing"} /\ f.title = "no rate limiting"
    <2> DEFINE b == IF run.heard THEN "answer" ELSE "nothing"
    <2>1. b \in {"answer", "nothing"}
      OBVIOUS
    <2>2. Absence(Step.unbuilt, run.told, run.heard) \subseteq Finding(Step.absent, b)
      BY DEF Absence
    <2> HIDE DEF b
    <2> QED
      BY <1>1, <2>1, <2>2, AbsenceRests
  <1> QED
    BY <1>1, <1>2, <1>3, RequestModules DEF Unbuilt, ModulesInv, Surroundings

LEMMA AnsweredModules ==
  ASSUME ModulesInv, Answered
  PROVE  ModulesInv'
  <1> DEFINE heard == Step.absent # ""
  <1>1. run.pc = "step" /\ run \in RunState
    BY DEF Answered, ModulesInv
  <1>2. run.tested + 1 \in Nat /\ run.told \in BOOLEAN
    BY <1>1 DEF RunState
  <1>3. /\ run' \in RunState /\ run'.pc \in {"check", "step"}
        /\ run'.pc = "step" => Placed(job, run')
    BY <1>1, <1>2, AfterPlaced DEF Answered
  <1>4. \A f \in Absence("next", run.told, heard) :
          f.basis \in {"answer", "nothing"} /\ f.title = "no rate limiting"
    <2> DEFINE b == IF heard THEN "answer" ELSE "nothing"
    <2>1. b \in {"answer", "nothing"}
      OBVIOUS
    <2>2. Absence("next", run.told, heard) \subseteq Finding(Step.absent, b)
      BY DEF Absence
    <2> HIDE DEF b
    <2> QED
      BY <1>1, <2>1, <2>2, AbsenceRests
  <1> QED
    BY <1>1, <1>3, <1>4, RequestModules DEF Answered, ModulesInv, Surroundings

LEMMA ToldModules ==
  ASSUME ModulesInv, Told
  PROVE  ModulesInv'
  <1> DEFINE telling == Step.absent # ""
  <1>1. run.pc = "step" /\ run \in RunState /\ Placed(job, run)
    BY DEF Told, ModulesInv
  <1>2. run.tested + 1 \in Nat
    BY <1>1 DEF RunState
  <1>3. /\ run' \in RunState /\ run'.pc \in {"check", "step"}
        /\ run'.pc = "step" => Placed(job, run')
    <2>1. CASE Step.inner # <<>> /\ Step.inner[1].n > 0
      <3>1. run' = [run EXCEPT !.inner = 1]
        BY <2>1 DEF Told
      <3>2. run' \in RunState /\ run'.pc = "step"
        BY <1>1, <3>1 DEF RunState
      <3>3. Outer.inner # <<>> /\ 1 <= Outer.inner[1].n
        <4>1. Outer.inner # <<>> /\ Step = Outer /\ Outer.inner[1].n \in Nat
          BY <1>1, <2>1, AtStep DEF IsInner, IsLoop
        <4> QED
          BY <2>1, <4>1
      <3>4. /\ run'.check = run.check /\ run'.step = run.step /\ run'.req = run.req
            /\ run'.inner = 1 /\ run'.tested = run.tested
        BY <1>1, <3>1 DEF RunState
      <3>5. Placed(job, run')
        BY <1>1, <3>3, <3>4 DEF Placed, Outer
      <3> QED
        BY <3>2, <3>5
    <2>2. CASE ~(Step.inner # <<>> /\ Step.inner[1].n > 0)
      <3>1. run' = After(Step.hit, run.tested + 1, telling, telling)
        BY <2>2 DEF Told
      <3> QED
        BY <1>1, <1>2, <3>1, AfterPlaced
    <2> QED
      BY <2>1, <2>2
  <1>4. \A f \in Finding(Step.title, Basis) :
          f.basis \in {"job", "answer"} \/ (f.basis = "nothing" /\ f.title = "network scan")
    <2>1. Basis \in {"job", "answer"} \/ (Basis = "nothing" /\ Step.via = "tool")
      BY DEF Basis
    <2>2. Step.via = "tool" => Step.title = "network scan"
      BY <1>1, AtStep
    <2>3. \A f \in Finding(Step.title, Basis) : f.basis = Basis /\ f.title = Step.title
      BY FindingIs
    <2> QED
      BY <2>1, <2>2, <2>3
  <1> QED
    BY <1>1, <1>3, <1>4, RequestModules DEF Told, ModulesInv, Surroundings

LEMMA LostModules ==
  ASSUME ModulesInv, Lost
  PROVE  ModulesInv'
  <1>0. PICK title \in Step.failed :
          found' = found \cup Finding(title, "failure")
                         \cup Absence(Step.lost, run.told, run.heard)
    BY DEF Lost
  <1> DEFINE new == Finding(title, "failure") \cup Absence(Step.lost, run.told, run.heard)
  <1>1. run.pc = "step" /\ run \in RunState
    BY DEF Lost, ModulesInv
  <1>2. /\ run' \in RunState /\ run'.pc \in {"check", "step"}
        /\ run'.pc = "step" => Placed(job, run')
    BY <1>1, AfterPlaced DEF Lost, RunState
  <1>3. \A f \in Absence(Step.lost, run.told, run.heard) :
          f.basis \in {"answer", "nothing"} /\ f.title = "no rate limiting"
    <2> DEFINE b == IF run.heard THEN "answer" ELSE "nothing"
    <2>1. b \in {"answer", "nothing"}
      OBVIOUS
    <2>2. Absence(Step.lost, run.told, run.heard) \subseteq Finding(Step.absent, b)
      BY DEF Absence
    <2> HIDE DEF b
    <2> QED
      BY <1>1, <2>1, <2>2, AbsenceRests
  <1>4. \A f \in Finding(title, "failure") : f.basis = "failure" /\ f.title \in Failures
    <2>1. title \in Failures \cup {""}
      BY <1>0, <1>1, AtStep
    <2>2. \A f \in Finding(title, "failure") :
            title # "" /\ f.title = title /\ f.basis = "failure"
      BY FindingIs
    <2> QED
      BY <2>1, <2>2
  <1>5. late' \in Nat
    <2>1. Step.secs \in Nat /\ late \in Nat
      BY <1>1, AtStep DEF IsLoop, ModulesInv, Surroundings
    <2> QED
      BY <2>1 DEF Lost
  <1>6. found' = found \cup new
    BY <1>0
  <1>7. \A f \in new : \/ f.basis \in {"job", "answer"}
                       \/ /\ f.basis = "nothing"
                          /\ f.title \in {"no rate limiting", "network scan"}
                       \/ f.basis = "failure" /\ f.title \in Failures
    BY <1>3, <1>4
  <1>8. UNCHANGED <<typed, job, host, serves, over, steady>>
    BY DEF Lost
  <1> HIDE DEF new
  <1> QED
    BY <1>1, <1>2, <1>5, <1>6, <1>7, <1>8, RequestModules

LEMMA WaitAgainModules ==
  ASSUME ModulesInv, WaitAgain
  PROVE  ModulesInv'
  <1>1. NoJob.target \in Typed /\ NoJob.target \in Target
    BY ScanModulesAssumption DEF ScanModulesAssumption, NoJob
  <1>2. Surroundings'
    BY <1>1 DEF WaitAgain, ModulesInv, Surroundings, NoJob
  <1>3. run' \in RunState /\ run'.pc = "idle"
    BY Elsewhere DEF WaitAgain, Ended
  <1> QED
    BY <1>2, <1>3 DEF WaitAgain, ModulesInv, Probing, FindingsRest, OnlyTargetEndsRun

LEMMA DeadlineModules ==
  ASSUME ModulesInv, Deadline
  PROVE  ModulesInv'
  <1>1. UNCHANGED <<typed, job, run, found, host, serves, late>> /\ over' = TRUE
    BY DEF Deadline
  <1>2. steady' \in BOOLEAN
    BY DEF Deadline
  <1> QED
    BY <1>1, <1>2 DEF ModulesInv, Surroundings, Placed, FindingsRest, OnlyTargetEndsRun

LEMMA HostChangesModules ==
  ASSUME ModulesInv, HostChanges
  PROVE  ModulesInv'
  <1>1. UNCHANGED <<typed, job, run, found, serves, over, late>>
    BY DEF HostChanges
  <1>2. steady' \in BOOLEAN /\ host' \in {"answers", "refuses", "mute"}
    BY DEF HostChanges
  <1> QED
    BY <1>1, <1>2 DEF ModulesInv, Surroundings, Placed, FindingsRest, OnlyTargetEndsRun

LEMMA HangsOnModules ==
  ASSUME ModulesInv, HangsOn
  PROVE  ModulesInv'
  <1>1. UNCHANGED <<typed, job, run, found, host, serves, over, steady>> /\ late' = 36
    BY DEF HangsOn, Grace
  <1> QED
    BY <1>1 DEF ModulesInv, Surroundings, Placed, FindingsRest, OnlyTargetEndsRun

LEMMA ModulesInvNext ==
  ASSUME ModulesInv, [Next]_vars
  PROVE  ModulesInv'
  <1>1. CASE TakeJob
    BY <1>1, TakeJobModules
  <1>2. CASE WaitAgain
    BY <1>2, WaitAgainModules
  <1>3. CASE WorkerStep
    <2>1. CASE UnknownModule \/ Settle \/ ProbeAnswered \/ ProbeLost \/ BeginModule
      BY <2>1, UnknownModuleModules, SettleModules, ProbeAnsweredModules, ProbeLostModules,
         BeginModuleModules
    <2>2. CASE NextCheck \/ Panic \/ Unbuilt \/ Answered \/ Told \/ Lost
      BY <2>2, NextCheckModules, PanicModules, UnbuiltModules, AnsweredModules, ToldModules,
         LostModules
    <2> QED
      BY <1>3, <2>1, <2>2 DEF WorkerStep
  <1>4. CASE Deadline
    BY <1>4, DeadlineModules
  <1>5. CASE HostChanges
    BY <1>5, HostChangesModules
  <1>6. CASE HangsOn
    BY <1>6, HangsOnModules
  <1>7. CASE UNCHANGED vars
    BY <1>7
       DEF vars, ModulesInv, Surroundings, Placed, FindingsRest, OnlyTargetEndsRun
  <1> QED
    BY <1>1, <1>2, <1>3, <1>4, <1>5, <1>6, <1>7 DEF Next

LEMMA ModulesInvariant == Spec => []ModulesInv
  <1>1. Init => ModulesInv
    BY ModulesInvInit
  <1>2. ModulesInv /\ [Next]_vars => ModulesInv'
    BY ModulesInvNext
  <1> QED
    BY <1>1, <1>2, PTL DEF Spec

---------------------------------------------------------------------------
(* Theorems                                                                *)

(* ScanModules keeps its types; a run is always at a request its module    *)
(* has, of an inner loop only where the outer one has one.                 *)
THEOREM ModulesTyped == Spec => []TypeOK
  <1>1. ModulesInv => TypeOK
    BY ModulesTypes
  <1> QED
    BY <1>1, ModulesInvariant, PTL

(* Whatever a host does and whenever the deadline comes, what a module     *)
(* reports rests on an answer or on the job, but for four findings: a name *)
(* that did not resolve, a dial's error taken for a bad certificate, an    *)
(* absent rate limit and the end of nmap.                                  *)
THEOREM FindingsRestOnAnswers == Spec => []FindingsRest
  <1>1. ModulesInv => FindingsRest
    BY DEF ModulesInv
  <1> QED
    BY <1>1, ModulesInvariant, PTL

(* No host makes a job fail or a worker crash: executeJob's errors and the *)
(* nil request that a module uses come of the target alone.                *)
THEOREM HostsEndNoRun == Spec => []OnlyTargetEndsRun
  <1>1. ModulesInv => OnlyTargetEndsRun
    BY DEF ModulesInv
  <1> QED
    BY <1>1, ModulesInvariant, PTL

---------------------------------------------------------------------------
(* The guessed scheme                                                      *)

(* Where a request leads, for the invariants of where the run is.          *)
LEMMA RequestLeads ==
  ASSUME ModulesInv, Unbuilt \/ Answered \/ Told \/ Lost
  PROVE  /\ run.pc = "step"
         /\ UNCHANGED <<typed, job, host, serves, over, steady>>
         /\ \/ /\ run'.pc = "step" /\ run'.check = run.check /\ run'.step = run.step
               /\ run'.req = run.req /\ Outer.inner # <<>>
            \/ run'.pc = "check" /\ run'.check = run.check + 1
            \/ /\ run'.pc = "step" /\ run'.check = run.check /\ run'.step = run.step + 1
               /\ run.step < Len(Checks(job)[run.check]) /\ run'.req = 1
            \/ /\ run'.pc = "step" /\ run'.check = run.check /\ run'.step = run.step
               /\ run'.req = run.req + 1 /\ run.req < Outer.n
  <1>1. run.pc = "step" /\ UNCHANGED <<typed, job, host, serves, over, steady>>
    BY DEF Unbuilt, Answered, Told, Lost
  <1>2. run \in RunState /\ Placed(job, run)
    BY <1>1 DEF ModulesInv
  <1>3. /\ run.tested \in Nat /\ run.tested + 1 \in Nat
        /\ run.told \in BOOLEAN /\ run.heard \in BOOLEAN
    BY <1>2 DEF RunState
  <1>4. run.inner > 0 => Outer.inner # <<>>
    BY <1>2 DEF Placed, Outer
  <1>5. CASE Unbuilt
    BY <1>1, <1>3, <1>4, <1>5, AfterCases DEF Unbuilt
  <1>6. CASE Answered
    <2> DEFINE heard == Step.absent # ""
    <2>1. run' = After("next", run.tested + 1, run.told, heard) /\ heard \in BOOLEAN
      BY <1>6 DEF Answered
    <2> HIDE DEF heard
    <2> QED
      BY <1>1, <1>3, <1>4, <2>1, AfterCases
  <1>7. CASE Lost
    BY <1>1, <1>3, <1>4, <1>7, AfterCases DEF Lost
  <1>8. CASE Told
    <2> DEFINE telling == Step.absent # ""
    <2>1. CASE Step.inner # <<>> /\ Step.inner[1].n > 0
      <3>1. run' = [run EXCEPT !.inner = 1]
        BY <1>8, <2>1 DEF Told
      <3>2. /\ run'.pc = "step" /\ run'.check = run.check /\ run'.step = run.step
            /\ run'.req = run.req
        BY <1>1, <1>2, <3>1 DEF RunState
      <3>3. Outer.inner # <<>>
        BY <1>1, <2>1, AtStep
      <3> QED
        BY <1>1, <3>2, <3>3
    <2>2. CASE ~(Step.inner # <<>> /\ Step.inner[1].n > 0)
      <3>1. /\ run' = After(Step.hit, run.tested + 1, telling, telling)
            /\ telling \in BOOLEAN
        BY <1>8, <2>2 DEF Told
      <3> HIDE DEF telling
      <3> QED
        BY <1>1, <1>3, <1>4, <3>1, AfterCases
    <2> QED
      BY <2>1, <2>2
  <1> QED
    BY <1>5, <1>6, <1>7, <1>8

Schemeless == steady /\ typed.form = "url" /\ ~HasScheme(typed)
Early == Probing \cup {"taken", "settled"}

(* What the probes know of a steady host's schemes.                        *)
GuessInv ==
  /\ run.pc = "idle" => ~over
  /\ run.pc = "taken" => job.target = typed
  /\ run.pc \in Early /\ steady => host = "answers" /\ ~over
  /\ run.pc \in Probing \cup {"settled"} /\ Schemeless =>
       job.target.form = "url" /\ job.target.scheme \in {"http", "https"}
  /\ run.pc \in {"altHead", "altGet"} /\ Schemeless => job.target.scheme \notin serves
  /\ (run.pc = "settled" \/ (run.pc = "check" /\ run.check = 1)) /\ Schemeless /\ serves # {} =>
       job.target.scheme \in serves

LEMMA AtFacts == \A pc : At(pc).pc = pc /\ At(pc).check = 1 /\ At(pc).step = 1 /\ At(pc).req = 1
  BY DEF At

LEMMA GuessInvInit ==
  ASSUME Init
  PROVE  GuessInv
  BY AtFacts DEF Init, GuessInv, Early, Probing

(* A target that the orchestrator has normalised is not probed.            *)
KeptInv ==
  (run.pc \in Early \/ (run.pc = "check" /\ run.check = 1)) /\ typed.form = "url" =>
    job.target = NormalizeTarget(typed) /\ run.pc \notin Probing

LEMMA TakeJobGuess ==
  ASSUME ModulesInv, GuessInv, ~Ingested, TakeJob
  PROVE  GuessInv'
  <1>1. PICK m \in Modules \cup {"unknown"}, t \in Typed, b \in Bearer, n \in BOOLEAN :
          /\ typed' = t
          /\ job' = [module |-> m, target |-> QueuedTarget(t), bearer |-> b, nuclei |-> n]
    BY DEF TakeJob
  <1>2. job'.target = typed' /\ ~over' /\ (steady' => host' = "answers") /\ run'.pc = "taken"
    BY <1>1, AtFacts DEF QueuedTarget, TakeJob, GuessInv
  <1> QED
    BY <1>2 DEF GuessInv, Early, Probing

LEMMA SettleGuess ==
  ASSUME ModulesInv, GuessInv, Settle
  PROVE  GuessInv'
  <1>1. /\ run'.pc \in {"settled", "head"}
        /\ Schemeless => run'.pc = "head"
    BY AtFacts DEF Settle, GuessInv, Schemeless
  <1>2. job.target \in Target /\ job.target = typed
    BY DEF Settle, GuessInv, ModulesInv, Surroundings
  <1>3. Schemeless => job'.target.form = "url" /\ job'.target.scheme \in {"http", "https"}
    <2>1. job'.target = NormalizeTarget(job.target)
      BY DEF Settle, WorkerNormalizeTarget, ModulesInv, Surroundings
    <2> QED
      BY <1>2, <2>1, Normalized DEF Schemeless
  <1>4. UNCHANGED <<host, serves, over, steady>> /\ Schemeless' = Schemeless
    BY DEF Settle, Schemeless
  <1>5. run.pc = "taken"
    BY DEF Settle
  <1> QED
    BY <1>1, <1>3, <1>4, <1>5 DEF GuessInv, Early, Probing

LEMMA ProbeAnsweredGuess ==
  ASSUME ModulesInv, GuessInv, ProbeAnswered
  PROVE  GuessInv'
  <1>1. run'.pc = "settled" /\ UNCHANGED <<host, serves, over, steady>> /\ Schemeless' = Schemeless
    BY AtFacts DEF ProbeAnswered, Schemeless
  <1>2. job.target.form = "url" /\ ProbedScheme \in serves /\ serves \subseteq {"http", "https"}
    BY DEF ProbeAnswered, Serving, ModulesInv, Surroundings
  <1>3. job'.target.form = "url" /\ job'.target.scheme = ProbedScheme
    <2>1. job'.target = [job.target EXCEPT !.scheme = ProbedScheme]
      BY DEF ProbeAnswered, ModulesInv, Surroundings
    <2>2. job.target \in Target
      BY DEF ModulesInv, Surroundings
    <2> QED
      BY <1>2, <2>1, <2>2 DEF Target
  <1>4. run.pc \in Early
    BY DEF ProbeAnswered, Early
  <1> QED
    BY <1>1, <1>2, <1>3, <1>4 DEF GuessInv, Early, Probing

LEMMA ProbeLostGuess ==
  ASSUME ModulesInv, GuessInv, ProbeLost
  PROVE  GuessInv'
  <1>1. /\ UNCHANGED <<job, host, serves, over, steady>> /\ Schemeless' = Schemeless
        /\ run.pc \in Probing
    BY DEF ProbeLost, Schemeless
  <1>2. /\ run.pc = "head" => run'.pc = IF host = "mute" THEN "altHead" ELSE "get"
        /\ run.pc = "get" => run'.pc = "altHead"
        /\ run.pc = "altHead" => run'.pc = IF host = "mute" THEN "settled" ELSE "altGet"
        /\ run.pc = "altGet" => run'.pc = "settled"
    BY AtFacts DEF ProbeLost
  <1>3. Schemeless => /\ host = "answers" /\ ~over
                      /\ job.target.form = "url" /\ job.target.scheme \in {"http", "https"}
    BY <1>1 DEF GuessInv, Schemeless, Early
  <1>4. Schemeless /\ run.pc \in {"get", "altGet"} => ProbedScheme \notin serves
    BY <1>3 DEF ProbeLost, Serving
  <1>5. Schemeless /\ run'.pc \in {"altHead", "altGet"} => job.target.scheme \notin serves
    BY <1>1, <1>2, <1>3, <1>4 DEF GuessInv, Probing, ProbedScheme
  <1>6. Schemeless /\ run'.pc = "settled" => serves = {}
    <2> SUFFICES ASSUME Schemeless, run'.pc = "settled" PROVE serves = {}
      OBVIOUS
    <2>1. run.pc = "altGet"
      BY <1>1, <1>2, <1>3 DEF Probing
    <2>2. job.target.scheme \notin serves /\ Other(job.target.scheme) \notin serves
      BY <1>3, <1>4, <2>1 DEF GuessInv, ProbedScheme
    <2>3. serves \subseteq {"http", "https"}
      BY DEF ModulesInv, Surroundings
    <2> QED
      BY <1>3, <2>2, <2>3 DEF Other
  <1>7. run'.pc \in Probing \cup {"settled"} /\ run.pc \in Early
    BY <1>1, <1>2 DEF Probing, Early
  <1> QED
    BY <1>1, <1>3, <1>5, <1>6, <1>7 DEF GuessInv, Early, Probing

(* The steps that leave the target's scheme and the host alone.            *)
LEMMA OtherGuess ==
  ASSUME ModulesInv, GuessInv, [Next]_vars, ~TakeJob, ~Settle, ~ProbeAnswered, ~ProbeLost
  PROVE  GuessInv'
  <1>1. CASE WaitAgain
    <2>1. run'.pc = "idle" /\ ~over'
      BY <1>1, AtFacts DEF WaitAgain
    <2> QED
      BY <2>1 DEF GuessInv, Early, Probing
  <1>2. CASE UnknownModule \/ Panic
    <2>1. run'.pc \in {"failed", "crashed"}
      BY <1>2, AtFacts DEF UnknownModule, Panic
    <2> QED
      BY <2>1 DEF GuessInv, Early, Probing
  <1>3. CASE BeginModule
    <2>1. /\ run.pc = "settled" /\ run'.pc \in {"failed", "check"} 
          /\ UNCHANGED <<typed, job, host, serves, over, steady>>
      BY <1>3, AtFacts DEF BeginModule
    <2> QED
      BY <2>1 DEF GuessInv, Early, Probing, Schemeless
  <1>4. CASE NextCheck
    <2>1. run.check \in Nat \ {0} /\ run \in RunState /\ run.pc = "check"
      BY <1>4 DEF NextCheck, ModulesInv, RunState
    <2>2. \/ run'.pc = "completed" \/ run'.pc = "step"
          \/ run'.pc = "check" /\ run'.check # 1
      <3>1. CASE run' = At("completed")
        BY <3>1, AtFacts
      <3>2. CASE run' = [run EXCEPT !.check = @ + 1]
        BY <2>1, <3>2 DEF RunState
      <3>3. CASE run' = [At("step") EXCEPT !.check = run.check]
        BY <3>3 DEF At
      <3> QED
        BY <1>4, <3>1, <3>2, <3>3 DEF NextCheck
    <2> QED
      BY <2>2 DEF GuessInv, Early, Probing
  <1>5. CASE Unbuilt \/ Answered \/ Told \/ Lost
    <2>1. run.check \in Nat \ {0}
      BY DEF ModulesInv, RunState
    <2>2. run'.pc = "step" \/ (run'.pc = "check" /\ run'.check # 1)
      BY <1>5, <2>1, RequestLeads
    <2> QED
      BY <2>2 DEF GuessInv, Early, Probing
  <1>6. CASE Deadline \/ HostChanges
    <2>1. /\ UNCHANGED <<typed, job, run, serves>> /\ run.pc # "idle"
          /\ steady' => steady /\ run.pc \in {"check", "step"}
      BY <1>6 DEF Deadline, HostChanges, Ended
    <2> QED
      BY <2>1 DEF GuessInv, Early, Probing, Schemeless
  <1>7. CASE HangsOn \/ UNCHANGED vars
    <2>1. UNCHANGED <<typed, job, run, host, serves, over, steady>>
      BY <1>7 DEF HangsOn, vars
    <2> QED
      BY <2>1 DEF GuessInv, Schemeless
  <1> QED
    BY <1>1, <1>2, <1>3, <1>4, <1>5, <1>6, <1>7 DEF Next, WorkerStep

LEMMA KeptInvNext ==
  ASSUME ModulesInv, KeptInv, Ingested, [Next]_vars
  PROVE  KeptInv'
  <1>1. CASE TakeJob
    <2>1. PICK m \in Modules \cup {"unknown"}, t \in Typed, b \in Bearer, n \in BOOLEAN :
            /\ typed' = t
            /\ job' = [module |-> m, target |-> QueuedTarget(t), bearer |-> b, nuclei |-> n]
      BY <1>1 DEF TakeJob
    <2>2. job'.target = NormalizeTarget(typed') /\ run'.pc = "taken"
      BY <1>1, <2>1, AtFacts DEF QueuedTarget, TakeJob
    <2> QED
      BY <2>2 DEF KeptInv, Probing
  <1>2. CASE Settle
    <2>1. run.pc = "taken" /\ typed' = typed
          /\ job'.target = NormalizeTarget(job.target)
      BY <1>2 DEF Settle, WorkerNormalizeTarget, ModulesInv, Surroundings
    <2>2. typed.form = "url" => job.target = NormalizeTarget(typed) /\ typed \in Target
      BY <2>1, ScanModulesAssumption
         DEF KeptInv, Early, ModulesInv, Surroundings, ScanModulesAssumption
    <2>3. typed.form = "url" => HasScheme(job.target)
      BY <2>2, Normalized DEF HasScheme
    <2>4. typed.form = "url" => job'.target = NormalizeTarget(typed) /\ run'.pc = "settled"
      <3>1. HasScheme(job.target) => NormalizeTarget(job.target) = job.target
        BY DEF NormalizeTarget
      <3> QED
        BY <1>2, <2>1, <2>2, <2>3, <3>1, AtFacts DEF Settle
    <2> QED
      BY <2>1, <2>4 DEF KeptInv, Probing
  <1>3. CASE ProbeAnswered \/ ProbeLost
    <2>1. run.pc \in Probing /\ typed' = typed
      BY <1>3 DEF ProbeAnswered, ProbeLost
    <2> QED
      BY <2>1 DEF KeptInv, Early
  <1>4. CASE BeginModule
    <2>1. /\ run.pc = "settled" /\ run'.pc \in {"failed", "check"}
          /\ UNCHANGED <<typed, job>>
      BY <1>4, AtFacts DEF BeginModule
    <2> QED
      BY <2>1 DEF KeptInv, Early, Probing
  <1>5. CASE WaitAgain \/ UnknownModule \/ Panic
    <2>1. run'.pc \in {"idle", "failed", "crashed"}
      BY <1>5, AtFacts DEF WaitAgain, UnknownModule, Panic
    <2> QED
      BY <2>1 DEF KeptInv, Early, Probing
  <1>6. CASE NextCheck
    <2>1. run.check \in Nat \ {0} /\ run \in RunState /\ run.pc = "check"
      BY <1>6 DEF NextCheck, ModulesInv, RunState
    <2>2. \/ run'.pc = "completed" \/ run'.pc = "step"
          \/ run'.pc = "check" /\ run'.check # 1
      <3>1. CASE run' = At("completed")
        BY <3>1, AtFacts
      <3>2. CASE run' = [run EXCEPT !.check = @ + 1]
        BY <2>1, <3>2 DEF RunState
      <3>3. CASE run' = [At("step") EXCEPT !.check = run.check]
        BY <3>3 DEF At
      <3> QED
        BY <1>6, <3>1, <3>2, <3>3 DEF NextCheck
    <2> QED
      BY <2>2 DEF KeptInv, Early, Probing
  <1>7. CASE Unbuilt \/ Answered \/ Told \/ Lost
    <2>1. run.check \in Nat \ {0}
      BY DEF ModulesInv, RunState
    <2>2. run'.pc = "step" \/ (run'.pc = "check" /\ run'.check # 1)
      BY <1>7, <2>1, RequestLeads
    <2> QED
      BY <2>2 DEF KeptInv, Early, Probing
  <1>8. CASE Deadline \/ HostChanges \/ HangsOn \/ UNCHANGED vars
    <2>1. UNCHANGED <<typed, job, run>>
      BY <1>8 DEF Deadline, HostChanges, HangsOn, vars
    <2> QED
      BY <2>1 DEF KeptInv
  <1> QED
    BY <1>1, <1>2, <1>3, <1>4, <1>5, <1>6, <1>7, <1>8 DEF Next, WorkerStep

(* What the orchestrator's guess becomes: nothing else.                    *)
GuessKept ==
  run.pc = "check" /\ run.check = 1 /\ typed.form = "url" => job.target = NormalizeTarget(typed)

(* A worker that is given a target as its user typed it runs the module    *)
(* with a scheme that the host serves, if host and deadline give the four  *)
(* probes the time; but one that is given the orchestrator's target keeps  *)
(* its guess, whatever the host serves (worker/main.go:178).               *)
THEOREM GuessesCorrected == Spec => [](IF Ingested THEN GuessKept ELSE GuessCorrected)
  <1> DEFINE Inv == IF Ingested THEN KeptInv ELSE GuessInv
  <1>1. Init => Inv
    <2>1. Init => KeptInv
      BY AtFacts DEF Init, KeptInv, Early, Probing
    <2> QED
      BY <2>1, GuessInvInit
  <1>2. ModulesInv /\ Inv /\ [Next]_vars => Inv'
    BY KeptInvNext, TakeJobGuess, SettleGuess, ProbeAnsweredGuess, ProbeLostGuess, OtherGuess
  <1>3. Inv => IF Ingested THEN GuessKept ELSE GuessCorrected
    BY DEF KeptInv, GuessKept, GuessInv, GuessCorrected, Schemeless
  <1> HIDE DEF Inv
  <1> QED
    BY <1>1, <1>2, <1>3, ModulesInvariant, PTL DEF Spec

---------------------------------------------------------------------------
(* The time after the deadline                                             *)

(* The dials of cert, which look at no context.                            *)
LEMMA CertTable ==
  ASSUME ModulesInv, run.pc = "step", job.module = "cert"
  PROVE  /\ Outer.inner = <<>>
         /\ \/ /\ run.check = 1 /\ run.step = 1 /\ Len(Checks(job)[1]) = 1
               /\ Outer.n = 1 /\ Outer.secs = 10
            \/ /\ run.check = 2 /\ run.step = 1 /\ Len(Checks(job)[2]) = 2
               /\ Outer.n = 4 /\ Outer.secs = 5
            \/ /\ run.check = 2 /\ run.step = 2 /\ Len(Checks(job)[2]) = 2
               /\ Outer.n = 1 /\ Outer.secs = 5
  <1>1. Checks(job) = <<AnalyzeTLS, CheckCipherSuites>>
    BY DEF Checks, CertRun
  <1>2. run.check \in DOMAIN Checks(job) /\ run.step \in DOMAIN Checks(job)[run.check]
    BY DEF ModulesInv, Placed
  <1>3. CASE run.check = 1
    <2>1. Checks(job)[1] = <<[Handshakes(1, "certificate", 10) EXCEPT !.lost = "return", !.failed = CertErrors]>>
      BY <1>1 DEF AnalyzeTLS
    <2>2. run.step = 1 /\ Len(Checks(job)[1]) = 1
          /\ Outer = [Handshakes(1, "certificate", 10) EXCEPT !.lost = "return", !.failed = CertErrors]
      BY <1>2, <1>3, <2>1 DEF Outer
    <2> QED
      BY <1>3, <2>2 DEF Handshakes, Requests
  <1>4. CASE run.check = 2
    <2> DEFINE a == Handshakes(4, "weak cipher", 5)
               b == Handshakes(1, "TLS 1.0", 5)
    <2>1. Checks(job)[2] = <<a, b>>
      <3>1. Checks(job)[2] = CheckCipherSuites
        BY <1>1
      <3> QED
        BY <3>1 DEF CheckCipherSuites
    <2>2. /\ Len(Checks(job)[2]) = 2
          /\ \/ run.step = 1 /\ Outer = a
             \/ run.step = 2 /\ Outer = b
      <3> HIDE DEF a, b
      <3> QED
        BY <1>2, <1>4, <2>1 DEF Outer
    <2> QED
      BY <1>4, <2>2 DEF Handshakes, Requests
  <1>5. run.check \in 1..2
    BY <1>1, <1>2
  <1> QED
    BY <1>3, <1>4, <1>5

(* asset's port scan is its only loop that looks at no context.            *)
LEMMA AssetTable ==
  ASSUME ModulesInv, run.pc = "step", job.module = "asset"
  PROVE  /\ Outer.inner = <<>>
         /\ run.check # 2 \/ run.step = 1 => Outer.bound
         /\ run.check = 2 =>
              /\ run.step \in {1, 2} /\ Len(Checks(job)[2]) = 2
              /\ run.step = 2 => Outer.n = 14 /\ Outer.secs = 2
  <1>1. Checks(job) = <<CheckDNS, ScanPorts, FingerprintHTTP, CheckTLSPresence>>
    BY DEF Checks, AssetRun
  <1>2. run.check \in DOMAIN Checks(job) /\ run.step \in DOMAIN Checks(job)[run.check]
    BY DEF ModulesInv, Placed
  <1>3. CASE run.check = 1
    <2> DEFINE Lookup(title) == [Requests(1, title) EXCEPT !.via = "dns", !.secs = 5]
               a == [Lookup("addresses") EXCEPT !.failed = {"resolution failed"}, !.lost = "return"]
               b == Lookup("mail exchangers")
               c == Lookup("permissive SPF")
    <2>1. Checks(job)[1] = <<a, b, c>>
      BY <1>1 DEF CheckDNS
    <2>2. Outer \in {a, b, c}
      <3> HIDE DEF a, b, c
      <3> QED
        BY <1>2, <1>3, <2>1 DEF Outer
    <2>3. \A s \in {a, b, c} : s.inner = <<>> /\ s.bound
      BY DEF Requests
    <2> HIDE DEF a, b, c
    <2> QED
      BY <1>3, <2>2, <2>3
  <1>4. CASE run.check = 2
    <2>1. Checks(job)[2] = <<RunNmap, TcpProbePorts>>
      BY <1>1 DEF ScanPorts
    <2>2. /\ Len(Checks(job)[2]) = 2
          /\ \/ run.step = 1 /\ Outer = RunNmap
             \/ run.step = 2 /\ Outer = TcpProbePorts
      BY <1>2, <1>4, <2>1 DEF Outer
    <2>3. RunNmap.inner = <<>> /\ RunNmap.bound /\ TcpProbePorts.inner = <<>>
      BY DEF RunNmap, TcpProbePorts, Requests
    <2>4. TcpProbePorts.n = 14 /\ TcpProbePorts.secs = 2
      BY DEF TcpProbePorts, Requests
    <2> QED
      BY <1>4, <2>2, <2>3, <2>4
  <1>5. CASE run.check = 3
    <2> DEFINE a == [Requests(1, "headers") EXCEPT !.secs = 15, !.lost = "return",
                                                   !.unbuilt = "return"]
               b == [Requests(13, "sensitive path") EXCEPT !.secs = 15]
    <2>1. Checks(job)[3] = <<a, b>>
      <3>1. Checks(job)[3] = FingerprintHTTP
        BY <1>1
      <3> QED
        BY <3>1 DEF FingerprintHTTP
    <2>2. Outer \in {a, b}
      <3> HIDE DEF a, b
      <3> QED
        BY <1>2, <1>5, <2>1 DEF Outer
    <2>3. \A s \in {a, b} : s.inner = <<>> /\ s.bound
      BY DEF Requests
    <2> HIDE DEF a, b
    <2> QED
      BY <1>5, <2>2, <2>3
  <1>6. CASE run.check = 4
    <2> DEFINE a == [Requests(1, "plain HTTP") EXCEPT !.via = "http", !.secs = 5]
    <2>1. Checks(job)[4] = <<a>>
      BY <1>1 DEF CheckTLSPresence
    <2>2. Outer = a
      <3> HIDE DEF a
      <3> QED
        BY <1>2, <1>6, <2>1 DEF Outer
    <2>3. a.inner = <<>> /\ a.bound
      BY DEF Requests
    <2> HIDE DEF a
    <2> QED
      BY <1>6, <2>2, <2>3
  <1>7. run.check \in 1..4
    BY <1>1, <1>2
  <1> QED
    BY <1>3, <1>4, <1>5, <1>6, <1>7

Before == Early \cup {"idle"}

(* The seconds that the unbound dials up to here can have taken; of pci's, *)
(* which has no limit, only that they are more than Grace.                 *)
Budget ==
  CASE run.pc \in Before -> 0
    [] run.pc \notin Before /\ job.module = "cert" ->
         IF run.pc \in {"check", "step"} /\ run.check = 1 THEN 0
         ELSE IF run.pc = "check" /\ run.check = 2 THEN 10
         ELSE IF run.pc = "step" THEN IF run.step = 1 THEN 5 + 5 * run.req ELSE 30
         ELSE 35
    [] run.pc \notin Before /\ job.module = "asset" ->
         IF run.pc \in {"check", "step"} /\ run.check = 1 THEN 0
         ELSE IF run.pc = "check" /\ run.check = 2 THEN 0
         ELSE IF run.pc = "step" /\ run.check = 2
              THEN IF run.step = 1 THEN 0 ELSE 2 * (run.req - 1)
         ELSE 28
    [] run.pc \notin Before /\ job.module = "pci" -> Grace + 1
    [] OTHER -> 0

LateInv == late <= Budget

LEMMA LateUnchanged ==
  ASSUME ModulesInv, [Next]_vars, ~WaitAgain, ~Lost, ~HangsOn
  PROVE  late' = late
  BY DEF Next, WorkerStep, TakeJob, UnknownModule, Settle, ProbeAnswered, ProbeLost, BeginModule,
         NextCheck, Panic, Unbuilt, Answered, Told, Deadline, HostChanges, vars

LEMMA LostLate ==
  ASSUME ModulesInv, Lost
  PROVE  \/ late' = late
         \/ late' = late + Outer.secs /\ ~Outer.bound /\ job.module \in {"asset", "cert"}
  <1>1. run.pc = "step" /\ late \in Nat
    BY DEF Lost, ModulesInv, Surroundings
  <1>2. IsStep(Outer, job.module)
    BY <1>1, AtStep
  <1>3. CASE Step.bound
    BY <1>3 DEF Lost
  <1>4. CASE ~Step.bound /\ Outer.secs # 0
    <2>1. Step = Outer
      <3>1. run.inner \in Nat
        BY DEF ModulesInv, RunState
      <3>2. ~(run.inner > 0)
        BY <1>1, <1>4, AtStep DEF IsInner
      <3> QED
        BY <3>2 DEF Step
    <2>2. job.module \in {"asset", "cert"}
      BY <1>2, <1>4, <2>1 DEF IsStep
    <2> QED
      BY <1>4, <2>1, <2>2 DEF Lost
  <1>5. CASE ~Step.bound /\ Outer.secs = 0
    <2>1. Step = Outer
      <3>1. run.inner \in Nat
        BY DEF ModulesInv, RunState
      <3>2. ~(run.inner > 0)
        BY <1>1, <1>5, AtStep DEF IsInner
      <3> QED
        BY <3>2 DEF Step
    <2>2. late' = late
      BY <1>1, <1>5, <2>1 DEF Lost
    <2> QED
      BY <2>2
  <1> QED
    BY <1>3, <1>4, <1>5

(* A request of cert.                                                      *)
LEMMA CertLate ==
  ASSUME ModulesInv, LateInv, Unbuilt \/ Answered \/ Told \/ Lost, job.module = "cert",
         late' = late \/ late' = late + Outer.secs
  PROVE  LateInv'
  <1>1. run.pc = "step" /\ job'.module = "cert"
    BY RequestLeads
  <1>2. late \in Nat /\ run.req \in Nat /\ run.req >= 1 /\ run.req <= Outer.n
    <2>1. run.req \in Nat /\ run.req \in 1..Outer.n
      BY <1>1 DEF ModulesInv, RunState, Placed, Outer
    <2>2. Outer.n \in Nat
      BY <1>1, AtStep DEF IsStep, IsLoop
    <2>3. late \in Nat
      BY DEF ModulesInv, Surroundings
    <2> QED
      BY <2>1, <2>2, <2>3
  <1>3. CASE run.check = 1
    <2>1. /\ run.step = 1 /\ Len(Checks(job)[run.check]) = 1 /\ Outer.n = 1 /\ Outer.secs = 10
          /\ Outer.inner = <<>>
      BY <1>1, <1>3, CertTable
    <2>2. late <= 0
      BY <1>1, <1>3 DEF LateInv, Budget, Before, Early, Probing
    <2>3. run'.pc = "check" /\ run'.check = 2
      BY <1>2, <1>3, <2>1, RequestLeads
    <2>4. Budget' = 10
      BY <1>1, <2>3 DEF Budget, Before, Early, Probing
    <2> QED
      BY <1>2, <2>1, <2>2, <2>4 DEF LateInv
  <1>4. CASE run.check = 2 /\ run.step = 1
    <2>1. /\ Len(Checks(job)[run.check]) = 2 /\ Outer.n = 4 /\ Outer.secs = 5
          /\ Outer.inner = <<>>
      BY <1>1, <1>4, CertTable
    <2>2. late <= 5 + 5 * run.req
      BY <1>1, <1>4 DEF LateInv, Budget, Before, Early, Probing
    <2>3. \/ run'.pc = "check" /\ run'.check = 3
          \/ run'.pc = "step" /\ run'.check = 2 /\ run'.step = 2
          \/ /\ run'.pc = "step" /\ run'.check = 2 /\ run'.step = 1
             /\ run'.req = run.req + 1
      BY <1>2, <1>4, <2>1, RequestLeads
    <2>4. \/ Budget' = 35 \/ Budget' = 30 \/ Budget' = 5 + 5 * (run.req + 1)
      BY <1>1, <2>3 DEF Budget, Before, Early, Probing
    <2>5. run.req <= 4 /\ late' <= 5 + 5 * run.req + 5
      BY <1>2, <2>1, <2>2
    <2> QED
      BY <1>2, <2>4, <2>5, <2>1, <2>2 DEF LateInv
  <1>5. CASE run.check = 2 /\ run.step = 2
    <2>1. /\ Len(Checks(job)[run.check]) = 2 /\ Outer.n = 1 /\ Outer.secs = 5
          /\ Outer.inner = <<>>
      BY <1>1, <1>5, CertTable
    <2>2. late <= 30
      BY <1>1, <1>5 DEF LateInv, Budget, Before, Early, Probing
    <2>3. run'.pc = "check" /\ run'.check = 3
      BY <1>2, <1>5, <2>1, RequestLeads
    <2>4. Budget' = 35
      BY <1>1, <2>3 DEF Budget, Before, Early, Probing
    <2> QED
      BY <1>2, <2>1, <2>2, <2>4 DEF LateInv
  <1> QED
    BY <1>1, <1>3, <1>4, <1>5, CertTable

(* A request of asset.                                                     *)
LEMMA AssetLate ==
  ASSUME ModulesInv, LateInv, Unbuilt \/ Answered \/ Told \/ Lost, job.module = "asset",
         late' = late \/ (late' = late + Outer.secs /\ ~Outer.bound)
  PROVE  LateInv'
  <1>1. run.pc = "step" /\ job'.module = "asset"
    BY RequestLeads
  <1>2. late \in Nat /\ run.req \in Nat /\ run.req >= 1 /\ run.req <= Outer.n
    <2>1. run.req \in Nat /\ run.req \in 1..Outer.n
      BY <1>1 DEF ModulesInv, RunState, Placed, Outer
    <2>2. Outer.n \in Nat
      BY <1>1, AtStep DEF IsStep, IsLoop
    <2>3. late \in Nat
      BY DEF ModulesInv, Surroundings
    <2> QED
      BY <2>1, <2>2, <2>3
  <1>3. run.check \in Nat \ {0} /\ Outer.inner = <<>>
    BY <1>1, AssetTable DEF ModulesInv, RunState
  <1>4. CASE run.check = 1
    <2>1. late' = late /\ late <= 0
      BY <1>1, <1>4, AssetTable DEF LateInv, Budget, Before, Early, Probing
    <2>2. \/ run'.pc = "check" /\ run'.check = 2
          \/ run'.pc = "step" /\ run'.check = 1
      BY <1>3, <1>4, RequestLeads
    <2>3. Budget' = 0
      BY <1>1, <2>2 DEF Budget, Before, Early, Probing
    <2> QED
      BY <2>1, <2>3 DEF LateInv
  <1>5. CASE run.check = 2 /\ run.step = 1
    <2>1. late' = late /\ late <= 0
      BY <1>1, <1>5, AssetTable DEF LateInv, Budget, Before, Early, Probing
    <2>2. \/ run'.pc = "check" /\ run'.check = 3
          \/ run'.pc = "step" /\ run'.check = 2 /\ run'.step = 2 /\ run'.req = 1
          \/ run'.pc = "step" /\ run'.check = 2 /\ run'.step = 1
      BY <1>3, <1>5, RequestLeads
    <2>3. Budget' = 28 \/ Budget' = 2 * (1 - 1) \/ Budget' = 0
      BY <1>1, <2>2 DEF Budget, Before, Early, Probing
    <2> QED
      BY <1>2, <2>1, <2>3 DEF LateInv
  <1>6. CASE run.check = 2 /\ run.step = 2
    <2>1. Outer.n = 14 /\ Outer.secs = 2 /\ Len(Checks(job)[run.check]) = 2
      BY <1>1, <1>6, AssetTable
    <2>2. late <= 2 * (run.req - 1)
      BY <1>1, <1>6 DEF LateInv, Budget, Before, Early, Probing
    <2>3. \/ run'.pc = "check" /\ run'.check = 3
          \/ /\ run'.pc = "step" /\ run'.check = 2 /\ run'.step = 2
             /\ run'.req = run.req + 1
      BY <1>2, <1>3, <1>6, <2>1, RequestLeads
    <2>4. CASE run'.pc = "check"
      <3>1. Budget' = 28
        BY <1>1, <2>3, <2>4 DEF Budget, Before, Early, Probing
      <3> QED
        BY <1>2, <2>1, <2>2, <3>1 DEF LateInv
    <2>5. CASE run'.pc = "step"
      <3>1. Budget' = 2 * (run'.req - 1) /\ run'.req = run.req + 1
        BY <1>1, <2>3, <2>5 DEF Budget, Before, Early, Probing
      <3> QED
        BY <1>2, <2>1, <2>2, <3>1 DEF LateInv
    <2> QED
      BY <2>3, <2>4, <2>5
  <1>7. CASE run.check # 1 /\ run.check # 2
    <2>1. late' = late /\ late <= 28
      BY <1>1, <1>7, AssetTable DEF LateInv, Budget, Before, Early, Probing
    <2>2. run'.pc \in {"check", "step"} /\ run'.check \notin {1, 2}
      BY <1>3, <1>7, RequestLeads
    <2>3. Budget' = 28
      BY <1>1, <2>2 DEF Budget, Before, Early, Probing
    <2> QED
      BY <2>1, <2>3 DEF LateInv
  <1> QED
    BY <1>1, <1>4, <1>5, <1>6, <1>7, AssetTable

LEMMA LateInvNext ==
  ASSUME ModulesInv, LateInv, [Next]_vars
  PROVE  LateInv'
  <1>1. CASE WaitAgain
    <2>1. late' = 0 /\ run'.pc = "idle"
      BY <1>1, AtFacts DEF WaitAgain
    <2> QED
      BY <2>1 DEF LateInv, Budget, Before
  <1>2. CASE TakeJob \/ UnknownModule \/ Settle \/ ProbeAnswered \/ ProbeLost
    <2>1. late' = late /\ run.pc \in Before
      BY <1>2 DEF TakeJob, UnknownModule, Settle, ProbeAnswered, ProbeLost, Before, Early
    <2>2. late <= 0
      BY <2>1 DEF LateInv, Budget
    <2>3. run'.pc \in Before \/ (run'.pc = "failed" /\ job'.module = "unknown")
      BY <1>2, AtFacts DEF TakeJob, UnknownModule, Settle, ProbeAnswered, ProbeLost, Before, Early,
                           Probing
    <2>4. Budget' = 0
      BY <2>3 DEF Budget, Before, Early, Probing
    <2> QED
      BY <2>1, <2>2, <2>4 DEF LateInv
  <1>3. CASE BeginModule
    <2>1. late' = late /\ run.pc \in Before /\ job' = job
      BY <1>3 DEF BeginModule, Before, Early
    <2>2. late <= 0
      BY <2>1 DEF LateInv, Budget
    <2>3. run'.pc = "failed" \/ (run'.pc = "check" /\ run'.check = 1)
      BY <1>3, AtFacts DEF BeginModule
    <2>4. Budget' \in {0, 28, 35, 36}
      BY <2>3 DEF Budget, Before, Early, Probing, Grace
    <2>5. late \in Nat
      BY DEF ModulesInv, Surroundings
    <2> QED
      BY <2>1, <2>2, <2>4, <2>5 DEF LateInv
  <1>4. CASE NextCheck
    <2>1. /\ late' = late /\ job' = job /\ run.pc = "check"
          /\ run.check \in Nat \ {0} /\ run \in RunState
      BY <1>4 DEF NextCheck, ModulesInv, RunState
    <2>2. \/ run'.pc = "completed"
          \/ run'.pc = "check" /\ run'.check = run.check + 1
          \/ run'.pc = "step" /\ run'.check = run.check /\ run'.step = 1 /\ run'.req = 1
      <3>1. CASE run' = At("completed")
        BY <3>1, AtFacts
      <3>2. CASE run' = [run EXCEPT !.check = @ + 1]
        BY <2>1, <3>2 DEF RunState
      <3>3. CASE run' = [At("step") EXCEPT !.check = run.check]
        BY <3>3 DEF At
      <3> QED
        BY <1>4, <3>1, <3>2, <3>3 DEF NextCheck
    <2>3. late \in Nat /\ late <= Budget
      BY DEF LateInv, ModulesInv, Surroundings
    <2>4. CASE job.module = "cert"
      <3>1. run'.pc = "step" => run.check <= 2
        <4>1. Len(Checks(job)) = 2
          BY <2>4 DEF Checks, CertRun
        <4>2. CASE run.check > 2
          <5>1. run' = At("completed")
            BY <1>4, <4>1, <4>2 DEF NextCheck
          <5> QED
            BY <5>1, AtFacts
        <4> QED
          BY <2>1, <4>2
      <3>2. \/ Budget' = Budget \/ Budget' = 35
            \/ run.check = 1 /\ (Budget' = 0 \/ Budget' = 10)
        BY <2>1, <2>2, <2>4, <3>1 DEF Budget, Before, Early, Probing
      <3>3. Budget \in {0, 10, 35} /\ (run.check = 1 => Budget = 0)
        BY <2>1, <2>4 DEF Budget, Before, Early, Probing
      <3> QED
        BY <2>1, <2>3, <3>2, <3>3 DEF LateInv
    <2>5. CASE job.module = "asset"
      BY <2>1, <2>2, <2>3, <2>5 DEF LateInv, Budget, Before, Early, Probing
    <2>6. CASE job.module \notin {"cert", "asset"}
      BY <2>1, <2>2, <2>3, <2>6 DEF LateInv, Budget, Before, Early, Probing
    <2> QED
      BY <2>4, <2>5, <2>6
  <1>5. CASE Unbuilt \/ Answered \/ Told \/ Lost
    <2>1. \/ late' = late
          \/ late' = late + Outer.secs /\ ~Outer.bound /\ job.module \in {"asset", "cert"}
      BY <1>5, LostLate DEF Unbuilt, Answered, Told
    <2>2. CASE job.module = "cert"
      BY <1>5, <2>1, <2>2, CertLate
    <2>3. CASE job.module = "asset"
      BY <1>5, <2>1, <2>3, AssetLate
    <2>4. CASE job.module \notin {"cert", "asset"}
      <3>1. Budget' = Budget
        BY <1>5, <2>4, RequestLeads DEF Budget, Before, Early, Probing
      <3> QED
        BY <2>1, <2>4, <3>1 DEF LateInv
    <2> QED
      BY <2>2, <2>3, <2>4
  <1>6. CASE Panic
    <2>1. late' = late /\ job' = job /\ run'.pc = "crashed" /\ run.pc = "step"
      BY <1>6, AtFacts DEF Panic
    <2>2. job.module \notin {"cert", "asset"}
      BY <1>6, AtStep DEF Panic
    <2>3. Budget' = Budget
      BY <2>1, <2>2 DEF Budget, Before, Early, Probing
    <2> QED
      BY <2>1, <2>3 DEF LateInv
  <1>7. CASE Deadline \/ HostChanges \/ UNCHANGED vars
    <2>1. UNCHANGED <<job, run, late>>
      BY <1>7 DEF Deadline, HostChanges, vars
    <2>2. Budget' = Budget
      BY <2>1 DEF Budget
    <2> QED
      BY <2>1, <2>2 DEF LateInv
  <1>8. CASE HangsOn
    <2>1. late' = Grace + 1 /\ UNCHANGED <<job, run>> /\ run.pc = "step"
      BY <1>8 DEF HangsOn
    <2>2. ~Step.bound /\ Step.secs = 0
      BY <1>8 DEF HangsOn
    <2>3. Step = Outer
      <3>1. run.inner \in Nat
        BY DEF ModulesInv, RunState
      <3>2. ~(run.inner > 0)
        BY <2>1, <2>2, AtStep DEF IsInner
      <3> QED
        BY <3>2 DEF Step
    <2>4. job.module = "pci"
      <3>1. IsStep(Outer, job.module) /\ ~Outer.bound /\ Outer.secs = 0
        BY <2>1, <2>2, <2>3, AtStep
      <3>2. (Outer.secs = 0 /\ job.module = "pci") \/ Outer.secs > 0
        BY <3>1 DEF IsStep
      <3> QED
        BY <3>1, <3>2
    <2>5. Budget' = Grace + 1
      BY <2>1, <2>4 DEF Budget, Before, Early, Probing
    <2> QED
      BY <2>1, <2>5 DEF LateInv, Grace
  <1> QED
    BY <1>1, <1>2, <1>3, <1>4, <1>5, <1>6, <1>7, <1>8 DEF Next, WorkerStep

(* A module outlives its context by at most the time of the dials that     *)
(* look at no context, five handshakes of cert or fourteen ports; only pci *)
(* has a dial that nothing ends.                                           *)
THEOREM LateIsBounded == Spec => []LateBounded
  <1>1. Init => LateInv
    BY AtFacts DEF Init, LateInv, Budget, Before
  <1>2. ModulesInv /\ LateInv /\ [Next]_vars => LateInv'
    BY LateInvNext
  <1>3. ModulesInv /\ LateInv => LateBounded
    <2> SUFFICES ASSUME ModulesInv, LateInv, late > Grace, job.module # "pci" PROVE FALSE
      BY DEF LateBounded
    <2>0. late > 35
      BY DEF Grace
    <2>1. late \in Nat /\ late <= Budget
      BY DEF LateInv, ModulesInv, Surroundings
    <2>2. run.pc = "step" => run.req \in Nat /\ run.req \in 1..Outer.n
      BY DEF ModulesInv, RunState, Placed, Outer
    <2>3. CASE run.pc = "step" /\ job.module = "cert" /\ run.check # 1 /\ run.step = 1
      <3>1. run.check = 2 /\ Outer.n = 4
        BY <2>3, CertTable
      <3>2. Budget = 5 + 5 * run.req
        BY <2>3, <3>1 DEF Budget, Before, Early, Probing
      <3> QED
        BY <2>0, <2>1, <2>2, <2>3, <3>1, <3>2
    <2>4. CASE run.pc = "step" /\ job.module = "asset" /\ run.check = 2 /\ run.step # 1
      <3>1. Outer.n = 14
        BY <2>4, AssetTable
      <3>2. Budget = 2 * (run.req - 1)
        BY <2>4 DEF Budget, Before, Early, Probing
      <3> QED
        BY <2>0, <2>1, <2>2, <2>4, <3>1, <3>2
    <2>5. CASE ~(run.pc = "step" /\ job.module = "cert" /\ run.check # 1 /\ run.step = 1)
               /\ ~(run.pc = "step" /\ job.module = "asset" /\ run.check = 2 /\ run.step # 1)
      <3>1. Budget \in {0, 10, 28, 30, 35}
        BY <2>5 DEF Budget
      <3> QED
        BY <2>0, <2>1, <3>1
    <2> QED
      BY <2>3, <2>4, <2>5
  <1> QED
    BY <1>1, <1>2, <1>3, ModulesInvariant, PTL DEF Spec
=============================================================================
