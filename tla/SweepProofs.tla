----------------------------- MODULE SweepProofs ----------------------------
(***************************************************************************)
(* What Sweep promises for any scenarios, any requests and any number of   *)
(* records, changes and restarts, proved.                                  *)
(***************************************************************************)
EXTENDS Sweep, TLAPS, FiniteSetTheorems

(* A sequence of whatever its elements are. *)
Listed(s) == s \in Seq(ToSet(s))

(* The subject a sweeper's checks are run on. *)
SubjectOf(x) ==
    [scenario.subject EXCEPT
        !.profile = IF x.profile = None THEN None ELSE scenario.docs[x.profile]]

Steps == {"idle", "subject", "keep", "checks"}

SweeperTypeOK(x) ==
    /\ x = [pc |-> x.pc, live |-> x.live, since |-> x.since, baseline |-> x.baseline,
            profile |-> x.profile, fetched |-> x.fetched, seen |-> x.seen,
            answers |-> x.answers, checks |-> x.checks, metrics |-> x.metrics]
    /\ x.pc \in Steps /\ x.live \in BOOLEAN
    /\ Listed(x.checks) /\ Listed(x.answers) /\ Listed(x.metrics)
    /\ Len(x.answers) = Len(x.checks)
    /\ Len(x.checks) <= Len(scenario.suite)
    /\ x.pc # "checks" => x.checks = << >>

(* What a check reports.                                                   *)
Results == [id : ToSet(Alphabetical), severity : 0..3, determined : BOOLEAN,
            passed : BOOLEAN, reason : BOOLEAN]

(* An answer about our probe account is none about the anchor's endpoint.  *)
Excused(name, answer) == name = "sep10.endpoint-responds" /\ answer = "probe"

(* What the i-th finding may say, by what was asked for it and answered.   *)
FindingOK(x, i) ==
    LET r == x.checks[i]
        name == scenario.suite[i]
        answer == x.answers[i]
    IN  /\ r.determined => IF name \in AccountChecks THEN answer \in {"ok", "missing"}
                           ELSE x.profile # None
        /\ name \notin AccountChecks /\ answer \notin {"none", "ok"} =>
              /\ ProbedField(name, SubjectOf(x).profile) = "declared"
              /\ IF Excused(name, answer) THEN ~r.determined ELSE Failed(r)
        /\ r.id = "issuer.drift" <=> name = "issuer.drift"
        /\ r \in Results

(* Metrics follow the checks, and nothing is found after a request that    *)
(* the deadline cut off.                                                   *)
CutOK(x) ==
    /\ Len(x.checks) < Len(scenario.suite) => x.metrics = << >>
    /\ \A i \in DOMAIN x.answers : x.answers[i] = "cut" =>
          /\ ~x.live
          /\ \A j \in DOMAIN x.checks : j > i => ~x.checks[j].determined /\ x.answers[j] = "none"
          /\ \A j \in DOMAIN x.metrics : ~x.metrics[j].result.determined

(* What the drift check observed is what it judged against the baseline.   *)
DriftFound(x) ==
    x.seen # None =>
       \E i \in DOMAIN x.checks :
          /\ scenario.suite[i] = "issuer.drift"
          /\ x.checks[i].determined <=> x.baseline # None
          /\ x.baseline # None => (x.checks[i].passed <=> x.baseline = x.seen)

SweeperOK(x) ==
    /\ SweeperTypeOK(x)
    /\ \A i \in DOMAIN x.checks : FindingOK(x, i)
    /\ DriftFound(x)
    /\ CutOK(x)

TypeOK ==
    /\ chosen \in Scenarios
    /\ DOMAIN sweep = Sweepers
    /\ DOMAIN cache = Runners
    /\ world = [flags |-> world.flags, doc |-> world.doc] /\ world.doc \in Nat
    /\ Listed(stored)

(* The scheduled measurement compares against the last record. *)
BaselineOK ==
    sweep[Monitor].pc # "idle" => sweep[Monitor].baseline = IssuerDriftBaselineFromChecks

(* What a record says of drift, by its observation and the one before.     *)
Previous(n) == IF n = 1 THEN None ELSE stored[n - 1].seen

RecordOK(n) ==
    stored[n].seen # None =>
       stored[n].verdict = CASE Previous(n) = None -> "undetermined"
                             [] Previous(n) # None /\ Previous(n) = stored[n].seen -> "passed"
                             [] OTHER -> "failed"

(* A Runner made for a measurement holds a document no older than it.      *)
Since(doc) == doc # None => doc \in Nat /\ sweep[Monitor].since <= doc /\ doc <= world.doc

FreshOK ==
    scenario.fresh /\ sweep[Monitor].pc # "idle" =>
       /\ sweep[Monitor].since \in Nat /\ sweep[Monitor].since <= world.doc
       /\ Since(cache[Monitor]) /\ Since(sweep[Monitor].profile) /\ Since(sweep[Monitor].fetched)

IdleOK == sweep[Monitor].pc = "idle" => sweep[Monitor] = Idle

IInv ==
    /\ TypeOK
    /\ \A p \in Sweepers : SweeperOK(sweep[p])
    /\ BaselineOK
    /\ \A n \in DOMAIN stored : RecordOK(n)
    /\ FreshOK /\ IdleOK
-----------------------------------------------------------------------------
(* One element more at the end of a sequence.                              *)
LEMMA Appended ==
    ASSUME NEW s, Listed(s), NEW e
    PROVE  /\ Listed(Append(s, e))
           /\ Len(s) \in Nat /\ Len(Append(s, e)) = Len(s) + 1
           /\ DOMAIN s = 1..Len(s)
           /\ DOMAIN Append(s, e) = 1..(Len(s) + 1)
           /\ \A i \in 1..Len(s) : Append(s, e)[i] = s[i]
           /\ Append(s, e)[Len(s) + 1] = e
<1> DEFINE S == ToSet(s) \cup {e}
<1>1. s \in Seq(S) /\ e \in S
  BY DEF Listed
<1> HIDE DEF S
<1>2. PICK t \in Seq(S) : t = Append(s, e)
  <2>1. Append(s, e) \in Seq(S)
    BY <1>1
  <2> QED
    BY <2>1
<1>3. /\ Len(s) \in Nat /\ Len(t) = Len(s) + 1 /\ DOMAIN s = 1..Len(s)
      /\ DOMAIN t = 1..(Len(s) + 1)
      /\ \A i \in 1..Len(s) : t[i] = s[i]
      /\ t[Len(s) + 1] = e
  BY <1>1, <1>2
<1>4. ToSet(t) = ToSet(s) \cup {e}
  <2>1. \A i \in 1..(Len(s) + 1) : i \in 1..Len(s) \/ i = Len(s) + 1
    BY <1>3
  <2>2. Len(s) + 1 \in DOMAIN t /\ \A i \in DOMAIN s : i \in DOMAIN t
    BY <1>3
  <2> QED
    BY <1>3, <2>1, <2>2 DEF ToSet
<1> QED
  BY <1>2, <1>3, <1>4 DEF Listed

(* Nothing is a list of nothing.                                           *)
LEMMA EmptyListed == Listed(<< >>) /\ Len(<< >>) = 0 /\ DOMAIN << >> = {}
BY DEF Listed

(* A judgement is known unless something it needs is missing.              *)
LEMMA Judged ==
    ASSUME NEW d, NEW unknown, NEW fails
    PROVE  /\ Judge(d, unknown, fails).determined <=> ~unknown
           /\ Judge(d, unknown, fails).passed <=> ~unknown /\ ~fails
           /\ Judge(d, unknown, fails).id = d.id
BY DEF Judge, Pass, Fail, Undetermined

(* A check reports itself under its own name.                              *)
LEMMA Named ==
    ASSUME NEW name \in CheckNames \ Contributed
    PROVE  Describe(name).id = name
BY DEF Describe, Descriptor, CheckNames, Contributed, AccountChecks

(* A check that asks about the account is known only by an answer about it *)
(* (issuer_auth_flags.go:96-150).                                          *)
LEMMA AccountFacts ==
    ASSUME NEW name \in AccountChecks, NEW s, NEW answer, NEW document, NEW baseline
    PROVE  LET r == BuiltIn(name, s, answer, document, baseline)
           IN  /\ r.id = name
               /\ r.determined => answer.status \in {"ok", "missing"} /\ Asks(name, s)
<1> DEFINE r == BuiltIn(name, s, answer, document, baseline)
           known == answer.status \in {"ok", "missing"} /\ Asks(name, s)
<1>0. Describe(name).id = name
  BY Named DEF CheckNames, Contributed, AccountChecks
<1>1. CASE name = "issuer.auth-flags"
  <2> DEFINE unknown == s.issuer = None \/ Silent(answer)
             fails == answer.status = "missing" \/
                         (answer.body.flags.clawback \/ answer.body.flags.revocable)
  <2>1. r = Judge(Describe(name), unknown, fails)
    BY <1>1 DEF BuiltIn, IssuerAuthFlags, OnAccount
  <2>2. ~unknown => known
    BY <1>1 DEF Silent, Asks, AccountChecks
  <2> HIDE DEF unknown, fails, r, known
  <2>3. r.id = name /\ (r.determined <=> ~unknown)
    BY <1>0, <2>1, Judged
  <2> QED
    BY <2>2, <2>3 DEF known, r
<1>2. CASE name = "issuer.auth-immutable"
  <2> DEFINE unknown == s.issuer = None \/ Silent(answer)
             fails == answer.status = "missing" \/ ~answer.body.flags.immutable
  <2>1. r = Judge(Describe(name), unknown, fails)
    BY <1>2 DEF BuiltIn, IssuerFlagImmutability, OnAccount
  <2>2. ~unknown => known
    BY <1>2 DEF Silent, Asks, AccountChecks
  <2> HIDE DEF unknown, fails, r, known
  <2>3. r.id = name /\ (r.determined <=> ~unknown)
    BY <1>0, <2>1, Judged
  <2> QED
    BY <2>2, <2>3 DEF known, r
<1>3. CASE name = "issuer.drift"
  <2> DEFINE unknown == \/ s.issuer = None \/ s.profile = None \/ Silent(answer)
                        \/ answer.status = "ok" /\ baseline = None
             fails == \/ answer.status = "missing"
                      \/ baseline # issuerDriftObservation(s, answer)
  <2>1. r = Judge(Describe(name), unknown, fails)
    BY <1>3 DEF BuiltIn, IssuerDrift
  <2>2. ~unknown => known
    BY <1>3 DEF Silent, Asks, AccountChecks
  <2> HIDE DEF unknown, fails, r, known
  <2>3. r.id = name /\ (r.determined <=> ~unknown)
    BY <1>0, <2>1, Judged
  <2> QED
    BY <2>2, <2>3 DEF known, r
<1>4. CASE name = "toml.home-domain-roundtrip"
  <2> DEFINE unknown == \/ s.issuer = None \/ answer.status # "ok"
                        \/ answer.body.homeDomain = None \/ document = None
             fails == findCurrency(document, s.code, s.issuer) = << >>
  <2>1. r = Judge(Describe(name), unknown, fails)
    BY <1>4 DEF BuiltIn, HomeDomainRoundTrip
  <2>2. ~unknown => known
    BY <1>4 DEF Silent, Asks, AccountChecks
  <2> HIDE DEF unknown, fails, r, known
  <2>3. r.id = name /\ (r.determined <=> ~unknown)
    BY <1>0, <2>1, Judged
  <2> QED
    BY <2>2, <2>3 DEF known, r
<1> QED
  BY <1>1, <1>2, <1>3, <1>4 DEF AccountChecks

(* A check that reads the document is known only when there is one, asks   *)
(* only an address that is declared there, and fails by any answer of it   *)
(* short of 200 but one (docs/checks.md:205-222).                          *)
LEMMA DocumentFacts ==
    ASSUME NEW name \in CheckNames \ (Contributed \cup AccountChecks),
           NEW s, NEW answer, NEW document, NEW baseline
    PROVE  LET r == BuiltIn(name, s, answer, document, baseline)
           IN  /\ r.id = name
               /\ r.determined => s.profile # None
               /\ Asks(name, s) => ProbedField(name, s.profile) = "declared"
               /\ Asks(name, s) /\ answer.status # "ok" =>
                     IF Excused(name, answer.status) THEN ~r.determined ELSE Failed(r)
<1> DEFINE r == BuiltIn(name, s, answer, document, baseline)
           known == s.profile # None
<1>0. Describe(name).id = name
  BY Named
<1>a. name \notin AccountChecks /\ (Asks(name, s) => ProbedField(name, s.profile) = "declared")
  BY DEF Asks
<1>b. Asks(name, s) => /\ known /\ (name = "sep31.info" => s.code # None)
                       /\ name \in {"sep6.info-lists-asset", "sep24.info-lists-asset"}
                             => transferCurrency(s) # << >>
  BY <1>a DEF Asks
<1>1. CASE name = "toml.anchor-asset-iso4217"
  <2> DEFINE unknown == LET entries == findCurrency(s.profile, s.code, s.issuer)
                            declared == Head(entries).anchorAsset
                        IN  \/ s.profile = None \/ s.code = None
                            \/ entries = << >> \/ declared = "absent"
             fails == LET entries == findCurrency(s.profile, s.code, s.issuer)
                          declared == Head(entries).anchorAsset
                      IN  declared = "self" \/ ~isISO4217Shaped(declared)
  <2>1. r = Judge(Describe(name), unknown, fails)
    BY <1>1 DEF BuiltIn, AnchorAssetISO4217
  <2>2. (~unknown => known) /\ ~Asks(name, s)
    BY <1>1, <1>a DEF ProbedField
  <2> HIDE DEF unknown, fails, r, known
  <2>3. r.id = name /\ (r.determined <=> ~unknown) /\ (Failed(r) <=> ~unknown /\ fails)
    BY <1>0, <2>1, Judged DEF Failed
  <2> QED
    BY <1>1, <1>a, <2>2, <2>3 DEF known, r
<1>2. CASE name = "sep12.server-published"
  <2> DEFINE unknown == s.profile = None
             fails == s.profile.kyc = "absent"
  <2>1. r = Judge(Describe(name), unknown, fails)
    BY <1>2 DEF BuiltIn, SEP12ServerPublished
  <2>2. (~unknown => known) /\ ~Asks(name, s)
    BY <1>2, <1>a DEF ProbedField
  <2> HIDE DEF unknown, fails, r, known
  <2>3. r.id = name /\ (r.determined <=> ~unknown) /\ (Failed(r) <=> ~unknown /\ fails)
    BY <1>0, <2>1, Judged DEF Failed
  <2> QED
    BY <1>2, <1>a, <2>2, <2>3 DEF known, r
<1>3. CASE name = "sep38.quote-server-published"
  <2> DEFINE unknown == s.profile = None
             fails == s.profile.quote = "absent"
  <2>1. r = Judge(Describe(name), unknown, fails)
    BY <1>3 DEF BuiltIn, SEP38QuoteServerPublished
  <2>2. (~unknown => known) /\ ~Asks(name, s)
    BY <1>3, <1>a DEF ProbedField
  <2> HIDE DEF unknown, fails, r, known
  <2>3. r.id = name /\ (r.determined <=> ~unknown) /\ (Failed(r) <=> ~unknown /\ fails)
    BY <1>0, <2>1, Judged DEF Failed
  <2> QED
    BY <1>3, <1>a, <2>2, <2>3 DEF known, r
<1>4. CASE name = "sep31.info"
  <2> DEFINE unknown == s.profile = None \/ s.code = None
             fails == \/ s.profile.directPayment # "declared" \/ answer.status # "ok"
                      \/ ~answer.body.listed \/ ~answer.body.enabled
  <2>1. r = Judge(Describe(name), unknown, fails)
    BY <1>4 DEF BuiltIn, SEP31Info
  <2>2. /\ ~unknown => known
        /\ Asks(name, s) /\ answer.status # "ok" => ~unknown /\ fails
        /\ ~Excused(name, answer.status)
    BY <1>4, <1>a, <1>b DEF ProbedField, Excused
  <2> HIDE DEF unknown, fails, r, known
  <2>3. r.id = name /\ (r.determined <=> ~unknown) /\ (Failed(r) <=> ~unknown /\ fails)
    BY <1>0, <2>1, Judged DEF Failed
  <2> QED
    BY <1>4, <1>a, <2>2, <2>3 DEF known, r
<1>5. CASE name = "sep6.info-lists-asset"
  <2> DEFINE unknown == s.profile = None \/ s.profile.transfer = "absent" \/ transferCurrency(s) = << >>
             fails == s.profile.transfer = "unusable" \/ answer.status # "ok" \/ ~answer.body.listed
  <2>1. r = Judge(Describe(name), unknown, fails)
    BY <1>5 DEF BuiltIn, SEP6InfoListsAsset, InfoLists
  <2>2. /\ ~unknown => known
        /\ Asks(name, s) /\ answer.status # "ok" => ~unknown /\ fails
        /\ ~Excused(name, answer.status)
    BY <1>5, <1>a, <1>b DEF ProbedField, Excused
  <2> HIDE DEF unknown, fails, r, known
  <2>3. r.id = name /\ (r.determined <=> ~unknown) /\ (Failed(r) <=> ~unknown /\ fails)
    BY <1>0, <2>1, Judged DEF Failed
  <2> QED
    BY <1>5, <1>a, <2>2, <2>3 DEF known, r
<1>6. CASE name = "sep24.info-lists-asset"
  <2> DEFINE unknown == s.profile = None \/ s.profile.transfer24 = "absent" \/ transferCurrency(s) = << >>
             fails == s.profile.transfer24 = "unusable" \/ answer.status # "ok" \/ ~answer.body.listed
  <2>1. r = Judge(Describe(name), unknown, fails)
    BY <1>6 DEF BuiltIn, SEP24InfoListsAsset, InfoLists
  <2>2. /\ ~unknown => known
        /\ Asks(name, s) /\ answer.status # "ok" => ~unknown /\ fails
        /\ ~Excused(name, answer.status)
    BY <1>6, <1>a, <1>b DEF ProbedField, Excused
  <2> HIDE DEF unknown, fails, r, known
  <2>3. r.id = name /\ (r.determined <=> ~unknown) /\ (Failed(r) <=> ~unknown /\ fails)
    BY <1>0, <2>1, Judged DEF Failed
  <2> QED
    BY <1>6, <1>a, <2>2, <2>3 DEF known, r
<1>7. CASE name = "sep10.endpoint-responds"
  <2> DEFINE declared == s.profile.webAuth
             unknown == \/ s.profile = None \/ declared = "absent"
                        \/ declared = "declared" /\ rejectsProbe(answer)
             fails == declared = "unusable" \/ answer.status # "ok" \/ ~answer.body.listed
  <2>1. r = Judge(Describe(name), unknown, fails)
    BY <1>7 DEF BuiltIn, SEP10EndpointResponds
  <2>2. ~unknown => known
    OBVIOUS
  <2>3. Asks(name, s) /\ answer.status # "ok" =>
           IF Excused(name, answer.status) THEN unknown ELSE ~unknown /\ fails
    BY <1>7, <1>a, <1>b DEF ProbedField, rejectsProbe, Excused
  <2> HIDE DEF unknown, fails, r, known
  <2>4. r.id = name /\ (r.determined <=> ~unknown) /\ (Failed(r) <=> ~unknown /\ fails)
    BY <1>0, <2>1, Judged DEF Failed
  <2> QED
    BY <1>a, <2>2, <2>3, <2>4 DEF known, r
<1> QED
  BY <1>1, <1>2, <1>3, <1>4, <1>5, <1>6, <1>7 DEF CheckNames

(* What a check declares of itself is in the alphabet.                     *)
LEMMA AlphabetLength == DOMAIN Alphabetical = 1..13
BY DEF Alphabetical

(* Each place of the alphabet holds one of its names.                      *)
LEMMA InAlphabet == \A i \in 1..13 : Alphabetical[i] \in ToSet(Alphabetical)
BY AlphabetLength DEF ToSet

(* What a check calls itself, and how grave it finds what it finds.        *)
LEMMA DescribesItself ==
    ASSUME NEW name \in CheckNames
    PROVE  /\ Describe(name).id \in ToSet(Alphabetical)
           /\ Describe(name).severity \in 0..3
<1>1. Describe(name).id \in ToSet(Alphabetical)
  <2>1. Describe(name).id \in {"", "contributed", "issuer.auth-flags", "issuer.auth-immutable",
            "issuer.drift", "sep10.endpoint-responds", "sep12.server-published",
            "sep24.info-lists-asset", "sep31.info", "sep38.quote-server-published",
            "sep6.info-lists-asset", "toml.anchor-asset-iso4217", "toml.home-domain-roundtrip"}
    BY DEF Describe, Descriptor, CheckNames, Contributed, AccountChecks
  <2>2. /\ Alphabetical[1] = "" /\ Alphabetical[2] = "contributed"
        /\ Alphabetical[3] = "issuer.auth-flags" /\ Alphabetical[4] = "issuer.auth-immutable"
        /\ Alphabetical[5] = "issuer.drift" /\ Alphabetical[6] = "sep10.endpoint-responds"
        /\ Alphabetical[7] = "sep12.server-published" /\ Alphabetical[8] = "sep24.info-lists-asset"
        /\ Alphabetical[9] = "sep31.info" /\ Alphabetical[10] = "sep38.quote-server-published"
        /\ Alphabetical[11] = "sep6.info-lists-asset" /\ Alphabetical[12] = "toml.anchor-asset-iso4217"
        /\ Alphabetical[13] = "toml.home-domain-roundtrip"
    BY DEF Alphabetical
  <2>3. /\ Alphabetical[1] \in ToSet(Alphabetical)
        /\ Alphabetical[2] \in ToSet(Alphabetical)
        /\ Alphabetical[3] \in ToSet(Alphabetical)
        /\ Alphabetical[4] \in ToSet(Alphabetical)
        /\ Alphabetical[5] \in ToSet(Alphabetical)
        /\ Alphabetical[6] \in ToSet(Alphabetical)
        /\ Alphabetical[7] \in ToSet(Alphabetical)
        /\ Alphabetical[8] \in ToSet(Alphabetical)
        /\ Alphabetical[9] \in ToSet(Alphabetical)
        /\ Alphabetical[10] \in ToSet(Alphabetical)
        /\ Alphabetical[11] \in ToSet(Alphabetical)
        /\ Alphabetical[12] \in ToSet(Alphabetical)
        /\ Alphabetical[13] \in ToSet(Alphabetical)
    BY InAlphabet
  <2> QED
    BY <2>1, <2>2, <2>3
<1>2. Describe(name).severity \in 0..3
  BY DEF Describe, Descriptor, CheckNames, Contributed, AccountChecks, Info, Notice, Warning, Critical
<1> QED
  BY <1>1, <1>2

(* Every check is decided by what makes it unknown and what makes it fail. *)
LEMMA BuiltInJudges ==
    ASSUME NEW name \in CheckNames \ Contributed, NEW s, NEW answer, NEW document, NEW baseline
    PROVE  \E unknown, fails :
              BuiltIn(name, s, answer, document, baseline) = Judge(Describe(name), unknown, fails)
<1> DEFINE b == BuiltIn(name, s, answer, document, baseline)
<1>1. CASE name = "toml.anchor-asset-iso4217"
  BY <1>1 DEF BuiltIn, AnchorAssetISO4217
<1>2. CASE name = "sep12.server-published"
  BY <1>2 DEF BuiltIn, SEP12ServerPublished
<1>3. CASE name = "sep31.info"
  BY <1>3 DEF BuiltIn, SEP31Info
<1>4. CASE name = "sep10.endpoint-responds"
  BY <1>4 DEF BuiltIn, SEP10EndpointResponds
<1>5. CASE name = "sep6.info-lists-asset"
  BY <1>5 DEF BuiltIn, SEP6InfoListsAsset, InfoLists
<1>6. CASE name = "sep24.info-lists-asset"
  BY <1>6 DEF BuiltIn, SEP24InfoListsAsset, InfoLists
<1>7. CASE name = "sep38.quote-server-published"
  BY <1>7 DEF BuiltIn, SEP38QuoteServerPublished
<1>8. CASE name = "issuer.auth-flags"
  BY <1>8 DEF BuiltIn, IssuerAuthFlags, OnAccount
<1>9. CASE name = "issuer.auth-immutable"
  BY <1>9 DEF BuiltIn, IssuerFlagImmutability, OnAccount
<1>10. CASE name = "issuer.drift"
  BY <1>10 DEF BuiltIn, IssuerDrift
<1>11. CASE name = "toml.home-domain-roundtrip"
  BY <1>11 DEF BuiltIn, HomeDomainRoundTrip
<1>12. name \in AccountChecks \cup
              {"toml.anchor-asset-iso4217", "sep12.server-published", "sep31.info",
               "sep10.endpoint-responds", "sep6.info-lists-asset",
               "sep24.info-lists-asset", "sep38.quote-server-published"}
  BY DEF CheckNames
<1> QED
  BY <1>1, <1>2, <1>3, <1>4, <1>5, <1>6, <1>7, <1>8, <1>9, <1>10, <1>11, <1>12 DEF AccountChecks

(* Whatever a check finds, it reports in one form (checks.go:450-490).     *)
LEMMA RunReports ==
    ASSUME NEW name \in CheckNames, NEW live, NEW s, NEW answer, NEW document, NEW baseline
    PROVE  Run(name, live, s, answer, document, baseline) \in Results
<1> DEFINE d == Describe(name)
<1>1. /\ Pass(d) \in Results /\ Fail(d) \in Results /\ Undetermined(d) \in Results
  <2>1. d.id \in ToSet(Alphabetical) /\ d.severity \in 0..3
    BY DescribesItself
  <2> HIDE DEF d
  <2> QED
    BY <2>1 DEF Pass, Fail, Undetermined, Results
<1>2. ASSUME NEW unknown, NEW fails PROVE Judge(d, unknown, fails) \in Results
  BY <1>1 DEF Judge
<1>3. CASE name \in Contributed \/ ~live
  BY <1>1, <1>3 DEF Run
<1>4. CASE ~(name \in Contributed \/ ~live)
  <2>1. PICK unknown, fails :
           BuiltIn(name, s, answer, document, baseline) = Judge(d, unknown, fails)
    BY <1>4, BuiltInJudges
  <2> QED
    BY <1>2, <1>4, <2>1 DEF Run
<1> QED
  BY <1>3, <1>4

(* What a check may find, by what was asked for it and answered            *)
(* (checks.go:10-15, docs/checks.md, "Whose failure is it?").              *)
LEMMA RunFacts ==
    ASSUME NEW name \in CheckNames, NEW live, NEW s, NEW answer, NEW document,
           NEW baseline, NEW asked,
           asked = IF live /\ name \notin Contributed /\ Asks(name, s)
                   THEN answer.status ELSE "none"
    PROVE  LET r == Run(name, live, s, answer, document, baseline)
           IN  /\ r.determined => IF name \in AccountChecks THEN asked \in {"ok", "missing"}
                                  ELSE s.profile # None
               /\ name \notin AccountChecks /\ asked \notin {"none", "ok"} =>
                     /\ ProbedField(name, s.profile) = "declared"
                     /\ IF Excused(name, asked) THEN ~r.determined ELSE Failed(r)
               /\ r.id = "issuer.drift" <=> name = "issuer.drift"
               /\ r.determined => live
               /\ r \in Results
<1> DEFINE r == Run(name, live, s, answer, document, baseline)
<1>3. r \in Results
  BY RunReports
<1>1. CASE name \in Contributed \/ ~live
  <2>1. r = Undetermined(Describe(name))
    BY <1>1 DEF Run
  <2>2. ~r.determined /\ r.id = Describe(name).id
    BY <2>1 DEF Undetermined, Pass
  <2>3. Describe(name).id = "issuer.drift" <=> name = "issuer.drift"
    BY DEF Describe, Descriptor, CheckNames, Contributed, AccountChecks
  <2>4. asked = "none"
    BY <1>1
  <2> HIDE DEF r
  <2> QED
    BY <1>3, <2>2, <2>3, <2>4 DEF r
<1>2. CASE name \notin Contributed /\ live
  <2>1. r = BuiltIn(name, s, answer, document, baseline)
    BY <1>2 DEF Run
  <2>2. asked = IF Asks(name, s) THEN answer.status ELSE "none"
    BY <1>2
  <2> HIDE DEF r
  <2>3. CASE name \in AccountChecks
    <3>1. /\ r.id = name
          /\ r.determined => answer.status \in {"ok", "missing"} /\ Asks(name, s)
      BY <2>1, <2>3, AccountFacts
    <3>2. r.determined => asked \in {"ok", "missing"}
      BY <2>2, <3>1
    <3> QED
      BY <1>2, <1>3, <2>3, <3>1, <3>2 DEF r
  <2>4. CASE name \notin AccountChecks
    <3>1. /\ r.id = name
          /\ r.determined => s.profile # None
          /\ Asks(name, s) => ProbedField(name, s.profile) = "declared"
          /\ Asks(name, s) /\ answer.status # "ok" =>
                IF Excused(name, answer.status) THEN ~r.determined ELSE Failed(r)
      BY <1>2, <2>1, <2>4, DocumentFacts
    <3> QED
      BY <1>2, <1>3, <2>2, <2>4, <3>1 DEF r
  <2> QED
    BY <2>3, <2>4
<1> QED
  BY <1>1, <1>2

(* What the drift check observes it judges against the baseline            *)
(* (issuer_drift.go:60-134).                                               *)
LEMMA DriftFacts ==
    ASSUME NEW s, NEW answer, NEW document, NEW baseline,
           issuerDriftObservation(s, answer) # None
    PROVE  LET r == Run("issuer.drift", TRUE, s, answer, document, baseline)
           IN  /\ r.determined <=> baseline # None
               /\ baseline # None => (r.passed <=> baseline = issuerDriftObservation(s, answer))
<1> DEFINE r == Run("issuer.drift", TRUE, s, answer, document, baseline)
           unknown == \/ s.issuer = None \/ s.profile = None \/ Silent(answer)
                      \/ answer.status = "ok" /\ baseline = None
           fails == \/ answer.status = "missing"
                    \/ baseline # issuerDriftObservation(s, answer)
<1>1. r = Judge(Describe("issuer.drift"), unknown, fails)
  BY DEF Run, Contributed, BuiltIn, IssuerDrift
<1>2. s.issuer # None /\ s.profile # None /\ answer.status = "ok"
  BY DEF issuerDriftObservation
<1>3. /\ unknown <=> baseline = None
      /\ fails <=> baseline # issuerDriftObservation(s, answer)
  BY <1>2 DEF Silent
<1> HIDE DEF unknown, fails, r
<1>4. /\ r.determined <=> ~unknown
      /\ r.passed <=> ~unknown /\ ~fails
  BY <1>1, Judged
<1> QED
  BY <1>3, <1>4 DEF r
-----------------------------------------------------------------------------
(* The subject keeps everything but its profile.                           *)
LEMMA SubjectProfile ==
    ASSUME chosen \in Scenarios, NEW x
    PROVE  x.profile = None => SubjectOf(x).profile = None
BY SettingAssumption DEF SubjectOf, scenario

(* A sweeper that takes a step is the only one that changes.               *)
LEMMA StepFacts ==
    ASSUME DOMAIN sweep = Sweepers, NEW p \in Sweepers, NEW new, Step(p, new)
    PROVE  /\ DOMAIN sweep' = Sweepers /\ sweep'[p] = new
           /\ \A q \in Sweepers : q # p => sweep'[q] = sweep[q]
BY DEF Step

(* An idle sweeper has found nothing.                                      *)
LEMMA IdleIsOK ==
    ASSUME chosen \in Scenarios
    PROVE  SweeperOK(Idle)
<1>1. SweeperTypeOK(Idle)
  BY EmptyListed, SettingAssumption DEF Idle, SweeperTypeOK, Steps, scenario
<1>2. /\ DOMAIN Idle.checks = {} /\ DOMAIN Idle.answers = {}
      /\ Idle.seen = None /\ Idle.metrics = << >>
  BY DEF Idle
<1> QED
  BY <1>1, <1>2 DEF SweeperOK, DriftFound, CutOK

-----------------------------------------------------------------------------
(* Before its first check a sweeper has found nothing, wherever it is.     *)
LEMMA NothingYet ==
    ASSUME chosen \in Scenarios, NEW x, NEW y, SweeperTypeOK(x), CutOK(x),
           x.checks = << >>, x.seen = None,
           y = [x EXCEPT !.pc = y.pc, !.live = y.live, !.since = y.since,
                         !.baseline = y.baseline, !.profile = y.profile,
                         !.fetched = y.fetched],
           y.pc \in Steps, y.live \in BOOLEAN
    PROVE  SweeperOK(y)
<1>1. /\ y = [pc |-> y.pc, live |-> y.live, since |-> y.since, baseline |-> y.baseline,
              profile |-> y.profile, fetched |-> y.fetched, seen |-> y.seen,
              answers |-> y.answers, checks |-> y.checks, metrics |-> y.metrics]
      /\ y.seen = None /\ y.checks = << >> /\ y.answers = x.answers /\ y.metrics = x.metrics
  BY DEF SweeperTypeOK
<1>2. SweeperTypeOK(y)
  BY <1>1 DEF SweeperTypeOK
<1>3. DOMAIN y.checks = {} /\ DOMAIN y.answers = {}
  <2>1. Listed(y.answers) /\ Len(y.answers) = 0
    BY <1>1, <1>2 DEF SweeperTypeOK
  <2>2. DOMAIN y.answers = 1..0
    BY <2>1, Appended
  <2> QED
    BY <1>1, <2>2
<1>4. CutOK(y)
  BY <1>1, <1>3 DEF CutOK
<1> QED
  BY <1>1, <1>2, <1>3, <1>4 DEF SweeperOK, DriftFound

(* Starting, and getting hold of the document, find nothing.               *)
LEMMA SubjectKeeps ==
    ASSUME IInv, NEW p \in Sweepers, Begin(p) \/ Cached(p) \/ Resolve(p) \/ Keep(p)
    PROVE  SweeperOK(sweep'[p])
<1>1. /\ chosen \in Scenarios /\ DOMAIN sweep = Sweepers
      /\ SweeperTypeOK(sweep[p]) /\ SweeperOK(sweep[p])
  BY DEF IInv, TypeOK, SweeperOK
<1>2. CASE Begin(p)
  <2> DEFINE y == [Idle EXCEPT !.pc = "subject", !.since = world.doc,
                               !.baseline = IssuerDriftBaselineFromChecks]
  <2>1. sweep'[p] = y
    BY <1>1, <1>2, StepFacts DEF Begin
  <2>2. SweeperTypeOK(Idle) /\ CutOK(Idle) /\ Idle.checks = << >> /\ Idle.seen = None
    BY <1>1, IdleIsOK DEF Idle, SweeperOK
  <2>3. y.pc = "subject" /\ y.live \in BOOLEAN
    BY DEF Idle
  <2>4. y = [Idle EXCEPT !.pc = y.pc, !.live = y.live, !.since = y.since,
                         !.baseline = y.baseline, !.profile = y.profile,
                         !.fetched = y.fetched]
    BY DEF Idle
  <2> HIDE DEF y
  <2>5. SweeperOK(y)
    BY <1>1, <2>2, <2>3, <2>4, NothingYet DEF Steps
  <2> QED
    BY <2>1, <2>5
<1>3. CASE Cached(p) \/ Resolve(p) \/ Keep(p)
  <2>1. PICK x : x = sweep[p]
    OBVIOUS
  <2>2. /\ SweeperTypeOK(x) /\ SweeperOK(x) /\ CutOK(x) /\ x.pc # "checks" /\ x.checks = << >>
    BY <1>1, <1>3, <2>1 DEF Cached, Resolve, Keep, Goes, SweeperTypeOK, SweeperOK
  <2>3. x.seen = None
    BY <2>2, EmptyListed DEF SweeperOK, DriftFound
  <2> DEFINE after(pc, profile, fetched) ==
                [x EXCEPT !.pc = pc, !.profile = profile, !.fetched = fetched]
  <2>4. PICK pc, profile, fetched : pc \in Steps /\ sweep'[p] = after(pc, profile, fetched)
    <3>s. "keep" \in Steps /\ "checks" \in Steps
      BY DEF Steps
    <3>1. CASE Cached(p)
      <4>1. PICK profile : sweep'[p] = [x EXCEPT !.pc = "checks", !.profile = profile]
        BY <1>1, <2>1, <3>1, StepFacts DEF Cached
      <4>2. sweep'[p] = after("checks", profile, x.fetched)
        BY <2>2, <4>1 DEF SweeperTypeOK
      <4> HIDE DEF after
      <4> QED
        BY <3>s, <4>2
    <3>2. CASE Resolve(p)
      <4>1. CASE Step(p, [x EXCEPT !.pc = "keep", !.fetched = world.doc])
        <5>1. sweep'[p] = [x EXCEPT !.pc = "keep", !.fetched = world.doc]
          BY <1>1, <4>1, StepFacts
        <5>2. sweep'[p] = after("keep", x.profile, world.doc)
          BY <2>2, <5>1 DEF SweeperTypeOK
        <5> HIDE DEF after
        <5> QED
          BY <3>s, <5>2
      <4>2. CASE Step(p, [x EXCEPT !.pc = "checks"])
        <5>1. sweep'[p] = [x EXCEPT !.pc = "checks"]
          BY <1>1, <4>2, StepFacts
        <5>2. sweep'[p] = after("checks", x.profile, x.fetched)
          BY <2>2, <5>1 DEF SweeperTypeOK
        <5> HIDE DEF after
        <5> QED
          BY <3>s, <5>2
      <4> QED
        BY <2>1, <3>2, <4>1, <4>2 DEF Resolve
    <3>3. CASE Keep(p)
      <4>1. sweep'[p] = [x EXCEPT !.pc = "checks", !.profile = x.fetched]
        BY <1>1, <2>1, <3>3, StepFacts DEF Keep
      <4>2. sweep'[p] = after("checks", x.fetched, x.fetched)
        BY <2>2, <4>1 DEF SweeperTypeOK
      <4> HIDE DEF after
      <4> QED
        BY <3>s, <4>2
    <3> QED
      BY <1>3, <3>1, <3>2, <3>3
  <2> DEFINE y == after(pc, profile, fetched)
  <2>5. /\ y.pc = pc /\ y.live = x.live /\ y.live \in BOOLEAN
        /\ y = [x EXCEPT !.pc = y.pc, !.live = y.live, !.since = y.since,
                         !.baseline = y.baseline, !.profile = y.profile,
                         !.fetched = y.fetched]
    BY <2>2 DEF SweeperTypeOK
  <2> HIDE DEF y
  <2>6. SweeperOK(y)
    BY <1>1, <2>2, <2>3, <2>4, <2>5, NothingYet
  <2> QED
    BY <2>4, <2>6 DEF y
<1> QED
  BY <1>2, <1>3


(* A check that ran has its finding, the answer to what it asked, and the  *)
(* observation it left, side by side (checks.go:450-505).                  *)
LEMMA CheckKeeps ==
    ASSUME IInv, NEW p \in Sweepers, Check(p)
    PROVE  SweeperOK(sweep'[p])
<1>1. PICK x : x = sweep[p]
  OBVIOUS
<1>2. /\ chosen \in Scenarios /\ DOMAIN sweep = Sweepers
      /\ SweeperTypeOK(x) /\ SweeperOK(x) /\ x.pc = "checks"
  BY <1>1 DEF IInv, TypeOK, SweeperOK, Check, Goes
<1>3. PICK i, name, s : /\ i = Len(x.checks) + 1 /\ name = scenario.suite[i] /\ s = SubjectOf(x)
  OBVIOUS
<1> DEFINE asks == x.live /\ name \notin Contributed /\ Asks(name, s)
           found(answer, document) == Run(name, x.live, s, answer, document, x.baseline)
           asked(answer) == IF asks THEN answer.status ELSE "none"
           observed(answer) == IF asks /\ name = "issuer.drift"
                               THEN issuerDriftObservation(s, answer) ELSE x.seen
           new(answer, document, cut) ==
              [x EXCEPT !.live = @ /\ ~cut, !.answers = Append(@, asked(answer)),
                        !.seen = IF asks /\ name = "issuer.drift"
                                 THEN issuerDriftObservation(s, answer) ELSE @,
                        !.checks = Append(@, found(answer, document))]
<1>4. PICK answer, document, cut : /\ cut \in BOOLEAN /\ sweep'[p] = new(answer, document, cut)
                                   /\ asks /\ answer.status = "cut" => cut
  <2>1. Subject(p) = s
    BY <1>1, <1>3 DEF Subject, SubjectOf
  <2>2. \/ \E answer, document : /\ asks => answer.status # "cut"
                                 /\ Step(p, new(answer, document, FALSE))
        \/ Step(p, new(Cut, None, TRUE))
    <3>1. \A answer \in AccountAnswers \cup ProbeAnswers : answer.status # "cut"
      BY <1>2, SettingAssumption DEF AccountAnswers, Account, ProbeAnswers, scenario
    <3>2. \/ ~asks /\ Step(p, new(Lost, None, FALSE))
          \/ Step(p, new(Cut, None, TRUE))
          \/ \E answer \in IF name \in AccountChecks THEN AccountAnswers ELSE ProbeAnswers :
                \E document : Step(p, new(answer, document, FALSE))
      BY <1>1, <1>3, <2>1 DEF Check
    <3> HIDE DEF new, asks
    <3> QED
      BY <3>1, <3>2
  <2>3. ASSUME NEW y, Step(p, y) PROVE sweep'[p] = y
    BY <1>2, <2>3, StepFacts
  <2>4. FALSE \in BOOLEAN /\ TRUE \in BOOLEAN
    OBVIOUS
  <2>5. CASE \E answer, document : /\ asks => answer.status # "cut"
                                  /\ Step(p, new(answer, document, FALSE))
    <3>1. PICK answer, document : /\ asks => answer.status # "cut"
                                  /\ Step(p, new(answer, document, FALSE))
      BY <2>5
    <3>2. sweep'[p] = new(answer, document, FALSE)
      BY <2>3, <3>1
    <3> HIDE DEF new, asks
    <3> QED
      BY <2>4, <3>1, <3>2
  <2>6. CASE Step(p, new(Cut, None, TRUE))
    <3>1. sweep'[p] = new(Cut, None, TRUE)
      BY <2>3, <2>6
    <3> HIDE DEF new
    <3> QED
      BY <2>4, <3>1
  <2> QED
    BY <2>2, <2>5, <2>6
<1> DEFINE r == found(answer, document)
           a == asked(answer)
           o == observed(answer)
<1>5. PICK y : y = new(answer, document, cut)
  OBVIOUS
<1>6. /\ y = [pc |-> x.pc, live |-> x.live /\ ~cut, since |-> x.since, baseline |-> x.baseline,
              profile |-> x.profile, fetched |-> x.fetched, seen |-> o,
              answers |-> Append(x.answers, a), checks |-> Append(x.checks, r),
              metrics |-> x.metrics]
  BY <1>2, <1>5 DEF SweeperTypeOK
<1>7. /\ i \in 1..Len(scenario.suite) /\ name \in CheckNames
      /\ Len(x.checks) \in Nat /\ i <= Len(scenario.suite) /\ Len(scenario.suite) \in Nat
  <2>1. scenario.suite \in Seq(CheckNames)
    BY <1>2, SettingAssumption DEF scenario
  <2>2. i <= Len(scenario.suite)
    BY <1>1, <1>3 DEF Check
  <2>3. Len(x.checks) \in Nat
    BY <1>2, Appended DEF SweeperTypeOK
  <2>4. i \in 1..Len(scenario.suite)
    BY <1>3, <2>1, <2>2, <2>3
  <2> QED
    BY <1>3, <2>1, <2>2, <2>3, <2>4
<1>8. /\ r.determined => IF name \in AccountChecks THEN a \in {"ok", "missing"}
                         ELSE s.profile # None
      /\ name \notin AccountChecks /\ a \notin {"none", "ok"} =>
            /\ ProbedField(name, s.profile) = "declared"
            /\ IF Excused(name, a) THEN ~r.determined ELSE Failed(r)
      /\ r.id = "issuer.drift" <=> name = "issuer.drift"
      /\ r.determined => x.live
      /\ r \in Results
  BY <1>7, RunFacts
<1>17. (a = "cut" => cut) /\ (~x.live => a = "none")
  BY <1>4
<1>9. o # None /\ asks /\ name = "issuer.drift" =>
         /\ r.determined <=> x.baseline # None
         /\ x.baseline # None => (r.passed <=> x.baseline = o)
  <2> SUFFICES ASSUME o # None, asks, name = "issuer.drift"
               PROVE  /\ r.determined <=> x.baseline # None
                      /\ x.baseline # None => (r.passed <=> x.baseline = o)
    OBVIOUS
  <2>1. o = issuerDriftObservation(s, answer) /\ x.live = TRUE
    BY <1>2 DEF SweeperTypeOK
  <2>2. r = Run("issuer.drift", TRUE, s, answer, document, x.baseline)
    BY <2>1
  <2> HIDE DEF o, r, asks
  <2> QED
    BY <2>1, <2>2, DriftFacts
<1>10. o # None /\ ~(asks /\ name = "issuer.drift") => o = x.seen
  OBVIOUS
<1> HIDE DEF new, asks, found, asked, observed, r, a, o
<1>11. /\ Listed(y.checks) /\ Listed(y.answers)
       /\ Len(y.checks) = i /\ Len(y.answers) = i
       /\ DOMAIN y.checks = 1..i /\ DOMAIN x.checks = 1..Len(x.checks)
       /\ y.checks[i] = r /\ y.answers[i] = a
       /\ \A k \in DOMAIN x.checks : y.checks[k] = x.checks[k] /\ y.answers[k] = x.answers[k]
  <2>1. y.checks = Append(x.checks, r) /\ y.answers = Append(x.answers, a)
    BY <1>6
  <2>2. Listed(x.checks) /\ Listed(x.answers) /\ Len(x.answers) = Len(x.checks)
    BY <1>2 DEF SweeperTypeOK
  <2> QED
    BY <1>3, <2>1, <2>2, Appended
<1>12. \A k \in DOMAIN y.checks : k = i \/ k \in DOMAIN x.checks
  BY <1>3, <1>7, <1>11
<1>13. SweeperTypeOK(y)
  <2>2. y.pc = "checks" /\ y.live \in BOOLEAN /\ Listed(y.metrics) /\ Len(y.answers) = Len(y.checks)
    BY <1>2, <1>6, <1>11 DEF SweeperTypeOK
  <2>3. y = [pc |-> y.pc, live |-> y.live, since |-> y.since, baseline |-> y.baseline,
             profile |-> y.profile, fetched |-> y.fetched, seen |-> y.seen,
             answers |-> y.answers, checks |-> y.checks, metrics |-> y.metrics]
    BY <1>6
  <2> QED
    BY <1>7, <1>11, <2>2, <2>3 DEF SweeperTypeOK, Steps
<1>14. y.profile = x.profile /\ y.baseline = x.baseline /\ y.seen = o /\ SubjectOf(y) = s
  BY <1>3, <1>6 DEF SubjectOf
<1>15. ASSUME NEW k \in DOMAIN y.checks PROVE FindingOK(y, k)
  <2>1. CASE k = i
    <3>1. s.profile # None => x.profile # None
      BY <1>2, <1>3, SubjectProfile
    <3> QED
      BY <1>3, <1>8, <1>11, <1>14, <2>1, <3>1 DEF FindingOK
  <2>2. CASE k \in DOMAIN x.checks
    <3>1. FindingOK(x, k)
      BY <1>2, <2>2 DEF SweeperOK
    <3> QED
      BY <1>3, <1>11, <1>14, <2>2, <3>1 DEF FindingOK
  <2> QED
    BY <1>12, <2>1, <2>2
<1>16. DriftFound(y)
  <2> SUFFICES ASSUME o # None
               PROVE  \E k \in DOMAIN y.checks :
                         /\ scenario.suite[k] = "issuer.drift"
                         /\ y.checks[k].determined <=> x.baseline # None
                         /\ x.baseline # None => (y.checks[k].passed <=> x.baseline = o)
    BY <1>14 DEF DriftFound
  <2>1. CASE asks /\ name = "issuer.drift"
    <3>1. i \in DOMAIN y.checks
      BY <1>7, <1>11
    <3> QED
      BY <1>3, <1>9, <1>11, <2>1, <3>1
  <2>2. CASE ~(asks /\ name = "issuer.drift")
    <3>1. o = x.seen /\ DriftFound(x)
      BY <1>2, <1>10, <2>2 DEF SweeperOK
    <3>2. PICK k \in DOMAIN x.checks :
             /\ scenario.suite[k] = "issuer.drift"
             /\ x.checks[k].determined <=> x.baseline # None
             /\ x.baseline # None => (x.checks[k].passed <=> x.baseline = x.seen)
      BY <3>1 DEF DriftFound
    <3>3. k \in DOMAIN y.checks
      BY <1>3, <1>7, <1>11
    <3> QED
      BY <1>11, <3>1, <3>2, <3>3
  <2> QED
    BY <2>1, <2>2
<1>18. CutOK(y)
  <2>1. CutOK(x) /\ x.live \in BOOLEAN /\ DOMAIN x.answers = DOMAIN x.checks
    <3>1. Listed(x.checks) /\ Listed(x.answers) /\ Len(x.answers) = Len(x.checks)
      BY <1>2 DEF SweeperTypeOK
    <3> QED
      BY <1>2, <3>1, Appended DEF SweeperOK, SweeperTypeOK
  <2>2. y.metrics = << >> /\ (y.live <=> x.live /\ ~cut)
    <3>1. Len(x.checks) < Len(scenario.suite)
      BY <1>3, <1>7
    <3> QED
      BY <1>4, <1>6, <2>1, <3>1 DEF CutOK
  <2>3. DOMAIN y.answers = 1..i
    BY <1>11, Appended
  <2>4. ASSUME NEW k \in DOMAIN y.answers, y.answers[k] = "cut"
        PROVE  /\ ~y.live
               /\ \A j \in DOMAIN y.checks : j > k =>
                     ~y.checks[j].determined /\ y.answers[j] = "none"
    <3>1. CASE k = i
      <4>1. ~y.live
        BY <1>11, <1>17, <2>2, <2>4, <3>1
      <4>2. \A j \in 1..i : ~(j > i)
        BY <1>3, <1>7
      <4> QED
        BY <1>11, <3>1, <4>1, <4>2
    <3>2. CASE k # i
      <4>1. k \in DOMAIN x.checks /\ k \in DOMAIN x.answers /\ x.answers[k] = "cut"
        BY <1>11, <1>12, <2>1, <2>3, <2>4, <3>2
      <4>2. /\ ~x.live
            /\ \A j \in DOMAIN x.checks : j > k =>
                  ~x.checks[j].determined /\ x.answers[j] = "none"
        BY <2>1, <4>1 DEF CutOK
      <4>3. ~r.determined /\ a = "none"
        BY <1>8, <1>17, <4>2
      <4> QED
        BY <1>11, <1>12, <2>2, <4>2, <4>3
    <3> QED
      BY <3>1, <3>2
  <2> QED
    BY <2>2, <2>4 DEF CutOK
<1> QED
  BY <1>4, <1>5, <1>13, <1>15, <1>16, <1>18 DEF SweeperOK


(* A metric is one more, and past the deadline one that says nothing       *)
(* (metric.go:20-93).                                                      *)
LEMMA MetricFacts ==
    ASSUME IInv, NEW p \in Sweepers, RunMetric(p)
    PROVE  \E m : /\ sweep'[p] = [sweep[p] EXCEPT !.metrics = Append(@, m)]
                  /\ ~sweep[p].live => ~m.result.determined
<1> DEFINE id == scenario.metrics[Len(sweep[p].metrics) + 1]
           Found(result, asked) ==
              Step(p, [sweep[p] EXCEPT
                          !.metrics = Append(@, [result |-> result, asked |-> asked,
                                                 pair |-> bookPair(Subject(p))])])
<1>1. \/ ~sweep[p].live /\ Found(Unmeasured(MetricID(id)), << >>)
      \/ sweep[p].live /\ \E result, asked : Found(result, asked)
  BY DEF RunMetric
<1>2. DOMAIN sweep = Sweepers
  BY DEF IInv, TypeOK
<1>3. CASE ~sweep[p].live /\ Found(Unmeasured(MetricID(id)), << >>)
  <2> DEFINE m == [result |-> Unmeasured(MetricID(id)), asked |-> << >>,
                   pair |-> bookPair(Subject(p))]
  <2>1. sweep'[p] = [sweep[p] EXCEPT !.metrics = Append(@, m)]
    BY <1>2, <1>3, StepFacts
  <2>2. ~m.result.determined
    BY DEF Unmeasured
  <2> HIDE DEF m
  <2> QED
    BY <2>1, <2>2
<1>4. CASE sweep[p].live /\ \E result, asked : Found(result, asked)
  <2>1. PICK result, asked : Found(result, asked)
    BY <1>4
  <2> DEFINE m == [result |-> result, asked |-> asked, pair |-> bookPair(Subject(p))]
  <2>2. sweep'[p] = [sweep[p] EXCEPT !.metrics = Append(@, m)]
    BY <1>2, <2>1, StepFacts
  <2> HIDE DEF m
  <2> QED
    BY <1>4, <2>2
<1> QED
  BY <1>1, <1>3, <1>4

(* The deadline and the metrics leave the findings as they are.            *)
LEMMA SameFindings ==
    ASSUME NEW x, NEW y, SweeperOK(x), y.live \in BOOLEAN, Listed(y.metrics),
           y = [x EXCEPT !.live = y.live, !.metrics = y.metrics], CutOK(y)
    PROVE  SweeperOK(y)
<1>1. SweeperTypeOK(x)
  BY DEF SweeperOK
<1>2. /\ y = [pc |-> y.pc, live |-> y.live, since |-> y.since, baseline |-> y.baseline,
              profile |-> y.profile, fetched |-> y.fetched, seen |-> y.seen,
              answers |-> y.answers, checks |-> y.checks, metrics |-> y.metrics]
      /\ y.pc = x.pc /\ y.checks = x.checks /\ y.answers = x.answers /\ y.seen = x.seen
      /\ y.profile = x.profile /\ y.baseline = x.baseline
  BY <1>1 DEF SweeperTypeOK
<1>3. SweeperTypeOK(y)
  BY <1>1, <1>2 DEF SweeperTypeOK
<1>4. SubjectOf(y) = SubjectOf(x)
  BY <1>2 DEF SubjectOf
<1>5. \A i \in DOMAIN y.checks : FindingOK(y, i)
  BY <1>2, <1>4 DEF SweeperOK, FindingOK
<1>6. DriftFound(y)
  BY <1>2 DEF SweeperOK, DriftFound
<1> QED
  BY <1>3, <1>5, <1>6 DEF SweeperOK

(* The metrics, the deadline and the end leave what the checks found.      *)
LEMMA RestKeeps ==
    ASSUME IInv, NEW p \in Sweepers, RunMetric(p) \/ Deadline(p) \/ Finish(p)
    PROVE  SweeperOK(sweep'[p])
<1>1. PICK x : x = sweep[p]
  OBVIOUS
<1>2. /\ DOMAIN sweep = Sweepers /\ SweeperOK(x) /\ SweeperTypeOK(x) /\ chosen \in Scenarios
  BY <1>1 DEF IInv, TypeOK, SweeperOK
<1>3. CASE RunMetric(p)
  <2>1. PICK m : /\ sweep'[p] = [x EXCEPT !.metrics = Append(@, m)]
                 /\ ~x.live => ~m.result.determined
    BY <1>1, <1>3, MetricFacts
  <2>2. PICK y : y = sweep'[p]
    OBVIOUS
  <2>3. y.metrics = Append(x.metrics, m) /\ y.live = x.live
    BY <1>2, <2>1, <2>2 DEF SweeperTypeOK
  <2>4. y = [x EXCEPT !.live = y.live, !.metrics = y.metrics]
    BY <1>2, <2>1, <2>2, <2>3 DEF SweeperTypeOK
  <2>5. Listed(y.metrics) /\ y.live \in BOOLEAN
    BY <1>2, <2>3, Appended DEF SweeperTypeOK
  <2>6. CutOK(y)
    <3>1. y.checks = x.checks /\ y.answers = x.answers
      BY <1>2, <2>4 DEF SweeperTypeOK
    <3>2. Listed(x.metrics) /\ CutOK(x)
      BY <1>2 DEF SweeperOK, SweeperTypeOK
    <3>3. /\ DOMAIN y.metrics = 1..(Len(x.metrics) + 1) /\ Len(x.metrics) \in Nat
          /\ DOMAIN x.metrics = 1..Len(x.metrics)
          /\ \A k \in 1..Len(x.metrics) : y.metrics[k] = x.metrics[k]
          /\ y.metrics[Len(x.metrics) + 1] = m
      BY <2>3, <3>2, Appended
    <3>4. \A k \in DOMAIN y.metrics : k = Len(x.metrics) + 1 \/ k \in DOMAIN x.metrics
      BY <3>3
    <3>5. ~(Len(x.checks) < Len(scenario.suite))
      BY <1>1, <1>2, <1>3 DEF RunMetric, SweeperTypeOK
    <3> QED
      BY <1>1, <2>1, <2>3, <3>1, <3>2, <3>3, <3>4, <3>5 DEF CutOK
  <2> QED
    BY <1>2, <2>2, <2>4, <2>5, <2>6, SameFindings
<1>4. CASE Deadline(p)
  <2>1. PICK y : y = sweep'[p] /\ y = [x EXCEPT !.live = FALSE]
    BY <1>1, <1>2, <1>4, StepFacts DEF Deadline
  <2>2. y.live = FALSE /\ y.metrics = x.metrics /\ y = [x EXCEPT !.live = y.live, !.metrics = y.metrics]
    BY <1>2, <2>1 DEF SweeperTypeOK
  <2>3. Listed(y.metrics) /\ y.live \in BOOLEAN
    BY <1>2, <2>2 DEF SweeperTypeOK
  <2>4. CutOK(y)
    <3>1. y.checks = x.checks /\ y.answers = x.answers
      BY <1>2, <2>2 DEF SweeperTypeOK
    <3> QED
      BY <1>2, <2>2, <3>1 DEF SweeperOK, CutOK
  <2> QED
    BY <1>2, <2>1, <2>2, <2>3, <2>4, SameFindings
<1>5. CASE Finish(p)
  BY <1>2, <1>5, StepFacts, IdleIsOK DEF Finish
<1> QED
  BY <1>3, <1>4, <1>5

-----------------------------------------------------------------------------
(* Every step is a sweeper's, a change of the anchor's, a restart or none. *)
LEMMA Moves ==
    ASSUME IInv, [Next]_vars
    PROVE  /\ chosen' = chosen
           /\ \/ \E p \in Sweepers : SweepStep(p)
              \/ ChangeFlags \/ ChangeDocument
              \/ Restart
              \/ UNCHANGED vars
BY DEF Next, SweepStep, Begin, Cached, Resolve, Keep, Check, RunMetric, Finish, Deadline,
       ChangeFlags, ChangeDocument, Restart, vars

(* What a sweeper has found it found as its checks say.                    *)
LEMMA SweepersKeep ==
    ASSUME IInv, [Next]_vars
    PROVE  DOMAIN sweep' = Sweepers /\ \A p \in Sweepers : SweeperOK(sweep'[p])
<1>0. DOMAIN sweep = Sweepers /\ chosen \in Scenarios /\ \A p \in Sweepers : SweeperOK(sweep[p])
  BY DEF IInv, TypeOK
<1>1. ASSUME NEW p \in Sweepers, SweepStep(p)
      PROVE  DOMAIN sweep' = Sweepers /\ \A q \in Sweepers : SweeperOK(sweep'[q])
  <2>1. SweeperOK(sweep'[p])
    BY <1>1, SubjectKeeps, CheckKeeps, RestKeeps DEF SweepStep
  <2>2. \E new : sweep' = [sweep EXCEPT ![p] = new]
    BY <1>1 DEF SweepStep, Begin, Cached, Resolve, Keep, Check, RunMetric, Finish, Deadline, Step
  <2> QED
    BY <1>0, <2>1, <2>2
<1>2. CASE Restart
  BY <1>0, <1>2, IdleIsOK DEF Restart
<1>3. CASE ChangeFlags \/ ChangeDocument \/ UNCHANGED vars
  BY <1>0, <1>3 DEF ChangeFlags, ChangeDocument, vars
<1> QED
  BY <1>1, <1>2, <1>3, Moves

(* Every step keeps the scenario, the sweepers, the Runners and the record.*)
LEMMA TypeKeeps ==
    ASSUME IInv, [Next]_vars
    PROVE  TypeOK'
<1>0. TypeOK
  BY DEF IInv
<1>1. DOMAIN cache' = Runners
  BY <1>0, Moves DEF TypeOK, SweepStep, Begin, Cached, Resolve, Keep, Check, RunMetric, Finish,
                     Deadline, ChangeFlags, ChangeDocument, Restart, vars
<1>2. world' = [flags |-> world'.flags, doc |-> world'.doc] /\ world'.doc \in Nat
  <2>1. world' = world \/ ChangeFlags \/ ChangeDocument
    BY Moves DEF SweepStep, Begin, Cached, Resolve, Keep, Check, RunMetric, Finish,
                 Deadline, Restart, vars
  <2> QED
    BY <1>0, <2>1 DEF TypeOK, ChangeFlags, ChangeDocument
<1>3. Listed(stored')
  <2>1. stored' = stored \/ \E r : stored' = Append(stored, r)
    BY Moves DEF SweepStep, Begin, Cached, Resolve, Keep, Check, RunMetric, Finish,
                 Deadline, ChangeFlags, ChangeDocument, Restart, vars
  <2>2. CASE \E r : stored' = Append(stored, r)
    <3>1. PICK s, r : s = stored /\ stored' = Append(s, r)
      BY <2>2
    <3>2. Listed(s)
      BY <1>0, <3>1 DEF TypeOK
    <3>3. Listed(Append(s, r))
      BY <3>2, Appended
    <3> QED
      BY <3>1, <3>3
  <2> QED
    BY <1>0, <2>1, <2>2 DEF TypeOK
<1> QED
  BY <1>0, <1>1, <1>2, <1>3, Moves, SweepersKeep DEF TypeOK

(* The verdict of a finished measurement is what its observation says      *)
(* against its baseline (issuer_drift.go:60-134, monitor.go:360-376).      *)
LEMMA VerdictFacts ==
    ASSUME IInv, NEW p \in Sweepers, sweep[p].seen # None
    PROVE  /\ sweep[p].baseline = None => Verdict(p) = "undetermined"
           /\ sweep[p].baseline # None /\ sweep[p].baseline = sweep[p].seen => Verdict(p) = "passed"
           /\ sweep[p].baseline # None /\ sweep[p].baseline # sweep[p].seen => Verdict(p) = "failed"
<1>1. PICK x : x = sweep[p] /\ SweeperOK(x) /\ SweeperTypeOK(x)
  BY DEF IInv, SweeperOK
<1>2. PICK i \in DOMAIN x.checks :
         /\ scenario.suite[i] = "issuer.drift"
         /\ x.checks[i].determined <=> x.baseline # None
         /\ x.baseline # None => (x.checks[i].passed <=> x.baseline = x.seen)
  BY <1>1 DEF SweeperOK, DriftFound
<1> DEFINE drift == {j \in DOMAIN x.checks : x.checks[j].id = "issuer.drift"}
<1>3. DOMAIN x.checks \subseteq DOMAIN scenario.suite /\ DOMAIN x.checks \subseteq Nat
  <2>1. chosen \in Scenarios
    BY DEF IInv, TypeOK
  <2>2. scenario.suite \in Seq(CheckNames)
    BY <2>1, SettingAssumption DEF scenario
  <2>3. DOMAIN x.checks = 1..Len(x.checks) /\ Len(x.checks) \in Nat
    BY <1>1, Appended DEF SweeperTypeOK
  <2>4. Len(x.checks) <= Len(scenario.suite)
    BY <1>1 DEF SweeperTypeOK
  <2> QED
    BY <2>2, <2>3, <2>4
<1>4. drift = {i}
  <2>1. \A j, k \in DOMAIN scenario.suite :
           scenario.suite[j] = "issuer.drift" /\ scenario.suite[k] = "issuer.drift" => j = k
    BY SettingAssumption DEF IInv, TypeOK, scenario
  <2>2. \A j \in DOMAIN x.checks :
           x.checks[j].id = "issuer.drift" <=> scenario.suite[j] = "issuer.drift"
    BY <1>1 DEF SweeperOK, FindingOK
  <2> QED
    BY <1>2, <1>3, <2>1, <2>2
<1>5. (CHOOSE j \in drift : \A k \in drift : j <= k) = i
  BY <1>3, <1>4
<1>6. Verdict(p) = IF ~x.checks[i].determined THEN "undetermined"
                   ELSE IF x.checks[i].passed THEN "passed" ELSE "failed"
  BY <1>1, <1>4, <1>5 DEF Verdict
<1> QED
  BY <1>1, <1>2, <1>6


(* Only the scheduled measurement writes records, one at a time, when it   *)
(* is through (monitor.go:360-376).                                        *)
LEMMA StoredMoves ==
    ASSUME IInv, [Next]_vars
    PROVE  \/ stored' = stored
           \/ /\ sweep[Monitor].pc = "checks" /\ sweep'[Monitor] = Idle
              /\ stored' = Append(stored, Record(Monitor))
<1>1. ASSUME NEW p \in Sweepers, Finish(p), stored' # stored
      PROVE  /\ sweep[Monitor].pc = "checks" /\ sweep'[Monitor] = Idle
             /\ stored' = Append(stored, Record(Monitor))
  <2>1. p = Monitor /\ stored' = Append(stored, Record(Monitor))
    BY <1>1 DEF Finish
  <2>2. sweep[p].pc = "checks" /\ Step(p, Idle) /\ DOMAIN sweep = Sweepers
    BY <1>1 DEF Finish, Done, Goes, IInv, TypeOK
  <2> QED
    BY <2>1, <2>2, StepFacts
<1> QED
  BY <1>1, Moves DEF SweepStep, Begin, Cached, Resolve, Keep, Check, RunMetric,
                     Deadline, ChangeFlags, ChangeDocument, Restart, vars

(* Every step keeps what the records say of drift.                         *)
LEMMA RecordsKeep ==
    ASSUME IInv, [Next]_vars
    PROVE  \A n \in DOMAIN stored' : RecordOK(n)'
<1>1. CASE stored' = stored
  BY <1>1 DEF IInv, RecordOK, Previous
<1>2. CASE /\ sweep[Monitor].pc = "checks"
           /\ stored' = Append(stored, Record(Monitor))
  <2>1. PICK s, x, r : s = stored /\ x = sweep[Monitor] /\ r = Record(Monitor)
    OBVIOUS
  <2>2. /\ Len(s) \in Nat
        /\ DOMAIN s = 1..Len(s) /\ DOMAIN stored' = 1..(Len(s) + 1)
        /\ \A n \in 1..Len(s) : stored'[n] = s[n]
        /\ stored'[Len(s) + 1] = r
    <3>1. Listed(s)
      BY <2>1 DEF IInv, TypeOK
    <3> QED
      BY <1>2, <2>1, <3>1, Appended
  <2>3. x.baseline = IF Len(s) = 0 THEN None ELSE s[Len(s)].seen
    <3>1. x.baseline = IF s = << >> THEN None ELSE s[Len(s)].seen
      BY <1>2, <2>1 DEF IInv, BaselineOK, IssuerDriftBaselineFromChecks
    <3>2. s = << >> <=> Len(s) = 0
      <4>1. s \in Seq(ToSet(s))
        BY <2>1 DEF IInv, TypeOK, Listed
      <4> QED
        BY <4>1
    <3> QED
      BY <3>1, <3>2
  <2>4. /\ r.seen = x.seen
        /\ x.seen # None =>
              /\ x.baseline = None => r.verdict = "undetermined"
              /\ x.baseline # None /\ x.baseline = x.seen => r.verdict = "passed"
              /\ x.baseline # None /\ x.baseline # x.seen => r.verdict = "failed"
    <3>1. Monitor \in Sweepers
      BY DEF Sweepers
    <3> QED
      BY <2>1, <3>1, VerdictFacts DEF Record
  <2>5. ASSUME NEW n \in 1..Len(s) PROVE RecordOK(n)'
    <3>1. n \in DOMAIN stored /\ (n # 1 => n - 1 \in 1..Len(s))
      BY <2>1, <2>2
    <3>2. RecordOK(n)
      BY <3>1 DEF IInv
    <3>3. stored'[n] = stored[n] /\ (n # 1 => stored'[n - 1] = stored[n - 1])
      BY <2>1, <2>2, <3>1
    <3> QED
      BY <3>2, <3>3 DEF RecordOK, Previous
  <2>6. ASSUME NEW n, n = Len(s) + 1 PROVE RecordOK(n)'
    <3>1. stored'[n] = r /\ (n = 1 <=> Len(s) = 0) /\ (n # 1 => stored'[n - 1] = s[Len(s)])
      <4>1. n - 1 = Len(s) /\ (n # 1 => Len(s) \in 1..Len(s))
        BY <2>2, <2>6
      <4> QED
        BY <2>2, <2>6, <4>1
    <3>2. x.baseline = IF n = 1 THEN None ELSE stored'[n - 1].seen
      BY <2>3, <3>1
    <3> QED
      BY <2>4, <3>1, <3>2 DEF RecordOK, Previous
  <2>7. \A n \in 1..(Len(s) + 1) : n \in 1..Len(s) \/ n = Len(s) + 1
    BY <2>2
  <2> QED
    BY <2>2, <2>5, <2>6, <2>7
<1> QED
  BY <1>1, <1>2, StoredMoves


(* What may become of the scheduled measurement and of its Runner: nobody  *)
(* else touches either (runner.go:236-310, monitor.go:300-330).            *)
Begun(y) ==
    y = [Idle EXCEPT !.pc = "subject", !.since = world.doc,
                     !.baseline = IssuerDriftBaselineFromChecks]

GoesOn(x, y, c, d) ==
    /\ x.pc # "idle" /\ y.pc # "idle"
    /\ y.since = x.since /\ y.baseline = x.baseline
    /\ y.profile \in {x.profile, x.fetched, c, None}
    /\ y.fetched \in {x.fetched, world.doc}
    /\ d \in {c, x.fetched}

(* What a step of the scheduled measurement does to it and its Runner.     *)
LEMMA MonitorMoves ==
    ASSUME IInv, [Next]_vars
    PROVE  LET x == sweep[Monitor]
               y == sweep'[Monitor]
               c == cache[Monitor]
               d == cache'[Monitor]
           IN  \/ y = Idle
               \/ y = x /\ d = c
               \/ world' = world /\ Begun(y) /\ (scenario.fresh => d = None)
               \/ world' = world /\ GoesOn(x, y, c, d)
<1>1. PICK x, y, c, d : x = sweep[Monitor] /\ y = sweep'[Monitor] /\ c = cache[Monitor]
                        /\ d = cache'[Monitor]
  OBVIOUS
<1>2. /\ DOMAIN sweep = Sweepers /\ SweeperTypeOK(x) /\ DOMAIN cache = Runners
      /\ Monitor \in Sweepers
  BY <1>1 DEF IInv, TypeOK, SweeperOK, Sweepers
<1> DEFINE Goal == \/ y = Idle
                   \/ y = x /\ d = c
                   \/ world' = world /\ Begun(y) /\ (scenario.fresh => d = None)
                   \/ world' = world /\ GoesOn(x, y, c, d)
<1> SUFFICES Goal
  BY <1>1
<1>3. ASSUME NEW new, Step(Monitor, new) PROVE y = new
  BY <1>1, <1>2, <1>3, StepFacts
<1>4. CASE Begin(Monitor)
  <2>1. Begun(y)
    BY <1>3, <1>4 DEF Begin, Begun
  <2>2. scenario.fresh => d = None
    BY <1>1, <1>2, <1>4 DEF Begin, Runners
  <2> QED
    BY <1>4, <2>1, <2>2 DEF Begin
<1>5. CASE Cached(Monitor) \/ Resolve(Monitor) \/ Keep(Monitor)
  <2>1. x.pc \in {"subject", "keep"} /\ world' = world
    BY <1>1, <1>5 DEF Cached, Resolve, Keep, Goes
  <2>2. RunnerOf(Monitor) = Monitor /\ Monitor \in Runners
    BY DEF RunnerOf, Runners
  <2>3. CASE Cached(Monitor)
    <3>1. y = [x EXCEPT !.pc = "checks",
                        !.profile = IF scenario.domain THEN c ELSE None] /\ d = c
      BY <1>1, <1>3, <2>2, <2>3 DEF Cached
    <3> QED
      BY <1>2, <2>1, <3>1 DEF GoesOn, SweeperTypeOK
  <2>4. CASE Resolve(Monitor)
    <3>1. /\ d = c
          /\ \/ y = [x EXCEPT !.pc = "keep", !.fetched = world.doc]
             \/ y = [x EXCEPT !.pc = "checks"]
      BY <1>1, <1>3, <2>4 DEF Resolve
    <3> QED
      BY <1>2, <2>1, <3>1 DEF GoesOn, SweeperTypeOK
  <2>5. CASE Keep(Monitor)
    <3>1. y = [x EXCEPT !.pc = "checks", !.profile = x.fetched]
      BY <1>1, <1>3, <2>5 DEF Keep
    <3>2. d = x.fetched
      BY <1>1, <1>2, <2>2, <2>5 DEF Keep
    <3> QED
      BY <1>2, <2>1, <3>1, <3>2 DEF GoesOn, SweeperTypeOK
  <2> QED
    BY <1>5, <2>3, <2>4, <2>5
<1>6. CASE Check(Monitor)
  <2>1. x.pc = "checks" /\ world' = world /\ d = c
    BY <1>1, <1>6 DEF Check, Goes
  <2>2. PICK l, a, s, k : y = [x EXCEPT !.live = l, !.answers = a, !.seen = s, !.checks = k]
    <3> DEFINE new(l, a, s, k) == [x EXCEPT !.live = l, !.answers = a, !.seen = s, !.checks = k]
    <3>1. \E l, a, s, k : Step(Monitor, new(l, a, s, k))
      BY <1>1, <1>6 DEF Check
    <3> HIDE DEF new
    <3>2. \E l, a, s, k : y = new(l, a, s, k)
      BY <1>3, <3>1
    <3> QED
      BY <3>2 DEF new
  <2> QED
    BY <1>2, <2>1, <2>2 DEF GoesOn, SweeperTypeOK
<1>7. CASE RunMetric(Monitor)
  <2>1. x.pc = "checks" /\ world' = world /\ d = c
    BY <1>1, <1>7 DEF RunMetric, Goes
  <2>2. PICK m : y = [x EXCEPT !.metrics = Append(@, m)]
    BY <1>1, <1>2, <1>7, MetricFacts
  <2> QED
    BY <1>2, <2>1, <2>2 DEF GoesOn, SweeperTypeOK
<1>8. CASE Finish(Monitor)
  BY <1>3, <1>8 DEF Finish
<1>9. CASE Deadline(Monitor)
  <2>1. x.pc # "idle" /\ world' = world /\ d = c /\ y = [x EXCEPT !.live = FALSE]
    BY <1>1, <1>3, <1>9 DEF Deadline, Goes
  <2> QED
    BY <1>2, <2>1 DEF GoesOn, SweeperTypeOK
<1>10. ASSUME NEW p \in Sweepers, p # Monitor, SweepStep(p)
       PROVE  y = x /\ d = c
  <2>1. RunnerOf(p) # Monitor
    BY <1>10 DEF RunnerOf, Monitor
  <2>2. \E new : Step(p, new)
    BY <1>10 DEF SweepStep, Begin, Cached, Resolve, Keep, Check, RunMetric, Finish, Deadline
  <2>3. cache' = cache \/ \E r, e : r # Monitor /\ cache' = [cache EXCEPT ![r] = e]
    BY <1>10, <2>1 DEF SweepStep, Begin, Cached, Resolve, Keep, Check, RunMetric, Finish, Deadline
  <2>4. d = c
    BY <1>1, <1>2, <2>3 DEF Runners
  <2> QED
    BY <1>1, <1>2, <1>10, <2>2, <2>4, StepFacts
<1>11. CASE Restart
  BY <1>1, <1>2, <1>11 DEF Restart
<1>12. CASE ChangeFlags \/ ChangeDocument \/ UNCHANGED vars
  BY <1>1, <1>12 DEF ChangeFlags, ChangeDocument, vars
<1> HIDE DEF Goal
<1>13. ASSUME SweepStep(Monitor) PROVE Goal
  BY <1>4, <1>5, <1>6, <1>7, <1>8, <1>9, <1>13 DEF SweepStep
<1>14. ASSUME NEW p \in Sweepers, p # Monitor, SweepStep(p) PROVE Goal
  BY <1>10, <1>14 DEF Goal
<1> QED
  BY <1>11, <1>12, <1>13, <1>14, Moves


(* What a measurement compares against stays the last record while it is   *)
(* under way: it is the only one that writes any (monitor.go:300-376).     *)
LEMMA BaselineKeeps ==
    ASSUME IInv, [Next]_vars
    PROVE  BaselineOK'
<1>1. PICK x, y : x = sweep[Monitor] /\ y = sweep'[Monitor]
  OBVIOUS
<1>2. CASE y = Idle
  BY <1>1, <1>2 DEF BaselineOK, Idle
<1>3. CASE y # Idle
  <2>1. stored' = stored
    BY <1>1, <1>3, StoredMoves
  <2>2. IssuerDriftBaselineFromChecks' = IssuerDriftBaselineFromChecks
    BY <2>1 DEF IssuerDriftBaselineFromChecks
  <2>3. \/ y = x
        \/ Begun(y)
        \/ x.pc # "idle" /\ y.baseline = x.baseline
    BY <1>1, <1>3, MonitorMoves DEF GoesOn
  <2>4. x.pc # "idle" => x.baseline = IssuerDriftBaselineFromChecks
    BY <1>1 DEF IInv, BaselineOK
  <2>5. Begun(y) => y.baseline = IssuerDriftBaselineFromChecks
    BY DEF Begun, Idle
  <2> QED
    BY <1>1, <2>2, <2>3, <2>4, <2>5 DEF BaselineOK
<1> QED
  BY <1>2, <1>3

(* Documents only get newer.                                               *)
LEMMA WorldMoves ==
    ASSUME IInv, [Next]_vars
    PROVE  world.doc \in Nat /\ world'.doc \in Nat /\ world.doc <= world'.doc
<1>1. world' = world \/ ChangeFlags \/ ChangeDocument
  BY Moves DEF SweepStep, Begin, Cached, Resolve, Keep, Check, RunMetric, Finish,
               Deadline, Restart, vars
<1>2. world = [flags |-> world.flags, doc |-> world.doc] /\ world.doc \in Nat
  BY DEF IInv, TypeOK
<1>3. CASE ChangeFlags
  <2>1. world' = [world EXCEPT !.flags = @ + 1]
    BY <1>3 DEF ChangeFlags
  <2>2. world'.doc = world.doc
    BY <1>2, <2>1
  <2> QED
    BY <1>2, <2>2
<1>4. CASE ChangeDocument
  <2>1. world' = [world EXCEPT !.doc = @ + 1]
    BY <1>4 DEF ChangeDocument
  <2>2. world'.doc = world.doc + 1
    BY <1>2, <2>1
  <2> QED
    BY <1>2, <2>2
<1> QED
  BY <1>1, <1>2, <1>3, <1>4

(* A Runner made for a measurement starts with no document, and comes by   *)
(* none but the one the anchor then has (monitor.go:311-330,               *)
(* runner.go:236-275).                                                     *)
LEMMA FreshKeeps ==
    ASSUME IInv, [Next]_vars
    PROVE  FreshOK'
<1>1. PICK x, y, c, d : x = sweep[Monitor] /\ y = sweep'[Monitor] /\ c = cache[Monitor]
                        /\ d = cache'[Monitor]
  OBVIOUS
<1>2. PICK w, v : /\ w = world.doc /\ v = world'.doc /\ w \in Nat /\ v \in Nat /\ w <= v
  BY WorldMoves
<1>3. scenario' = scenario
  BY Moves DEF scenario
<1> DEFINE Between(first, doc, last) == doc # None => doc \in Nat /\ first <= doc /\ doc <= last
<1> SUFFICES ASSUME scenario.fresh, y.pc # "idle"
             PROVE  /\ y.since \in Nat /\ y.since <= v
                    /\ Between(y.since, d, v) /\ Between(y.since, y.profile, v)
                    /\ Between(y.since, y.fetched, v)
  BY <1>1, <1>2, <1>3 DEF FreshOK, Since
<1>4. x.pc # "idle" => /\ x.since \in Nat /\ x.since <= w
                       /\ Between(x.since, c, w) /\ Between(x.since, x.profile, w)
                       /\ Between(x.since, x.fetched, w)
  BY <1>1, <1>2 DEF IInv, FreshOK, Since
<1>5. \/ y = x /\ d = c
      \/ v = w /\ Begun(y) /\ d = None
      \/ v = w /\ GoesOn(x, y, c, d)
  <2>1. y # Idle
    BY DEF Idle
  <2> QED
    BY <1>1, <1>2, <2>1, MonitorMoves
<1>6. CASE y = x /\ d = c
  BY <1>2, <1>4, <1>6
<1>7. CASE v = w /\ Begun(y) /\ d = None
  <2>1. y.since = w /\ y.profile = None /\ y.fetched = None
    BY <1>2, <1>7 DEF Begun, Idle
  <2> QED
    BY <1>2, <1>7, <2>1
<1>8. CASE v = w /\ GoesOn(x, y, c, d)
  <2>1. /\ x.pc # "idle" /\ y.since = x.since
        /\ y.profile \in {x.profile, x.fetched, c, None}
        /\ y.fetched \in {x.fetched, w} /\ d \in {c, x.fetched}
    BY <1>2, <1>8 DEF GoesOn
  <2>2. Between(x.since, w, w) /\ Between(x.since, None, w)
    BY <1>2, <1>4, <2>1
  <2> HIDE DEF Between
  <2> QED
    BY <1>4, <1>8, <2>1, <2>2
<1> QED
  BY <1>5, <1>6, <1>7, <1>8

(* The scheduled measurement leaves nothing behind between two records.    *)
LEMMA IdleKeeps ==
    ASSUME IInv, [Next]_vars
    PROVE  IdleOK'
<1>1. PICK x, y : x = sweep[Monitor] /\ y = sweep'[Monitor]
  OBVIOUS
<1>2. y = Idle \/ y = x \/ y.pc # "idle"
  BY <1>1, MonitorMoves DEF Begun, Idle, GoesOn
<1>3. x.pc = "idle" => x = Idle
  BY <1>1 DEF IInv, IdleOK
<1> QED
  BY <1>1, <1>2, <1>3 DEF IdleOK

(* The invariant holds at the start.                                       *)
LEMMA IInvInit == Init => IInv
<1> SUFFICES ASSUME Init PROVE IInv
  OBVIOUS
<1>1. /\ \A p \in Sweepers : sweep[p] = Idle
      /\ DOMAIN sweep = Sweepers /\ DOMAIN cache = Runners /\ chosen \in Scenarios
  BY DEF Init
<1>2. TypeOK
  BY <1>1, EmptyListed DEF Init, TypeOK
<1>3. \A p \in Sweepers : SweeperOK(sweep[p])
  BY <1>1, IdleIsOK
<1>4. sweep[Monitor] = Idle
  BY <1>1 DEF Sweepers
<1>5. BaselineOK /\ FreshOK /\ IdleOK
  BY <1>4 DEF BaselineOK, FreshOK, IdleOK, Idle
<1>6. \A n \in DOMAIN stored : RecordOK(n)
  BY EmptyListed DEF Init
<1> QED
  BY <1>2, <1>3, <1>5, <1>6 DEF IInv

(* Every step keeps the invariant.                                         *)
LEMMA IInvNext == IInv /\ [Next]_vars => IInv'
<1> SUFFICES ASSUME IInv, [Next]_vars PROVE IInv'
  OBVIOUS
<1>0. scenario' = scenario /\ \A p \in Sweepers : SweeperOK(sweep'[p])
  BY Moves, SweepersKeep DEF scenario
<1>1. ASSUME NEW p \in Sweepers PROVE SweeperOK(sweep[p])'
  <2>1. SweeperTypeOK(sweep[p])'
    BY <1>0 DEF SweeperOK, SweeperTypeOK
  <2>2. ASSUME NEW i \in DOMAIN sweep'[p].checks PROVE FindingOK(sweep[p], i)'
    <3>1. FindingOK(sweep'[p], i)
      BY <1>0 DEF SweeperOK
    <3> QED
      BY <1>0, <3>1 DEF FindingOK, SubjectOf
  <2>3. DriftFound(sweep[p])'
    BY <1>0 DEF SweeperOK, DriftFound
  <2>4. CutOK(sweep[p])'
    BY <1>0 DEF SweeperOK, CutOK
  <2> QED
    BY <2>1, <2>2, <2>3, <2>4 DEF SweeperOK
<1> QED
  BY <1>1, TypeKeeps, BaselineKeeps, RecordsKeep, FreshKeeps, IdleKeeps DEF IInv

(* The invariant the others rest on: what each sweeper found is what its   *)
(* answers say, the scheduled one compares against the last record, and    *)
(* each record's verdict is that of its observation against the one before.*)
THEOREM Inductive == Spec => []IInv
BY IInvInit, IInvNext, PTL DEF Spec
-----------------------------------------------------------------------------
(* A check is determined only by an answer or a document; an address that  *)
(* is declared and does not answer is the anchor's failure, and no other   *)
(* silence is anybody's (checks.go:10-15, docs/checks.md:205-222).         *)
THEOREM Silence == Spec => []SilenceIsNoEvidence
<1>1. ASSUME IInv PROVE SilenceIsNoEvidence
  <2> SUFFICES ASSUME NEW p \in Sweepers, NEW i \in DOMAIN sweep[p].checks
               PROVE  LET r == sweep[p].checks[i]
                          name == scenario.suite[i]
                          answer == sweep[p].answers[i]
                          excused == name = "sep10.endpoint-responds" /\ answer = "probe"
                      IN  /\ r.determined => IF name \in AccountChecks
                                             THEN answer \in {"ok", "missing"}
                                             ELSE sweep[p].profile # None
                          /\ name \notin AccountChecks /\ answer \notin {"none", "ok"} =>
                                /\ ProbedField(name, Subject(p).profile) = "declared"
                                /\ IF excused THEN ~r.determined ELSE Failed(r)
    BY DEF SilenceIsNoEvidence
  <2>1. FindingOK(sweep[p], i)
    BY <1>1 DEF IInv, SweeperOK
  <2>2. Subject(p) = SubjectOf(sweep[p])
    BY DEF Subject, SubjectOf
  <2> QED
    BY <2>1, <2>2 DEF FindingOK, Excused
<1>2. IInv => SilenceIsNoEvidence
  BY <1>1
<1> QED
  BY <1>2, Inductive, PTL

(* A sweep's own deadline is held against at most one address, one that    *)
(* the anchor declared, and nothing is found after it                      *)
(* (sep10_endpoint.go:150-158, checks.go:468, metric.go:61).               *)
THEOREM Deadlines == Spec => []DeadlineBlamesOneAddress
<1>1. ASSUME IInv PROVE DeadlineBlamesOneAddress
  <2> SUFFICES ASSUME NEW p \in Sweepers, NEW i \in DOMAIN sweep[p].answers,
                      sweep[p].answers[i] = "cut"
               PROVE  /\ Failed(sweep[p].checks[i]) <=>
                            ProbedField(scenario.suite[i], Subject(p).profile) = "declared"
                      /\ \A j \in DOMAIN sweep[p].checks : j > i =>
                            ~sweep[p].checks[j].determined /\ sweep[p].answers[j] = "none"
                      /\ \A j \in DOMAIN sweep[p].metrics : ~sweep[p].metrics[j].result.determined
    BY DEF DeadlineBlamesOneAddress
  <2>1. SweeperTypeOK(sweep[p]) /\ CutOK(sweep[p])
    BY <1>1 DEF IInv, SweeperOK
  <2>2. i \in DOMAIN sweep[p].checks
    <3>1. /\ Listed(sweep[p].checks) /\ Listed(sweep[p].answers)
          /\ Len(sweep[p].answers) = Len(sweep[p].checks)
      BY <2>1 DEF SweeperTypeOK
    <3> QED
      BY <3>1, Appended
  <2>3. FindingOK(sweep[p], i)
    BY <1>1, <2>2 DEF IInv, SweeperOK
  <2>4. Subject(p) = SubjectOf(sweep[p])
    BY DEF Subject, SubjectOf
  <2>5. CASE scenario.suite[i] \in AccountChecks
    <3>1. ~Failed(sweep[p].checks[i])
      BY <2>3, <2>5 DEF FindingOK, Failed
    <3>2. ProbedField(scenario.suite[i], Subject(p).profile) = "absent"
      BY <2>5 DEF ProbedField, AccountChecks
    <3> QED
      BY <2>1, <3>1, <3>2 DEF CutOK
  <2>6. CASE scenario.suite[i] \notin AccountChecks
    <3>1. /\ Failed(sweep[p].checks[i])
          /\ ProbedField(scenario.suite[i], Subject(p).profile) = "declared"
      BY <2>3, <2>4, <2>6 DEF FindingOK, Excused
    <3> QED
      BY <2>1, <3>1 DEF CutOK
  <2> QED
    BY <2>5, <2>6
<1>2. IInv => DeadlineBlamesOneAddress
  BY <1>1
<1> QED
  BY <1>2, Inductive, PTL

(* A drift that is reported is a change between two records, and a change  *)
(* between two observations is reported unless a record without one came   *)
(* between (issuer_drift.go:27-134).                                       *)
THEOREM Drift == Spec => []DriftIsReal
<1>1. ASSUME IInv PROVE DriftIsReal
  <2>0. \A n \in DOMAIN stored : n \in Nat /\ n >= 1 /\ (n # 1 => n > 1 /\ n - 1 \in DOMAIN stored)
    <3>1. PICK s : s = stored /\ s \in Seq(ToSet(s))
      BY <1>1 DEF IInv, TypeOK, Listed
    <3> QED
      BY <3>1
  <2>1. ASSUME NEW n \in DOMAIN stored, stored[n].seen # None
        PROVE  /\ stored[n].verdict = "failed" =>
                      n > 1 /\ stored[n - 1].seen \notin {None, stored[n].seen}
               /\ stored[n].verdict = "passed" => stored[n - 1].seen = stored[n].seen
    <3>1. RecordOK(n)
      BY <1>1 DEF IInv
    <3> QED
      BY <2>0, <2>1, <3>1 DEF RecordOK, Previous
  <2>2. ASSUME NEW m \in DOMAIN stored, NEW n \in DOMAIN stored,
               NextSeen(m, n), stored[m].seen # stored[n].seen
        PROVE  stored[n].verdict = "failed" \/ n > m + 1
    <3>1. RecordOK(n) /\ m < n /\ stored[m].seen # None /\ stored[n].seen # None
      BY <1>1, <2>2 DEF IInv, NextSeen
    <3>2. CASE n = m + 1
      <4>0. m \in Nat /\ m >= 1 /\ n \in Nat
        BY <2>0
      <4>1. n # 1 /\ n - 1 = m
        BY <3>2, <4>0
      <4> QED
        BY <2>2, <3>1, <4>1 DEF RecordOK, Previous
    <3>3. n = m + 1 \/ n > m + 1
      BY <2>0, <3>1
    <3> QED
      BY <3>2, <3>3
  <2> QED
    BY <2>1, <2>2 DEF DriftIsReal
<1>2. IInv => DriftIsReal
  BY <1>1
<1> QED
  BY <1>2, Inductive, PTL

(* A measurement on its own Runner reads the document as it is during the  *)
(* measurement (monitor.go:311-330).                                       *)
THEOREM FreshRunner == Spec => []FreshRunnerIsCurrent
<1>1. ASSUME IInv PROVE FreshRunnerIsCurrent
  <2> SUFFICES ASSUME scenario.fresh, sweep[Monitor].profile # None
               PROVE  sweep[Monitor].profile >= sweep[Monitor].since
    BY DEF FreshRunnerIsCurrent
  <2>1. sweep[Monitor].pc # "idle"
    BY <1>1 DEF IInv, IdleOK, Idle
  <2> QED
    BY <1>1, <2>1 DEF IInv, FreshOK, Since
<1>2. IInv => FreshRunnerIsCurrent
  BY <1>1
<1> QED
  BY <1>2, Inductive, PTL

-----------------------------------------------------------------------------
(* An ID has a place in the alphabet.                                      *)
LEMMA AlphabetIsNat ==
    ASSUME NEW id \in ToSet(Alphabetical)
    PROVE  Alphabet(id) \in Nat
<1>1. DOMAIN Alphabetical = 1..13
  BY AlphabetLength
<1>2. \E i \in DOMAIN Alphabetical : Alphabetical[i] = id
  BY DEF ToSet
<1> QED
  BY <1>1, <1>2 DEF Alphabet

(* Display is a strict total order of the places checks ran in             *)
(* (checks.go:556-581).                                                    *)
LEMMA BeforeIsOrder ==
    ASSUME NEW n \in Nat, NEW s \in [1..n -> Results]
    PROVE  /\ \A i \in 1..n : ~Before(s, i, i)
           /\ \A i, j \in 1..n : i # j => Before(s, i, j) \/ Before(s, j, i)
           /\ \A i, j, k \in 1..n : Before(s, i, j) /\ Before(s, j, k) => Before(s, i, k)
<1> DEFINE rank == [i \in 1..n |-> Rank(s[i])]
           sev == [i \in 1..n |-> s[i].severity]
           alpha == [i \in 1..n |-> Alphabet(s[i].id)]
<1>1. \A i \in 1..n : /\ rank[i] \in Nat /\ sev[i] \in Nat /\ alpha[i] \in Nat /\ i \in Nat
                      /\ rank[i] = Rank(s[i]) /\ sev[i] = s[i].severity
                      /\ alpha[i] = Alphabet(s[i].id)
  <2> TAKE i \in 1..n
  <2>1. s[i] \in Results
    OBVIOUS
  <2>2. s[i].severity \in Nat /\ s[i].id \in ToSet(Alphabetical)
    BY <2>1 DEF Results
  <2>3. Rank(s[i]) \in Nat
    BY DEF Rank
  <2> QED
    BY <2>2, <2>3, AlphabetIsNat
<1> HIDE DEF rank, sev, alpha
<1>2. \A i, j \in 1..n :
         Precedes(s[i], s[j]) <=>
            \/ rank[i] < rank[j]
            \/ rank[i] = rank[j] /\ rank[i] = 0 /\ sev[i] > sev[j]
            \/ rank[i] = rank[j] /\ (rank[i] = 0 => sev[i] = sev[j]) /\ alpha[i] < alpha[j]
  BY <1>1 DEF Precedes
<1>3. \A i, j \in 1..n :
         Before(s, i, j) <=>
            \/ rank[i] < rank[j]
            \/ rank[i] = rank[j] /\ rank[i] = 0 /\ sev[i] > sev[j]
            \/ rank[i] = rank[j] /\ (rank[i] = 0 => sev[i] = sev[j]) /\ alpha[i] < alpha[j]
            \/ rank[i] = rank[j] /\ (rank[i] = 0 => sev[i] = sev[j]) /\ alpha[i] = alpha[j] /\ i < j
  BY <1>1, <1>2 DEF Before
<1>4. \A i \in 1..n : ~Before(s, i, i)
  BY <1>1, <1>3
<1>5. \A i, j \in 1..n : i # j => Before(s, i, j) \/ Before(s, j, i)
  BY <1>1, <1>3
<1>6. \A i, j, k \in 1..n : Before(s, i, j) /\ Before(s, j, k) => Before(s, i, k)
  <2> TAKE i, j, k \in 1..n
  <2>1. PICK ri, rj, rk, si, sj, sk, ai, aj, ak \in Nat :
           /\ ri = rank[i] /\ rj = rank[j] /\ rk = rank[k]
           /\ si = sev[i] /\ sj = sev[j] /\ sk = sev[k]
           /\ ai = alpha[i] /\ aj = alpha[j] /\ ak = alpha[k]
    BY <1>1
  <2>2. i \in Nat /\ j \in Nat /\ k \in Nat
    OBVIOUS
  <2>3. /\ Before(s, i, j) <=> \/ ri < rj
                               \/ ri = rj /\ ri = 0 /\ si > sj
                               \/ ri = rj /\ (ri = 0 => si = sj) /\ ai < aj
                               \/ ri = rj /\ (ri = 0 => si = sj) /\ ai = aj /\ i < j
        /\ Before(s, j, k) <=> \/ rj < rk
                               \/ rj = rk /\ rj = 0 /\ sj > sk
                               \/ rj = rk /\ (rj = 0 => sj = sk) /\ aj < ak
                               \/ rj = rk /\ (rj = 0 => sj = sk) /\ aj = ak /\ j < k
        /\ Before(s, i, k) <=> \/ ri < rk
                               \/ ri = rk /\ ri = 0 /\ si > sk
                               \/ ri = rk /\ (ri = 0 => si = sk) /\ ai < ak
                               \/ ri = rk /\ (ri = 0 => si = sk) /\ ai = ak /\ i < k
    BY <1>3, <2>1
  <2> QED
    BY <2>2, <2>3
<1> QED
  BY <1>4, <1>5, <1>6

(* A strict total order of 1..n, given as what is before each, and the     *)
(* place of each: one more than what is before it.                         *)
Ranks(n, before, place) ==
    /\ before \in [1..n -> SUBSET (1..n)] /\ place \in [1..n -> Nat]
    /\ \A i \in 1..n : i \notin before[i]
    /\ \A i, j \in 1..n : i # j => i \in before[j] \/ j \in before[i]
    /\ \A i, j, k \in 1..n : i \in before[j] /\ j \in before[k] => i \in before[k]
    /\ \A i \in 1..n : place[i] = Cardinality(before[i]) + 1

(* All the places are different, and all of them are taken.                *)
LEMMA Places ==
    ASSUME NEW n \in Nat, NEW before, NEW place, Ranks(n, before, place)
    PROVE  /\ place \in [1..n -> 1..n]
           /\ \A i, j \in 1..n : i \in before[j] => place[i] < place[j]
           /\ \A i, j \in 1..n : place[i] = place[j] => i = j
           /\ \A k \in 1..n : \E i \in 1..n : place[i] = k
<1> USE DEF Ranks
<1>1. IsFiniteSet(1..n) /\ Cardinality(1..n) = n
  BY FS_Interval
<1>2. ASSUME NEW i \in 1..n
      PROVE  IsFiniteSet(before[i]) /\ Cardinality(before[i]) \in Nat /\ Cardinality(before[i]) < n
  <2>1. before[i] \in SUBSET (1..n) /\ i \notin before[i]
    OBVIOUS
  <2>2. IsFiniteSet(before[i]) /\ Cardinality(before[i]) <= Cardinality(1..n)
        /\ (Cardinality(1..n) = Cardinality(before[i]) => 1..n = before[i])
    BY <1>1, <2>1, FS_Subset
  <2>3. Cardinality(before[i]) \in Nat
    BY <2>2, FS_CardinalityType
  <2> QED
    BY <1>1, <2>1, <2>2, <2>3
<1>3. ASSUME NEW i \in 1..n, NEW j \in 1..n, i \in before[j]
      PROVE  Cardinality(before[i]) < Cardinality(before[j])
  <2>1. before[i] \in SUBSET before[j] /\ i \notin before[i]
    BY <1>3
  <2>2. IsFiniteSet(before[j]) /\ Cardinality(before[i]) \in Nat /\ Cardinality(before[j]) \in Nat
    BY <1>2
  <2>3. Cardinality(before[i]) <= Cardinality(before[j])
        /\ (Cardinality(before[j]) = Cardinality(before[i]) => before[j] = before[i])
    BY <2>1, <2>2, FS_Subset
  <2> QED
    BY <1>3, <2>1, <2>2, <2>3
<1>4. ASSUME NEW i \in 1..n PROVE place[i] \in 1..n
  BY <1>2
<1>5. place \in [1..n -> 1..n]
  BY <1>4
<1>6. \A i, j \in 1..n : i \in before[j] => place[i] < place[j]
  BY <1>2, <1>3
<1>7. \A i, j \in 1..n : place[i] = place[j] => i = j
  <2> SUFFICES ASSUME NEW i \in 1..n, NEW j \in 1..n, place[i] = place[j], i # j
               PROVE  FALSE
    OBVIOUS
  <2>1. place[i] \in 1..n /\ place[j] \in 1..n
    BY <1>4
  <2>2. place[i] < place[j] \/ place[j] < place[i]
    BY <1>6
  <2> QED
    BY <2>1, <2>2
<1>8. place \in Surjection(1..n, 1..n)
  <2>1. place \in Injection(1..n, 1..n)
    BY <1>5, <1>7 DEF Injection, IsInjective
  <2> QED
    BY <1>1, <2>1, FS_Injection
<1> QED
  BY <1>5, <1>6, <1>7, <1>8 DEF Surjection

(* The k-th displayed is the one in the k-th place of that order.          *)
LEMMA SortedIsPlaced ==
    ASSUME NEW n \in Nat, NEW s \in [1..n -> Results]
    PROVE  /\ DOMAIN Sorted(s) = 1..n
           /\ \E inv \in [1..n -> 1..n] :
                 /\ \A i \in 1..n : \E k \in 1..n : inv[k] = i
                 /\ \A k, l \in 1..n : inv[k] = inv[l] => k = l
                 /\ \A k \in 1..n : Sorted(s)[k] = s[inv[k]]
                 /\ \A k, l \in 1..n : k < l => Before(s, inv[k], inv[l])
<1> DEFINE B(i) == {j \in DOMAIN s : Before(s, j, i)}
           C(k) == CHOOSE i \in DOMAIN s : Cardinality({j \in DOMAIN s : Before(s, j, i)}) + 1 = k
<1>1. DOMAIN s = 1..n
  OBVIOUS
<1>2. DOMAIN Sorted(s) = 1..n /\ \A k \in 1..n : Sorted(s)[k] = s[C(k)]
  BY DEF Sorted
<1>3. \A i, j \in 1..n : j \in B(i) <=> Before(s, j, i)
  BY <1>1
<1>4. \A i \in 1..n : B(i) \in SUBSET (1..n)
  BY <1>1
<1>5. \A k : C(k) = CHOOSE i \in DOMAIN s : Cardinality(B(i)) + 1 = k
  OBVIOUS
<1> HIDE DEF B, C
<1> DEFINE before == [i \in 1..n |-> B(i)]
           place == [i \in 1..n |-> Cardinality(B(i)) + 1]
<1>6. before \in [1..n -> SUBSET (1..n)] /\ \A i \in 1..n : before[i] = B(i)
  BY <1>4
<1>7. \A i, j \in 1..n : j \in before[i] <=> Before(s, j, i)
  BY <1>3, <1>6
<1>8. /\ place \in [1..n -> Nat]
      /\ \A i \in 1..n : place[i] = Cardinality(B(i)) + 1
  <2>1. IsFiniteSet(1..n)
    BY FS_Interval
  <2>2. \A i \in 1..n : Cardinality(B(i)) \in Nat
    BY <1>4, <2>1, FS_Subset, FS_CardinalityType
  <2> QED
    BY <2>2
<1> HIDE DEF before, place
<1>9. \A i \in 1..n : place[i] = Cardinality(before[i]) + 1
  BY <1>6, <1>8
<1>10. /\ \A i \in 1..n : i \notin before[i]
       /\ \A i, j \in 1..n : i # j => i \in before[j] \/ j \in before[i]
       /\ \A i, j, k \in 1..n : i \in before[j] /\ j \in before[k] => i \in before[k]
  BY <1>7, BeforeIsOrder
<1>11. /\ place \in [1..n -> 1..n]
       /\ \A i, j \in 1..n : i \in before[j] => place[i] < place[j]
       /\ \A i, j \in 1..n : place[i] = place[j] => i = j
       /\ \A k \in 1..n : \E i \in 1..n : place[i] = k
  <2>1. Ranks(n, before, place)
    BY <1>6, <1>8, <1>9, <1>10 DEF Ranks
  <2> QED
    BY <2>1, Places
<1>12. ASSUME NEW k \in 1..n PROVE C(k) \in 1..n /\ place[C(k)] = k
  <2>1. \E i \in DOMAIN s : Cardinality(B(i)) + 1 = k
    BY <1>1, <1>8, <1>11
  <2>2. C(k) \in DOMAIN s /\ Cardinality(B(C(k))) + 1 = k
    BY <1>5, <2>1
  <2> QED
    BY <1>1, <1>8, <2>2
<1> DEFINE inv == [k \in 1..n |-> C(k)]
<1>13. inv \in [1..n -> 1..n] /\ \A k \in 1..n : inv[k] = C(k) /\ place[inv[k]] = k
  BY <1>12
<1> HIDE DEF inv
<1>14. \A k, l \in 1..n : inv[k] = inv[l] => k = l
  BY <1>13
<1>15. \A i \in 1..n : \E k \in 1..n : inv[k] = i
  <2> TAKE i \in 1..n
  <2>1. place[i] \in 1..n
    BY <1>11
  <2>2. place[inv[place[i]]] = place[i] /\ inv[place[i]] \in 1..n
    BY <1>13, <2>1
  <2>3. inv[place[i]] = i
    BY <1>11, <2>2
  <2> QED
    BY <2>1, <2>3
<1>16. ASSUME NEW k \in 1..n, NEW l \in 1..n, k < l
       PROVE  Before(s, inv[k], inv[l])
  <2>1. PICK i, j \in 1..n : i = inv[k] /\ j = inv[l] /\ place[i] = k /\ place[j] = l
    BY <1>13
  <2>2. i # j /\ ~(place[j] < place[i])
    BY <1>16, <2>1
  <2>3. i \in before[j]
    BY <1>10, <1>11, <2>2
  <2> QED
    BY <1>7, <2>1, <2>3
<1>17. \A k \in 1..n : Sorted(s)[k] = s[inv[k]]
  BY <1>2, <1>13
<1> QED
  BY <1>2, <1>13, <1>14, <1>15, <1>16, <1>17, Zenon

(* How often a result is listed.                                           *)
Times(r, seq) == Cardinality({i \in DOMAIN seq : seq[i] = r})

(* A list in another order holds each result as often.                     *)
Rearranged(n, s, t, inv) ==
    /\ DOMAIN s = 1..n /\ DOMAIN t = 1..n /\ inv \in [1..n -> 1..n]
    /\ \A i \in 1..n : \E k \in 1..n : inv[k] = i
    /\ \A k, l \in 1..n : inv[k] = inv[l] => k = l
    /\ \A k \in 1..n : t[k] = s[inv[k]]

(* A rearrangement holds each result as often as what it rearranges.       *)
LEMMA SameTimes ==
    ASSUME NEW n \in Nat, NEW s, NEW t, NEW inv, Rearranged(n, s, t, inv), NEW r
    PROVE  Times(r, s) = Times(r, t)
<1> USE DEF Rearranged
<1> DEFINE S == {i \in 1..n : s[i] = r}
           T == {k \in 1..n : t[k] = r}
           f == [k \in T |-> inv[k]]
<1>1. IsFiniteSet(T)
  <2>1. IsFiniteSet(1..n)
    BY FS_Interval
  <2>2. T \in SUBSET (1..n)
    OBVIOUS
  <2> HIDE DEF T
  <2> QED
    BY <2>1, <2>2, FS_Subset
<1>2. \A k \in T : k \in 1..n /\ inv[k] \in S
  OBVIOUS
<1>3. \A i \in S : \E k \in T : inv[k] = i
  OBVIOUS
<1>4. \A k, l \in T : inv[k] = inv[l] => k = l
  OBVIOUS
<1>5. S = {i \in DOMAIN s : s[i] = r} /\ T = {i \in DOMAIN t : t[i] = r}
  OBVIOUS
<1> HIDE DEF S, T
<1>6. f \in Bijection(T, S)
  <2>1. f \in [T -> S]
    BY <1>2
  <2>2. \A a, b \in T : f[a] = f[b] => a = b
    BY <1>4
  <2>3. \A i \in S : \E k \in T : f[k] = i
    BY <1>3
  <2> HIDE DEF f
  <2>4. f \in Injection(T, S)
    BY <2>1, <2>2 DEF Injection, IsInjective
  <2>5. f \in Surjection(T, S)
    BY <2>1, <2>3 DEF Surjection
  <2> QED
    BY <2>4, <2>5 DEF Bijection
<1> HIDE DEF f
<1>7. ExistsBijection(T, S)
  BY <1>6 DEF ExistsBijection
<1> QED
  BY <1>1, <1>5, <1>7, FS_Bijection DEF Times

(* Passed, failed and undetermined are all there is.                       *)
LEMMA CountsAddUp ==
    ASSUME NEW n \in Nat, NEW s \in [1..n -> Results]
    PROVE  /\ Counts(s).passed + Counts(s).failed + Counts(s).undetermined = n
           /\ Counts(s).failed = 0 <=> \A i \in 1..n : ~Failed(s[i])
<1> DEFINE P == {i \in 1..n : s[i].determined /\ s[i].passed}
           F == {i \in 1..n : Failed(s[i])}
           U == {i \in 1..n : ~s[i].determined}
<1>1. /\ Counts(s).passed = Cardinality(P) /\ Counts(s).failed = Cardinality(F)
      /\ Counts(s).undetermined = Cardinality(U)
  BY DEF Counts
<1>2. IsFiniteSet(1..n) /\ Cardinality(1..n) = n
  BY FS_Interval
<1>3. /\ P \in SUBSET (1..n) /\ F \in SUBSET (1..n) /\ U \in SUBSET (1..n)
      /\ P \cup F = {i \in 1..n : s[i].determined}
      /\ P \cap F = {} /\ (P \cup F) \cap U = {} /\ (P \cup F) \cup U = 1..n
  BY DEF Failed
<1>4. F = {} <=> \A i \in 1..n : ~Failed(s[i])
  OBVIOUS
<1> HIDE DEF P, F, U
<1>5. /\ IsFiniteSet(P) /\ IsFiniteSet(F) /\ IsFiniteSet(U)
      /\ Cardinality(P) \in Nat /\ Cardinality(F) \in Nat /\ Cardinality(U) \in Nat
  BY <1>2, <1>3, FS_Subset, FS_CardinalityType
<1>6. Cardinality({}) = 0
  BY FS_EmptySet
<1>7. IsFiniteSet(P \cup F) /\ Cardinality(P \cup F) = Cardinality(P) + Cardinality(F)
  <2>1. /\ IsFiniteSet(P \cup F)
        /\ Cardinality(P \cup F) = Cardinality(P) + Cardinality(F) - Cardinality(P \cap F)
    BY <1>5, FS_Union
  <2>2. Cardinality(P \cap F) = 0
    BY <1>3, <1>6
  <2> QED
    BY <1>5, <2>1, <2>2
<1>8. Cardinality(1..n) = Cardinality(P) + Cardinality(F) + Cardinality(U)
  <2>1. Cardinality((P \cup F) \cup U)
            = Cardinality(P \cup F) + Cardinality(U) - Cardinality((P \cup F) \cap U)
    BY <1>5, <1>7, FS_Union
  <2>2. Cardinality((P \cup F) \cap U) = 0 /\ (P \cup F) \cup U = 1..n
    BY <1>3, <1>6
  <2>3. Cardinality(1..n) = Cardinality(P \cup F) + Cardinality(U) - 0
    BY <2>1, <2>2
  <2> QED
    BY <1>5, <1>7, <2>3
<1>9. Cardinality(F) = 0 <=> F = {}
  BY <1>5, FS_EmptySet
<1> QED
  BY <1>1, <1>2, <1>4, <1>5, <1>8, <1>9

(* The three groups, and what neighbours in the display have to do with    *)
(* each other.                                                             *)
LEMMA RankFacts ==
    ASSUME NEW r \in Results
    PROVE  /\ Rank(r) \in 0..2
           /\ Rank(r) = 0 <=> Failed(r)
           /\ Rank(r) = 1 <=> ~r.determined
<1>1. r.determined \in BOOLEAN /\ r.passed \in BOOLEAN
  BY DEF Results
<1> QED
  BY <1>1 DEF Rank, Failed

(* Of two results displayed in this order the first ranks no lower.        *)
LEMMA Neighbours ==
    ASSUME NEW r \in Results, NEW q \in Results, Precedes(r, q) \/ ~Precedes(q, r)
    PROVE  /\ Failed(q) => Failed(r)
           /\ Failed(q) => r.severity >= q.severity
           /\ ~q.determined => ~(r.determined /\ r.passed)
<1>1. PICK a, b \in Nat : a = r.severity /\ b = q.severity
  BY DEF Results
<1>2. PICK m, n \in 0..2 : m = Rank(r) /\ n = Rank(q)
  BY RankFacts
<1>3. m <= n
  BY <1>2 DEF Precedes
<1>4. m = 0 /\ n = 0 => a >= b
  <2>1. CASE Precedes(r, q)
    BY <1>1, <1>2, <2>1 DEF Precedes
  <2>2. CASE ~Precedes(q, r)
    BY <1>1, <1>2, <2>2 DEF Precedes
  <2> QED
    BY <2>1, <2>2
<1>5. /\ m = 0 <=> Failed(r)
      /\ n = 0 <=> Failed(q)
      /\ m = 1 <=> ~r.determined
      /\ n = 1 <=> ~q.determined
  BY <1>2, RankFacts
<1>6. m = 0 \/ m = 1 => ~(r.determined /\ r.passed)
  BY <1>5 DEF Failed
<1> QED
  BY <1>1, <1>3, <1>4, <1>5, <1>6

(* What is published of a sweep loses no result, repeats none, puts        *)
(* failures first and the worst of them at the head, and counts what it    *)
(* lists (checks.go:523-581, wire.go:79-101).                              *)
LEMMA Displayed ==
    ASSUME NEW n \in Nat, NEW found \in [1..n -> Results]
    PROVE  LET shown == ToJSON(found)
           IN  /\ \A r : Times(r, found) = Times(r, shown.checks)
               /\ \A i, j \in DOMAIN shown.checks : i < j =>
                   /\ Failed(shown.checks[j]) => Failed(shown.checks[i])
                   /\ Failed(shown.checks[j]) =>
                          shown.checks[i].severity >= shown.checks[j].severity
                   /\ ~shown.checks[j].determined =>
                          ~(shown.checks[i].determined /\ shown.checks[i].passed)
               /\ shown.counts.passed + shown.counts.failed + shown.counts.undetermined = n
               /\ shown.worst = IF shown.counts.failed = 0 THEN None
                                ELSE shown.checks[1].severity
<1> DEFINE t == Sorted(found)
<1>1. /\ ToJSON(found).checks = t /\ ToJSON(found).counts = Counts(found)
      /\ ToJSON(found).worst = Worst(found)
  BY DEF ToJSON
<1>2. DOMAIN t = 1..n
  BY SortedIsPlaced
<1>3. PICK inv \in [1..n -> 1..n] :
         /\ \A i \in 1..n : \E k \in 1..n : inv[k] = i
         /\ \A k, l \in 1..n : inv[k] = inv[l] => k = l
         /\ \A k \in 1..n : t[k] = found[inv[k]]
         /\ \A k, l \in 1..n : k < l => Before(found, inv[k], inv[l])
  BY SortedIsPlaced
<1> HIDE DEF t
<1>4. \A r : Times(r, found) = Times(r, t)
  <2> TAKE r
  <2>1. DOMAIN found = 1..n
    OBVIOUS
  <2>2. Rearranged(n, found, t, inv)
    BY <1>2, <1>3, <2>1 DEF Rearranged
  <2> QED
    BY <2>2, SameTimes
<1>5. \A k \in 1..n : t[k] \in Results
  BY <1>3
<1>6. ASSUME NEW i \in 1..n, NEW j \in 1..n, i < j
      PROVE  /\ Failed(t[j]) => Failed(t[i])
             /\ Failed(t[j]) => t[i].severity >= t[j].severity
             /\ ~t[j].determined => ~(t[i].determined /\ t[i].passed)
  <2>1. Precedes(t[i], t[j]) \/ ~Precedes(t[j], t[i])
    BY <1>3, <1>6 DEF Before
  <2> QED
    BY <1>5, <2>1, Neighbours
<1>7. /\ Counts(found).passed + Counts(found).failed + Counts(found).undetermined = n
      /\ Counts(found).failed = 0 <=> \A i \in 1..n : ~Failed(found[i])
  BY CountsAddUp
<1>8. Worst(found) = IF Counts(found).failed = 0 THEN None ELSE t[1].severity
  <2> DEFINE V == {found[i].severity : i \in {j \in DOMAIN found : Failed(found[j])}}
  <2>1. Worst(found) = IF V = {} THEN None ELSE CHOOSE v \in V : \A w \in V : w <= v
    BY DEF Worst
  <2>2. \A v : v \in V <=> \E i \in 1..n : Failed(found[i]) /\ v = found[i].severity
    OBVIOUS
  <2>3. V \subseteq Nat
    <3>1. \A i \in 1..n : found[i].severity \in Nat
      <4> TAKE i \in 1..n
      <4>1. found[i] \in Results
        OBVIOUS
      <4> QED
        BY <4>1 DEF Results
    <3> HIDE DEF V
    <3> QED
      BY <2>2, <3>1
  <2> HIDE DEF V
  <2>4. CASE \A i \in 1..n : ~Failed(found[i])
    BY <1>7, <2>1, <2>2, <2>4
  <2>5. CASE \E i \in 1..n : Failed(found[i])
    <3>1. PICK i \in 1..n : Failed(found[i])
      BY <2>5
    <3>2. PICK k \in 1..n : inv[k] = i
      BY <1>3
    <3>3. 1 \in 1..n /\ (1 = k \/ 1 < k)
      OBVIOUS
    <3>9. Failed(t[k])
      BY <1>3, <3>1, <3>2
    <3>4. Failed(t[1])
      BY <1>6, <3>3, <3>9
    <3>5. t[1].severity \in V
      <4>1. PICK j \in 1..n : j = inv[1] /\ t[1] = found[j]
        BY <1>3, <3>3
      <4> QED
        BY <2>2, <3>4, <4>1
    <3>6. ASSUME NEW w \in V PROVE w <= t[1].severity
      <4>1. PICK j \in 1..n : Failed(found[j]) /\ w = found[j].severity
        BY <2>2
      <4>2. PICK l \in 1..n : inv[l] = j
        BY <1>3
      <4>3. Failed(t[l]) /\ w = t[l].severity /\ w \in Nat
        BY <1>3, <2>3, <4>1, <4>2
      <4>4. 1 = l \/ 1 < l
        OBVIOUS
      <4>5. CASE 1 = l
        BY <4>3, <4>5
      <4>6. CASE 1 < l
        <5>1. t[1].severity >= t[l].severity
          BY <1>6, <3>3, <4>3, <4>6
        <5>2. t[1].severity \in Nat
          BY <2>3, <3>5
        <5> QED
          BY <4>3, <5>1, <5>2
      <4> QED
        BY <4>4, <4>5, <4>6
    <3>7. (CHOOSE v \in V : \A w \in V : w <= v) = t[1].severity
      <4> DEFINE c == CHOOSE v \in V : \A w \in V : w <= v
      <4>1. c \in V /\ \A w \in V : w <= c
        BY <3>5, <3>6
      <4> HIDE DEF c
      <4>2. c \in Nat /\ t[1].severity \in Nat /\ c <= t[1].severity /\ t[1].severity <= c
        BY <2>3, <3>5, <3>6, <4>1
      <4>3. c = t[1].severity
        BY <4>2
      <4> QED
        BY <4>3 DEF c
    <3>8. Counts(found).failed # 0 /\ V # {}
      BY <1>7, <2>5, <3>5
    <3> QED
      BY <2>1, <3>7, <3>8
  <2> QED
    BY <2>4, <2>5
<1> DEFINE shown == ToJSON(found)
<1>9. shown.checks = t /\ shown.counts = Counts(found) /\ shown.worst = Worst(found)
  BY <1>1
<1> HIDE DEF shown
<1>10. /\ \A r : Times(r, found) = Times(r, shown.checks)
       /\ \A i, j \in DOMAIN shown.checks : i < j =>
                   /\ Failed(shown.checks[j]) => Failed(shown.checks[i])
                   /\ Failed(shown.checks[j]) =>
                          shown.checks[i].severity >= shown.checks[j].severity
                   /\ ~shown.checks[j].determined =>
                          ~(shown.checks[i].determined /\ shown.checks[i].passed)
       /\ shown.counts.passed + shown.counts.failed + shown.counts.undetermined = n
       /\ shown.worst = IF shown.counts.failed = 0 THEN None ELSE shown.checks[1].severity
  BY <1>2, <1>4, <1>6, <1>7, <1>8, <1>9
<1> QED
  BY <1>10 DEF shown

(* What is published of a sweep is what it found: DisplayIsFaithful for    *)
(* any suite.                                                              *)
THEOREM Display == Spec => []DisplayIsFaithful
<1>1. IInv => DisplayIsFaithful
  <2> SUFFICES ASSUME IInv, NEW p \in Sweepers
               PROVE  LET found == sweep[p].checks
                          shown == ToJSON(found)
                      IN  /\ \A r \in ToSet(found) \cup ToSet(shown.checks) :
                                 Times(r, found) = Times(r, shown.checks)
                          /\ \A i, j \in DOMAIN shown.checks : i < j =>
                                 /\ Failed(shown.checks[j]) => Failed(shown.checks[i])
                                 /\ Failed(shown.checks[j]) =>
                                        shown.checks[i].severity >= shown.checks[j].severity
                                 /\ ~shown.checks[j].determined =>
                                        ~(shown.checks[i].determined /\ shown.checks[i].passed)
                          /\ shown.counts.passed + shown.counts.failed + shown.counts.undetermined
                                 = Len(found)
                          /\ shown.worst = IF shown.counts.failed = 0 THEN None
                                           ELSE shown.checks[1].severity
    BY DEF DisplayIsFaithful, Times
  <2>1. PICK found : found = sweep[p].checks
    OBVIOUS
  <2>2. SweeperOK(sweep[p])
    BY DEF IInv
  <2>3. Listed(found) /\ \A i \in DOMAIN found : found[i] \in Results
    BY <2>1, <2>2 DEF SweeperOK, SweeperTypeOK, FindingOK
  <2>4. PICK n \in Nat : n = Len(found) /\ DOMAIN found = 1..n
    BY <2>3, Appended
  <2>5. found \in [1..n -> Results]
    <3>1. found \in Seq(ToSet(found))
      BY <2>3 DEF Listed
    <3>2. found = [i \in 1..n |-> found[i]]
      BY <2>4, <3>1
    <3> QED
      BY <2>3, <2>4, <3>2
  <2> QED
    BY <2>1, <2>4, <2>5, Displayed
<1> QED
  BY <1>1, Inductive, PTL
-----------------------------------------------------------------------------
(* Naturals have a least element: the least of the intervals 1..n.         *)
LEMMA LeastNat ==
    ASSUME NEW X, X \subseteq Nat, X # {}
    PROVE  \E n \in X : \A m \in X : n <= m
<1> DEFINE T == {1..n : n \in X}
           R == StrictSubsetOrdering(Nat)
<1>1. T \subseteq FiniteSubsetsOf(Nat)
  <2>1. \A n \in X : 1..n \in SUBSET Nat /\ IsFiniteSet(1..n)
    BY FS_Interval
  <2> QED
    BY <2>1 DEF FiniteSubsetsOf
<1>2. T # {}
  OBVIOUS
<1>3. IsWellFoundedOn(R, FiniteSubsetsOf(Nat))
  BY FS_StrictSubsetOrderingWellFounded
<1> HIDE DEF R
<1>4. \E t \in T : \A s \in T : ~(<<s, t>> \in R)
  BY <1>1, <1>2, <1>3, WFMin
<1>5. PICK n \in X : \A m \in X : ~(<<1..m, 1..n>> \in R)
  BY <1>4
<1>6. ASSUME NEW m \in X, m < n PROVE FALSE
  <2>1. m \in Nat /\ n \in Nat
    OBVIOUS
  <2>2. 1..m \in SUBSET Nat /\ 1..n \in SUBSET Nat /\ 1..m \subseteq 1..n
    BY <1>6, <2>1
  <2>3. n \in 1..n /\ n \notin 1..m
    BY <1>6, <2>1
  <2>4. <<1..m, 1..n>> \in R
    BY <2>2, <2>3 DEF R, StrictSubsetOrdering
  <2> QED
    BY <1>5, <2>4
<1> QED
  BY <1>6

(* A total and transitive relation.                                        *)
Orders(R, S) ==
    /\ \A a, b \in S : <<a, b>> \in R \/ <<b, a>> \in R
    /\ \A a, b, c \in S : <<a, b>> \in R /\ <<b, c>> \in R => <<a, c>> \in R

(* A finite set that is not empty has a greatest element in it.            *)
LEMMA Greatest ==
    ASSUME NEW S, IsFiniteSet(S), S # {}, NEW R, Orders(R, S)
    PROVE  \E g \in S : \A a \in S : <<a, g>> \in R
<1>1. PICK n \in Nat : ExistsSurjection(1..n, S)
  BY FS_NatSurjection
<1>2. PICK f \in Surjection(1..n, S) : TRUE
  BY <1>1 DEF ExistsSurjection
<1>3. /\ \A i \in 1..n : f[i] \in S
      /\ \A a \in S : \E i \in 1..n : f[i] = a
  BY <1>2 DEF Surjection
<1>4. n >= 1
  <2>1. PICK a \in S : TRUE
    OBVIOUS
  <2>2. PICK i \in 1..n : f[i] = a
    BY <1>3
  <2> QED
    BY <2>2
<1> DEFINE Has(k) == \E i \in 1..k : \A j \in 1..k : <<f[j], f[i]>> \in R
           X == {k \in 1..n : ~Has(k)}
<1>5. ASSUME X # {} PROVE FALSE
  <2>1. PICK k \in X : \A m \in X : k <= m
    <3>1. X \subseteq Nat
      OBVIOUS
    <3> HIDE DEF X
    <3> QED
      BY <1>5, <3>1, LeastNat
  <2>2. k \in 1..n /\ k \in Int
    OBVIOUS
  <2>3. ~Has(k)
    OBVIOUS
  <2>4. CASE k = 1
    <3>1. <<f[1], f[1]>> \in R
      BY <1>3, <1>4 DEF Orders
    <3> QED
      BY <2>3, <2>4, <3>1
  <2>5. CASE k # 1
    <3>1. k - 1 \in 1..n
      BY <2>2, <2>5
    <3>2. Has(k - 1)
      <4>1. k - 1 \notin X
        <5> HIDE DEF X
        <5> QED
          BY <2>1, <2>2
      <4> QED
        BY <3>1, <4>1
    <3>3. PICK i \in 1..(k - 1) : \A j \in 1..(k - 1) : <<f[j], f[i]>> \in R
      BY <3>2
    <3>4. i \in 1..k /\ k \in 1..k /\ \A j \in 1..k : j \in 1..n /\ (j \in 1..(k - 1) \/ j = k)
      BY <2>2
    <3>5. \A j \in 1..k : f[j] \in S
      BY <1>3, <3>4
    <3> HIDE DEF X, Has
    <3>6. CASE <<f[k], f[i]>> \in R
      <4>1. \A j \in 1..k : <<f[j], f[i]>> \in R
        BY <3>3, <3>4, <3>6
      <4> QED
        BY <2>3, <3>4, <4>1 DEF Has
    <3>7. CASE <<f[i], f[k]>> \in R
      <4>1. \A j \in 1..k : <<f[j], f[k]>> \in R
        <5> TAKE j \in 1..k
        <5>1. CASE j = k
          BY <3>4, <3>5, <5>1 DEF Orders
        <5>2. CASE j \in 1..(k - 1)
          <6>1. <<f[j], f[i]>> \in R /\ f[j] \in S /\ f[i] \in S /\ f[k] \in S
            BY <3>3, <3>4, <3>5, <5>2
          <6> QED
            BY <3>7, <6>1 DEF Orders
        <5> QED
          BY <3>4, <5>1, <5>2
      <4> QED
        BY <2>3, <3>4, <4>1 DEF Has
    <3>8. f[i] \in S /\ f[k] \in S
      BY <3>4, <3>5
    <3> QED
      BY <3>6, <3>7, <3>8 DEF Orders
  <2> QED
    BY <2>4, <2>5
<1>6. Has(n)
  <2>1. n \in 1..n
    BY <1>4
  <2> QED
    BY <1>5, <2>1
<1>7. PICK i \in 1..n : \A j \in 1..n : <<f[j], f[i]>> \in R
  BY <1>6
<1> QED
  BY <1>3, <1>7

(* A finite set of numbers has a greatest and a least in it.               *)
LEMMA MaxFacts ==
    ASSUME NEW S, S \subseteq Int, IsFiniteSet(S), S # {}
    PROVE  Max(S) \in S /\ \A a \in S : a <= Max(S)
<1> DEFINE R == {e \in S \X S : e[1] <= e[2]}
<1>1. Orders(R, S)
  BY DEF Orders
<1>2. PICK g \in S : \A a \in S : <<a, g>> \in R
  <2> HIDE DEF R
  <2> QED
    BY <1>1, Greatest
<1>3. \A a \in S : g >= a
  BY <1>2
<1>4. Max(S) \in S /\ \A a \in S : Max(S) >= a
  BY <1>3 DEF Max
<1> QED
  BY <1>4

(* Likewise the least.                                                     *)
LEMMA MinFacts ==
    ASSUME NEW S, S \subseteq Int, IsFiniteSet(S), S # {}
    PROVE  Min(S) \in S /\ \A a \in S : Min(S) <= a
<1> DEFINE R == {e \in S \X S : e[2] <= e[1]}
<1>1. Orders(R, S)
  BY DEF Orders
<1>2. PICK g \in S : \A a \in S : <<a, g>> \in R
  <2> HIDE DEF R
  <2> QED
    BY <1>1, Greatest
<1>3. \A a \in S : g <= a
  BY <1>2
<1>4. Min(S) \in S /\ \A a \in S : Min(S) <= a
  BY <1>3 DEF Min
<1> QED
  BY <1>4

(* What a sequence of numbers makes of a finite set of its indices.        *)
LEMMA ImagesAreFinite ==
    ASSUME NEW I, IsFiniteSet(I), NEW f
    PROVE  IsFiniteSet({f[i] : i \in I})
<1> DEFINE S == {f[i] : i \in I}
           g == [i \in I |-> f[i]]
<1>1. g \in Surjection(I, S)
  BY DEF Surjection
<1> HIDE DEF g, S
<1>2. IsFiniteSet(S)
  BY <1>1, FS_Surjection
<1> QED
  BY <1>2 DEF S

(* c[k] adds up the first k of f, k running to n.                          *)
AddsUp(c, f, n) ==
    /\ c \in [0..n -> Int] /\ c[0] = 0
    /\ \A k \in 1..n : c[k] = c[k - 1] + f[k]

(* The sums of a sequence of numbers exist, and the last is SumOf.         *)
LEMMA PartialSums ==
    ASSUME NEW f \in Seq(Int)
    PROVE  \E c : AddsUp(c, f, Len(f)) /\ SumOf(f) = c[Len(f)]
<1> DEFINE n == Len(f)
           Part(m) == \E c : AddsUp(c, f, m)
           X == {m \in 0..n : ~Part(m)}
<1>0. n \in Nat /\ \A k \in 1..n : f[k] \in Int
  OBVIOUS
<1>1. ASSUME X # {} PROVE FALSE
  <2>1. PICK m \in X : \A l \in X : m <= l
    <3>1. X \subseteq Nat
      BY <1>0
    <3> HIDE DEF X
    <3> QED
      BY <1>1, <3>1, LeastNat
  <2>2. m \in 0..n /\ m \in Nat
    BY <1>0
  <2>3. ~Part(m)
    OBVIOUS
  <2>4. CASE m = 0
    <3>1. AddsUp([k \in 0..0 |-> 0], f, 0)
      BY DEF AddsUp
    <3> QED
      BY <2>3, <2>4, <3>1
  <2>5. CASE m # 0
    <3>1. m - 1 \in 0..n
      BY <1>0, <2>2, <2>5
    <3>2. m - 1 \notin X
      <4> HIDE DEF X
      <4> QED
        BY <2>1, <2>2
    <3>3. PICK c : AddsUp(c, f, m - 1)
      BY <3>1, <3>2
    <3> DEFINE d == [k \in 0..m |-> IF k = m THEN c[m - 1] + f[m] ELSE c[k]]
    <3>4. /\ c \in [0..(m - 1) -> Int] /\ c[0] = 0
          /\ \A k \in 1..(m - 1) : c[k] = c[k - 1] + f[k]
      BY <3>3 DEF AddsUp
    <3>5. f[m] \in Int /\ c[m - 1] \in Int
      BY <1>0, <2>2, <2>5, <3>4
    <3>6. d \in [0..m -> Int]
      BY <2>2, <3>4, <3>5
    <3>7. d[0] = 0
      BY <2>2, <2>5, <3>4
    <3>8. \A k \in 1..m : d[k] = d[k - 1] + f[k]
      <4> TAKE k \in 1..m
      <4>1. k - 1 \in 0..m /\ k \in 0..m /\ k - 1 # m
        BY <2>2
      <4>2. d[k - 1] = c[k - 1]
        BY <4>1
      <4>3. CASE k = m
        BY <4>1, <4>2, <4>3
      <4>4. CASE k # m
        <5>1. k \in 1..(m - 1)
          BY <2>2, <4>4
        <5> QED
          BY <3>4, <4>1, <4>2, <4>4, <5>1
      <4> QED
        BY <4>3, <4>4
    <3> HIDE DEF d
    <3>9. AddsUp(d, f, m)
      BY <3>6, <3>7, <3>8 DEF AddsUp
    <3> QED
      BY <2>3, <3>9
  <2> QED
    BY <2>4, <2>5
<1>2. PICK g : AddsUp(g, f, n)
  BY <1>0, <1>1
<1>3. g = [k \in 0..n |-> IF k = 0 THEN 0 ELSE g[k - 1] + f[k]]
  <2>1. g = [k \in 0..n |-> g[k]]
    BY <1>2 DEF AddsUp
  <2>2. \A k \in 0..n : g[k] = IF k = 0 THEN 0 ELSE g[k - 1] + f[k]
    BY <1>2 DEF AddsUp
  <2> QED
    BY <2>1, <2>2
<1> DEFINE c == CHOOSE h : h = [k \in 0..n |-> IF k = 0 THEN 0 ELSE h[k - 1] + f[k]]
<1>4. c = [k \in 0..n |-> IF k = 0 THEN 0 ELSE c[k - 1] + f[k]]
  BY <1>3, Zenon
<1>5. SumOf(f) = c[n]
  BY DEF SumOf
<1> HIDE DEF c
<1>6. c \in [0..n -> Int]
  <2> DEFINE Y == {m \in 0..n : c[m] \notin Int}
  <2>1. ASSUME Y # {} PROVE FALSE
    <3>1. PICK m \in Y : \A l \in Y : m <= l
      <4>1. Y \subseteq Nat
        BY <1>0
      <4> HIDE DEF Y
      <4> QED
        BY <2>1, <4>1, LeastNat
    <3>2. m \in 0..n /\ c[m] \notin Int
      OBVIOUS
    <3>3. CASE m = 0
      BY <1>0, <1>4, <3>2, <3>3
    <3>4. CASE m # 0
      <4>1. m - 1 \in 0..n /\ m \in 1..n
        BY <1>0, <3>2, <3>4
      <4>2. m - 1 \notin Y
        <5> HIDE DEF Y
        <5> QED
          BY <1>0, <3>1, <3>2
      <4>3. c[m - 1] \in Int
        BY <4>1, <4>2
      <4>4. c[m] = c[m - 1] + f[m]
        BY <1>4, <3>2, <3>4
      <4> QED
        BY <1>0, <3>2, <4>1, <4>3, <4>4
    <3> QED
      BY <3>3, <3>4
  <2>2. \A m \in 0..n : c[m] \in Int
    BY <2>1
  <2> QED
    BY <1>4, <2>2
<1>7. AddsUp(c, f, n)
  <2>1. c[0] = 0
    BY <1>0, <1>4
  <2>2. \A k \in 1..n : c[k] = c[k - 1] + f[k]
    <3> TAKE k \in 1..n
    <3>1. k \in 0..n /\ k # 0
      BY <1>0
    <3> QED
      BY <1>4, <3>1
  <2> QED
    BY <1>6, <2>1, <2>2 DEF AddsUp
<1> QED
  BY <1>5, <1>7

(* A square is not negative.                                               *)
LEMMA Square ==
    ASSUME NEW a \in Int
    PROVE  a * a >= 0
<1>1. CASE a >= 0
  BY <1>1
<1>2. CASE a < 0
  BY <1>2
<1> QED
  BY <1>1, <1>2

(* What a further share adds to the index and to the square of the sum.    *)
LEMMA Widen ==
    ASSUME NEW q \in Nat, NEW s \in Nat, NEW c \in Nat, NEW v \in Nat, v > 0,
           q <= s * s, s * s <= c * q
    PROVE  /\ q + v * v <= (s + v) * (s + v)
           /\ (s + v) * (s + v) <= (c + 1) * (q + v * v)
           /\ q + v * v > 0 /\ s + v > 0
<1>1. (s + v) * (s + v) = ((s * s) + (2 * (s * v))) + (v * v)
  OBVIOUS
<1>2. (c + 1) * (q + v * v) = ((c * q) + (c * (v * v))) + (q + v * v)
  OBVIOUS
<1>3. s * v >= 0 /\ v * v > 0
  OBVIOUS
<1>4. 2 * (s * v) <= (c * (v * v)) + q
  <2>1. CASE c = 0
    <3>1. s * s <= 0
      BY <2>1
    <3>2. s = 0
      BY <3>1
    <3>3. s * v = 0 /\ c * (v * v) = 0
      BY <2>1, <3>2
    <3> QED
      BY <3>3
  <2>2. CASE c > 0
    <3> DEFINE d == (c * v) - s
               e == ((c * (v * v)) + q) - (2 * (s * v))
    <3>1. d \in Int /\ e \in Int
      OBVIOUS
    <3>2. d * d = (((c * v) * (c * v)) - (2 * (s * (c * v)))) + (s * s)
      OBVIOUS
    <3>3. c * e = ((c * (c * (v * v))) + (c * q)) - (c * (2 * (s * v)))
      OBVIOUS
    <3>4. c * (c * (v * v)) = (c * v) * (c * v) /\ c * (2 * (s * v)) = 2 * (s * (c * v))
      OBVIOUS
    <3>5. d * d >= 0
      BY <3>1, Square
    <3>6. c * e >= d * d
      BY <3>2, <3>3, <3>4
    <3> HIDE DEF d, e
    <3>7. c * e >= 0
      BY <3>1, <3>5, <3>6
    <3>8. e >= 0
      <4>1. CASE e < 0
        <5>1. c * e < 0
          BY <2>2, <3>1, <4>1
        <5> QED
          BY <3>1, <3>7, <5>1
      <4> QED
        BY <3>1, <4>1
    <3> QED
      BY <3>8 DEF e
  <2> QED
    BY <2>1, <2>2
<1>5. c * (v * v) \in Int /\ c * q \in Int /\ s * s \in Int /\ s * v \in Int /\ v * v \in Int
  OBVIOUS
<1> QED
  BY <1>1, <1>2, <1>3, <1>4, <1>5

(* A path of an answer that was not refused: what it takes, and what it    *)
(* delivers, which is never nothing.                                       *)
Paths == [source : Int, dest : Nat \ {0}, hops : Seq(STRING)]

Searched(answer) == StrictSendPaths(TRUE, answer)

Best(answer) == BestPath(TRUE, answer)

SearchOK(answer, found) ==
    /\ found.ok \in BOOLEAN
    /\ found.ok => /\ answer.status = "ok"
                   /\ found.paths \in Seq(Paths)
                   /\ Len(found.paths) = Len(answer.records)
    /\ ~found.ok => found.why \in {"upstream", "corrupt"}

BestOK(answer, best) ==
    /\ best.ok \in BOOLEAN
    /\ best.ok => best.path \in Paths
    /\ ~best.ok /\ best.why = "no path found" =>
           answer.status = "ok" /\ answer.records = << >>

(* What a search comes to, by its answer (dex.go:170-328).                 *)
LEMMA SearchFacts ==
    ASSUME NEW answer \in SearchAnswers
    PROVE  SearchOK(answer, Searched(answer))
<1>p. PICK found : found = Searched(answer)
  OBVIOUS
<1> DEFINE records == answer.records
<1>0. records \in Seq(Records)
  BY DEF SearchAnswers
<1>1. CASE ~get(answer)
  <2>1. found = Error("upstream")
    BY <1>p, <1>1 DEF Searched, StrictSendPaths
  <2>2. SearchOK(answer, found)
    BY <2>1 DEF Error, SearchOK
  <2> QED
    BY <1>p, <2>2
<1>2. CASE get(answer) /\ \E i \in DOMAIN records : Corrupt("strict-send", records[i])
  <2>1. found = Error("corrupt")
    BY <1>p, <1>2 DEF Searched, StrictSendPaths, parsePathRecords
  <2>2. SearchOK(answer, found)
    BY <2>1 DEF Error, SearchOK
  <2> QED
    BY <1>p, <2>2
<1>3. CASE get(answer) /\ ~\E i \in DOMAIN records : Corrupt("strict-send", records[i])
  <2> DEFINE paths == [i \in DOMAIN records |-> Path(records[i])]
  <2>1. found = [ok |-> TRUE, why |-> "", paths |-> paths]
    BY <1>p, <1>3 DEF Searched, StrictSendPaths, parsePathRecords
  <2>2. \A i \in DOMAIN records : Path(records[i]) \in Paths
    <3> TAKE i \in DOMAIN records
    <3>1. records[i] \in Records /\ ~Corrupt("strict-send", records[i])
      BY <1>0, <1>3
    <3>2. ASSUME NEW r \in Records, ~Corrupt("strict-send", r) PROVE Path(r) \in Paths
      <4>1. r.source \in Amounts /\ r.dest \in Amounts /\ r.hops \in Seq(STRING)
        BY <3>2 DEF Records
      <4>2. r.source.n \in Int /\ r.dest.n \in Int
        BY <4>1 DEF Amounts
      <4>3. ~(r.dest.n <= 0)
        BY <3>2 DEF Corrupt, Computed
      <4> QED
        BY <4>1, <4>2, <4>3 DEF Path, Paths
    <3> QED
      BY <3>1, <3>2
  <2>3. paths \in Seq(Paths) /\ Len(paths) = Len(records)
    <3>1. DOMAIN records = 1..Len(records) /\ Len(records) \in Nat
      BY <1>0
    <3> QED
      BY <2>2, <3>1
  <2> HIDE DEF paths
  <2>4. answer.status = "ok"
    BY <1>3 DEF get
  <2>5. SearchOK(answer, found)
    BY <2>1, <2>3, <2>4 DEF SearchOK
  <2> QED
    BY <1>p, <2>5
<1> QED
  BY <1>1, <1>2, <1>3

(* The best path of an answer delivers something, and no path is found only*)
(* where Horizon answered with none.                                       *)
LEMMA BestFacts ==
    ASSUME NEW answer \in SearchAnswers
    PROVE  BestOK(answer, Best(answer))
<1>p. PICK best : best = Best(answer)
  OBVIOUS
<1>f. PICK found : found = Searched(answer)
  OBVIOUS
<1> DEFINE Most(i) == \A j \in DOMAIN found.paths :
                          found.paths[j].dest <= found.paths[i].dest
<1>0. answer.records \in Seq(Records)
  BY DEF SearchAnswers
<1>1. SearchOK(answer, found)
  BY <1>f, SearchFacts
<1>2. CASE ~found.ok
  <2>1. best = [ok |-> FALSE, why |-> found.why]
    BY <1>p, <1>f, <1>2 DEF Best, BestPath, Searched
  <2>2. found.why \in {"upstream", "corrupt"}
    BY <1>1, <1>2 DEF SearchOK
  <2>3. BestOK(answer, best)
    BY <2>1, <2>2 DEF BestOK
  <2> QED
    BY <1>p, <2>3
<1>3. CASE found.ok /\ found.paths = << >>
  <2>1. best = [ok |-> FALSE, why |-> "no path found"]
    BY <1>p, <1>f, <1>3 DEF Best, BestPath, Searched
  <2>2. Len(answer.records) = 0 /\ answer.status = "ok"
    BY <1>1, <1>3 DEF SearchOK
  <2>3. answer.records = << >>
    BY <1>0, <2>2
  <2>4. BestOK(answer, best)
    BY <2>1, <2>2, <2>3 DEF BestOK
  <2> QED
    BY <1>p, <2>4
<1>4. CASE found.ok /\ found.paths # << >>
  <2> DEFINE n == Len(found.paths)
             I == {i \in DOMAIN found.paths : Most(i)}
  <2>0. found.paths \in Seq(Paths)
    BY <1>1, <1>4 DEF SearchOK
  <2>1. /\ n \in Nat /\ n >= 1 /\ DOMAIN found.paths = 1..n
        /\ \A i \in 1..n : found.paths[i] \in Paths
    BY <1>4, <2>0
  <2>2. \A i \in 1..n : found.paths[i].dest \in Int
    BY <2>1 DEF Paths
  <2>3. IsFiniteSet(1..n) /\ 1..n # {}
    <3> HIDE DEF n
    <3>1. n \in Int /\ 1 \in 1..n
      BY <2>1
    <3>2. IsFiniteSet(1..n)
      BY <3>1, FS_Interval
    <3> QED
      BY <3>1, <3>2
  <2>4. I # {}
    <3> DEFINE v == [i \in 1..n |-> found.paths[i].dest]
               R == {e \in (1..n) \X (1..n) : v[e[1]] <= v[e[2]]}
    <3>0. v \in [1..n -> Int]
      BY <2>2
    <3>1. Orders(R, 1..n)
      <4> HIDE DEF v, n
      <4> QED
        BY <3>0 DEF Orders
    <3>2. PICK g \in 1..n : \A a \in 1..n : <<a, g>> \in R
      <4> HIDE DEF R, n
      <4> QED
        BY <2>3, <3>1, Greatest
    <3>3. Most(g)
      BY <2>1, <3>2
    <3> QED
      BY <2>1, <3>3
  <2>5. I \subseteq 1..n /\ I \subseteq Int
    BY <2>1
  <2>6. IsFiniteSet(I)
    <3> HIDE DEF I, n
    <3> QED
      BY <2>3, <2>5, FS_Subset
  <2>7. Min(I) \in I
    <3> HIDE DEF I, n
    <3> QED
      BY <2>4, <2>5, <2>6, MinFacts
  <2>8. found.paths[Min(I)] \in Paths
    <3> HIDE DEF I, n
    <3> QED
      BY <2>1, <2>5, <2>7
  <2>9. best = [ok |-> TRUE, why |-> "", path |-> found.paths[Min(I)]]
    BY <1>p, <1>f, <1>4 DEF Best, BestPath, Searched
  <2> HIDE DEF I, n
  <2>10. BestOK(answer, best)
    BY <2>8, <2>9 DEF BestOK
  <2> QED
    BY <1>p, <2>10
<1>5. found.ok \in BOOLEAN
  BY <1>1 DEF SearchOK
<1> QED
  BY <1>2, <1>3, <1>4, <1>5

(* The first of each distinct path; there are no more of them than paths   *)
(* that differ.                                                            *)
LEMMA FirstsDiffer ==
    ASSUME NEW paths \in Seq(Paths)
    PROVE  /\ IsFiniteSet(Firsts(paths))
           /\ Cardinality(Firsts(paths)) <= Cardinality({paths[k].hops : k \in DOMAIN paths})
           /\ Cardinality({paths[k].hops : k \in DOMAIN paths}) \in Nat
<1> DEFINE n == Len(paths)
           H == {paths[k].hops : k \in DOMAIN paths}
           F == Firsts(paths)
           way == [k \in 1..n |-> paths[k].hops]
           f == [i \in F |-> paths[i].hops]
<1>1. n \in Nat /\ DOMAIN paths = 1..n
  OBVIOUS
<1>2. IsFiniteSet(1..n)
  BY <1>1, FS_Interval
<1>3. IsFiniteSet(H)
  <2>1. H = {way[k] : k \in 1..n}
    BY <1>1
  <2> HIDE DEF H, way, n
  <2> QED
    BY <1>2, <2>1, ImagesAreFinite
<1>4. F \subseteq 1..n /\ \A i, j \in F : i # j => paths[i].hops # paths[j].hops
  <2>1. \A i \in F : i \in 1..n /\ \A j \in 1..(i - 1) : paths[j].hops # paths[i].hops
    BY <1>1 DEF Firsts
  <2>2. ASSUME NEW i \in F, NEW j \in F, i # j PROVE paths[i].hops # paths[j].hops
    <3>1. i \in Int /\ j \in Int
      BY <2>1
    <3>2. CASE i < j
      <4>1. i \in 1..(j - 1)
        BY <2>1, <3>1, <3>2
      <4> QED
        BY <2>1, <4>1
    <3>3. CASE j < i
      <4>1. j \in 1..(i - 1)
        BY <2>1, <3>1, <3>3
      <4> QED
        BY <2>1, <4>1
    <3> QED
      BY <2>2, <3>1, <3>2, <3>3
  <2> HIDE DEF F
  <2> QED
    BY <2>1, <2>2
<1>5. f \in Injection(F, H)
  <2>1. f \in [F -> H]
    BY <1>1, <1>4
  <2>2. \A i, j \in F : f[i] = f[j] => i = j
    <3> HIDE DEF F
    <3> QED
      BY <1>4
  <2> HIDE DEF F, f, H
  <2> QED
    BY <2>1, <2>2 DEF Injection, IsInjective
<1> HIDE DEF F, f, H
<1>6. IsFiniteSet(F) /\ Cardinality(F) <= Cardinality(H)
  BY <1>3, <1>5, FS_Injection
<1>7. Cardinality(H) \in Nat
  BY <1>3, FS_CardinalityType
<1> QED
  BY <1>6, <1>7 DEF F, H

(* What is measured of the probes found for the answers to a metric.       *)
ProbesOK(found, probes) ==
    /\ found \in Seq(SearchAnswers)
    /\ DOMAIN probes = 1..Len(found)
    /\ \A i \in 1..Len(found) : BestOK(found[i], probes[i])

(* Each probe is the best path of the answer to its size.                  *)
LEMMA ProbesAreOK ==
    ASSUME NEW found \in Seq(SearchAnswers), NEW probes,
           probes = [i \in DOMAIN found |-> Best(found[i])]
    PROVE  ProbesOK(found, probes)
<1>1. DOMAIN found = 1..Len(found) /\ \A i \in 1..Len(found) : found[i] \in SearchAnswers
  OBVIOUS
<1>2. \A i \in 1..Len(found) : BestOK(found[i], probes[i])
  <2> TAKE i \in 1..Len(found)
  <2>1. probes[i] = Best(found[i]) /\ found[i] \in SearchAnswers
    BY <1>1
  <2> QED
    BY <2>1, BestFacts
<1> QED
  BY <1>1, <1>2 DEF ProbesOK

(* The sizes that were priced, and what they were priced by.               *)
LEMMA PricedFacts ==
    ASSUME NEW found, NEW probes, ProbesOK(found, probes)
    PROVE  /\ Priced(probes) \subseteq 1..Len(found)
           /\ Len(found) \in Nat
           /\ IsFiniteSet(Priced(probes))
           /\ \A i \in Priced(probes) : probes[i].path \in Paths
<1>1. Len(found) \in Nat /\ DOMAIN probes = 1..Len(found)
  BY DEF ProbesOK
<1>2. Priced(probes) \subseteq 1..Len(found)
  BY <1>1 DEF Priced
<1>3. IsFiniteSet(1..Len(found))
  BY <1>1, FS_Interval
<1>4. IsFiniteSet(Priced(probes))
  BY <1>2, <1>3, FS_Subset
<1>5. \A i \in Priced(probes) : probes[i].path \in Paths
  BY <1>1 DEF Priced, ProbesOK, BestOK
<1> QED
  BY <1>1, <1>2, <1>4, <1>5

(* A zero depth means that every size was answered with no path.           *)
LEMMA DepthFacts ==
    ASSUME NEW found, NEW probes, ProbesOK(found, probes)
    PROVE  LET r == DepthExecutable(probes)
           IN  /\ r.id = "depth.executable"
               /\ r.determined =>
                     /\ r.value[2] > 0
                     /\ r.value[1] = 0 =>
                           \A k \in DOMAIN found :
                               found[k].status = "ok" /\ found[k].records = << >>
<1> DEFINE empty == \A k \in DOMAIN found :
                        found[k].status = "ok" /\ found[k].records = << >>
<1>1. CASE Priced(probes) = {} /\ Broken(probes) # {}
  <2>1. DepthExecutable(probes) = Unmeasured("depth.executable")
    BY <1>1 DEF DepthExecutable
  <2> QED
    BY <2>1 DEF Unmeasured
<1>2. CASE ~(Priced(probes) = {} /\ Broken(probes) # {})
  <2>1. DepthExecutable(probes) = Measured("depth.executable", <<Deepest(probes), 1>>)
    BY <1>2 DEF DepthExecutable
  <2>2. Deepest(probes) = 0 => empty
    <3>1. CASE Priced(probes) # {}
      <4> DEFINE S == {probes[i].path.dest : i \in Priced(probes)}
                 g == [i \in Priced(probes) |-> probes[i].path.dest]
      <4>1. S \subseteq Nat \ {0}
        BY PricedFacts DEF Paths
      <4>2. IsFiniteSet(S)
        <5>1. S = {g[i] : i \in Priced(probes)}
          OBVIOUS
        <5> HIDE DEF S, g
        <5> QED
          BY <5>1, PricedFacts, ImagesAreFinite
      <4>3. S # {}
        BY <3>1
      <4>4. Deepest(probes) = Max(S)
        BY <3>1 DEF Deepest
      <4> HIDE DEF S
      <4>5. Max(S) \in S
        <5>1. S \subseteq Int
          BY <4>1
        <5> QED
          BY <4>2, <4>3, <5>1, MaxFacts
      <4> QED
        BY <4>1, <4>4, <4>5
    <3>2. CASE Priced(probes) = {}
      <4>1. DOMAIN found = 1..Len(found) /\ DOMAIN probes = 1..Len(found)
        BY DEF ProbesOK
      <4>2. ASSUME NEW k \in DOMAIN found
            PROVE  found[k].status = "ok" /\ found[k].records = << >>
        <5>1. BestOK(found[k], probes[k])
          BY <4>1 DEF ProbesOK
        <5>2. ~probes[k].ok
          BY <3>2, <4>1 DEF Priced
        <5>3. probes[k].why = "no path found"
          BY <1>2, <3>2, <4>1, <5>2 DEF Broken
        <5> QED
          BY <5>1, <5>2, <5>3 DEF BestOK
      <4> QED
        BY <4>2
    <3> QED
      BY <3>1, <3>2
  <2> HIDE DEF empty
  <2>3. DepthExecutable(probes).id = "depth.executable"
    BY <2>1 DEF Measured
  <2>4. DepthExecutable(probes).value = <<Deepest(probes), 1>>
    BY <2>1 DEF Measured
  <2>5. /\ DepthExecutable(probes).value[1] = Deepest(probes)
        /\ DepthExecutable(probes).value[2] = 1
    BY <2>4
  <2> QED
    BY <2>2, <2>3, <2>5 DEF empty
<1> QED
  BY <1>1, <1>2

Ratios == Int \X (Nat \ {0})

(* Ratios are ordered by AtMost.                                           *)
LEMMA AtMostOrders ==
    ASSUME NEW v \in Ratios, NEW w \in Ratios, NEW x \in Ratios
    PROVE  /\ AtMost(v, w) \/ AtMost(w, v)
           /\ AtMost(v, w) /\ AtMost(w, x) => AtMost(v, x)
<1> PICK a \in Int, b \in Nat \ {0} : v = <<a, b>>
  BY DEF Ratios
<1> PICK c \in Int, d \in Nat \ {0} : w = <<c, d>>
  BY DEF Ratios
<1> PICK e \in Int, f \in Nat \ {0} : x = <<e, f>>
  BY DEF Ratios
<1>1. a * d \in Int /\ c * b \in Int
  OBVIOUS
<1>2. AtMost(v, w) \/ AtMost(w, v)
  BY <1>1 DEF AtMost
<1>3. ASSUME a * d <= c * b, c * f <= e * d PROVE a * f <= e * b
  <2>1. (a * d) * f <= (c * b) * f
    BY <1>3
  <2>2. (c * f) * b <= (e * d) * b
    BY <1>3
  <2>3. (a * d) * f = d * (a * f) /\ (c * b) * f = (c * f) * b /\ (e * d) * b = d * (e * b)
    OBVIOUS
  <2> DEFINE g == a * f
             h == e * b
  <2>4. g \in Int /\ h \in Int /\ d * g <= d * h
    BY <2>1, <2>2, <2>3
  <2> HIDE DEF g, h
  <2>5. g <= h
    <3>1. CASE g > h
      <4>1. d * (g - h) > 0
        BY <2>4, <3>1
      <4>2. d * (g - h) = (d * g) - (d * h)
        BY <2>4
      <4>3. d * g \in Int /\ d * h \in Int
        BY <2>4
      <4> QED
        BY <2>4, <4>1, <4>2, <4>3
    <3> QED
      BY <2>4, <3>1
  <2> QED
    BY <2>5 DEF g, h
<1>4. AtMost(v, w) /\ AtMost(w, x) => AtMost(v, x)
  BY <1>3 DEF AtMost
<1> QED
  BY <1>2, <1>4

(* A quotient by a number other than zero is a ratio.                      *)
LEMMA RatiosAreRatios ==
    ASSUME NEW a \in Int, NEW b \in Int, b # 0
    PROVE  Ratio(a, b) \in Ratios
<1>1. CASE b < 0
  <2>1. -a \in Int /\ -b \in Nat \ {0}
    BY <1>1
  <2> QED
    BY <1>1, <2>1 DEF Ratio, Ratios
<1>2. CASE ~(b < 0)
  <2>1. b \in Nat \ {0}
    BY <1>2
  <2> QED
    BY <1>2, <2>1 DEF Ratio, Ratios
<1> QED
  BY <1>1, <1>2

(* A fraction with a denominator is a ratio, and zero if it was.           *)
LEMMA RatioFacts ==
    ASSUME NEW a \in Int, NEW b \in Int, b # 0
    PROVE  \E c \in Int, d \in Nat \ {0} : Ratio(a, b) = <<c, d>> /\ (a # 0 => c # 0)
<1>1. CASE b < 0
  <2>1. Ratio(a, b) = <<-a, -b>> /\ -a \in Int /\ -b \in Nat \ {0} /\ (a # 0 => -a # 0)
    BY <1>1 DEF Ratio
  <2> QED
    BY <2>1
<1>2. CASE b > 0
  <2>1. Ratio(a, b) = <<a, b>> /\ b \in Nat \ {0}
    BY <1>2 DEF Ratio
  <2> QED
    BY <2>1
<1> QED
  BY <1>1, <1>2

(* A rate is a ratio, and none if nothing was asked for.                   *)
LEMMA RateFacts ==
    ASSUME NEW p \in Paths
    PROVE  \E a \in Int, b \in Nat \ {0} :
              PathRate(p) = <<a, b>> /\ (PathRate(p) # <<0, 1>> => a # 0)
<1>1. p.source \in Int /\ p.dest \in Int /\ p.dest # 0
  BY DEF Paths
<1>2. CASE p.source = 0
  BY <1>2 DEF PathRate
<1>3. CASE p.source # 0
  <2>1. PathRate(p) = Ratio(p.dest, p.source)
    BY <1>3 DEF PathRate
  <2>2. PICK a \in Int, b \in Nat \ {0} : Ratio(p.dest, p.source) = <<a, b>> /\ a # 0
    BY <1>1, <1>3, RatioFacts
  <2> QED
    BY <2>1, <2>2
<1> QED
  BY <1>2, <1>3

(* A price impact is no gain.                                              *)
LEMMA ImpactFacts ==
    ASSUME NEW found, NEW probes, ProbesOK(found, probes)
    PROVE  LET r == PriceImpactMetric(probes)
           IN  /\ r.id = "price-impact.size"
               /\ r.determined => r.value[2] > 0 /\ r.value[1] >= 0
<1> DEFINE zero == <<0, 1>>
           above == ImpactCurve(probes) \cup {zero}
<1>1. CASE Priced(probes) = {} \/ FirstRate(probes) = zero
  <2>1. PriceImpactMetric(probes) = Unmeasured("price-impact.size")
    BY <1>1 DEF PriceImpactMetric
  <2> QED
    BY <2>1 DEF Unmeasured
<1>2. CASE ~(Priced(probes) = {} \/ FirstRate(probes) = zero)
  <2>1. Min(Priced(probes)) \in Priced(probes)
    <3>1. Priced(probes) \subseteq Int
      BY PricedFacts
    <3> QED
      BY <1>2, <3>1, PricedFacts, MinFacts
  <2>2. probes[Min(Priced(probes))].path \in Paths
    BY <2>1, PricedFacts
  <2>3. PICK a \in Int, b \in Nat \ {0} : FirstRate(probes) = <<a, b>> /\ a # 0
    BY <1>2, <2>2, RateFacts DEF FirstRate
  <2>4. ASSUME NEW i \in Priced(probes) PROVE Impact(probes, i) \in Ratios
    <3>1. probes[i].path \in Paths
      BY PricedFacts
    <3>2. PICK c \in Int, d \in Nat \ {0} : PathRate(probes[i].path) = <<c, d>>
      BY <3>1, RateFacts
    <3>3. Impact(probes, i) = Ratio((a * d) - (c * b), a * d)
      BY <2>3, <3>2 DEF Impact
    <3>4. (a * d) - (c * b) \in Int /\ a * d \in Int /\ a * d # 0
      BY <2>3
    <3> DEFINE g == (a * d) - (c * b)
               h == a * d
    <3>5. g \in Int /\ h \in Int /\ h # 0
      BY <3>4
    <3>6. Impact(probes, i) = Ratio(g, h)
      BY <3>3
    <3> HIDE DEF g, h
    <3>7. Ratio(g, h) \in Ratios
      BY <3>5, RatiosAreRatios
    <3> QED
      BY <3>6, <3>7
  <2>5. zero \in Ratios /\ zero \in above
    BY DEF Ratios
  <2>6. above \subseteq Ratios
    BY <2>4, <2>5 DEF ImpactCurve
  <2>7. IsFiniteSet(above)
    <3> DEFINE g == [i \in Priced(probes) |-> Impact(probes, i)]
    <3>1. ImpactCurve(probes) = {g[i] : i \in Priced(probes)}
      BY DEF ImpactCurve
    <3> HIDE DEF g, zero
    <3>2. IsFiniteSet(ImpactCurve(probes))
      BY <3>1, PricedFacts, ImagesAreFinite
    <3> QED
      BY <3>2, FS_AddElement
  <2> HIDE DEF above
  <2> DEFINE R == {e \in above \X above : AtMost(e[1], e[2])}
  <2>8. Orders(R, above)
    <3>1. ASSUME NEW v \in above, NEW w \in above PROVE <<v, w>> \in R <=> AtMost(v, w)
      OBVIOUS
    <3> HIDE DEF R
    <3>2. \A v, w \in above : <<v, w>> \in R \/ <<w, v>> \in R
      BY <2>6, <3>1, AtMostOrders
    <3>3. \A v, w, x \in above : <<v, w>> \in R /\ <<w, x>> \in R => <<v, x>> \in R
      BY <2>6, <3>1, AtMostOrders
    <3> QED
      BY <3>2, <3>3 DEF Orders
  <2>9. \E g \in above : \A w \in above : AtMost(w, g)
    <3>1. PICK g \in above : \A w \in above : <<w, g>> \in R
      <4> HIDE DEF R
      <4> QED
        BY <2>5, <2>7, <2>8, Greatest
    <3> QED
      BY <3>1
  <2> DEFINE top == CHOOSE v \in above : \A w \in above : AtMost(w, v)
  <2>10. top \in above /\ \A w \in above : AtMost(w, top)
    BY <2>9
  <2>11. PriceImpactMetric(probes) = Measured("price-impact.size", top)
    BY <1>2 DEF PriceImpactMetric, above
  <2> HIDE DEF top
  <2>12. PICK c \in Int, d \in Nat \ {0} : top = <<c, d>>
    BY <2>6, <2>10 DEF Ratios
  <2>13. 0 * d <= c * 1
    BY <2>5, <2>10, <2>12 DEF AtMost
  <2>14. c >= 0 /\ d > 0
    BY <2>13
  <2>15. /\ PriceImpactMetric(probes).id = "price-impact.size"
         /\ PriceImpactMetric(probes).value = <<c, d>>
    BY <2>11, <2>12 DEF Measured
  <2> QED
    BY <2>14, <2>15
<1> QED
  BY <1>1, <1>2

(* The sums of the distinct paths' values and of their squares, by how many*)
(* distinct paths were met.                                                *)
LEMMA Concentration ==
    ASSUME NEW paths \in Seq(Paths), paths # << >>
    PROVE  \E q \in Nat, s \in Nat, c \in Nat :
              /\ ConcentrationOfPaths(distinctPathValues(paths)) = <<q, s * s>>
              /\ q > 0 /\ s > 0 /\ q <= s * s /\ s * s <= c * q
              /\ c = Cardinality(Firsts(paths))
<1> DEFINE n == Len(paths)
           F == Firsts(paths)
           f == distinctPathValues(paths)
           g == [i \in DOMAIN f |-> f[i] * f[i]]
           met(k) == F \cap (1..k)
<1>1. n \in Nat /\ n >= 1 /\ DOMAIN paths = 1..n /\ \A i \in 1..n : paths[i].dest \in Nat \ {0}
  <2>1. n \in Nat /\ n >= 1 /\ DOMAIN paths = 1..n
    OBVIOUS
  <2>2. \A i \in 1..n : paths[i] \in Paths
    OBVIOUS
  <2> QED
    BY <2>1, <2>2 DEF Paths
<1>2. F \subseteq 1..n /\ 1 \in F /\ IsFiniteSet(F)
  <2>1. F \subseteq 1..n
    BY <1>1 DEF Firsts
  <2>2. 1 \in F
    <3>1. \A j \in 1..(1 - 1) : paths[j].hops # paths[1].hops
      OBVIOUS
    <3> QED
      BY <1>1, <3>1 DEF Firsts
  <2> QED
    BY <2>1, <2>2, FirstsDiffer
<1>3. /\ DOMAIN f = 1..n /\ f \in Seq(Int) /\ Len(f) = n
      /\ \A i \in 1..n : f[i] \in Nat /\ (i \in F => f[i] > 0) /\ (i \notin F => f[i] = 0)
  <2>1. f = [i \in 1..n |-> IF i \in F THEN paths[i].dest ELSE 0]
    BY <1>1 DEF distinctPathValues
  <2> HIDE DEF f, F, n
  <2>2. \A i \in 1..n : f[i] \in Nat /\ (i \in F => f[i] > 0) /\ (i \notin F => f[i] = 0)
    BY <1>1, <2>1
  <2> QED
    BY <1>1, <2>1, <2>2
<1> HIDE DEF f
<1>4. /\ DOMAIN g = 1..n /\ g \in Seq(Int) /\ Len(g) = n
      /\ \A i \in 1..n : g[i] = f[i] * f[i]
  <2>1. g = [i \in 1..n |-> f[i] * f[i]] /\ \A i \in 1..n : f[i] \in Int
    BY <1>3
  <2>2. \A i \in 1..n : f[i] * f[i] \in Int
    BY <2>1
  <2> HIDE DEF g, n
  <2> QED
    BY <1>1, <2>1, <2>2
<1>5. PICK a : AddsUp(a, f, n) /\ SumOf(f) = a[n]
  BY <1>3, PartialSums
<1>6. PICK b : AddsUp(b, g, n) /\ SumOf(g) = b[n]
  <2> HIDE DEF g
  <2> QED
    BY <1>4, PartialSums
<1>7. ConcentrationOfPaths(f) = <<b[n], a[n] * a[n]>>
  <2>1. ConcentrationOfPaths(f) = <<SumOf(g), SumOf(f) * SumOf(f)>>
    BY DEF ConcentrationOfPaths
  <2> QED
    BY <1>5, <1>6, <2>1
<1> HIDE DEF g, n, F
<1>8. \A k \in 0..n : IsFiniteSet(met(k)) /\ Cardinality(met(k)) \in Nat
  <2> TAKE k \in 0..n
  <2>1. met(k) \subseteq F
    OBVIOUS
  <2> HIDE DEF met
  <2> QED
    BY <1>2, <2>1, FS_Subset, FS_CardinalityType
<1> DEFINE Holds(k) == /\ a[k] \in Nat /\ b[k] \in Nat
                       /\ b[k] <= a[k] * a[k]
                       /\ a[k] * a[k] <= Cardinality(met(k)) * b[k]
                       /\ k > 0 => a[k] > 0 /\ b[k] > 0
           X == {k \in 0..n : ~Holds(k)}
<1>9. ASSUME X # {} PROVE FALSE
  <2>1. PICK k \in X : \A l \in X : k <= l
    <3>1. X \subseteq Nat
      BY <1>1
    <3> HIDE DEF X
    <3> QED
      BY <1>9, <3>1, LeastNat
  <2>2. k \in 0..n /\ k \in Nat
    BY <1>1
  <2>3. ~Holds(k)
    OBVIOUS
  <2>4. CASE k = 0
    <3>0. a[0] = 0 /\ b[0] = 0 /\ 0 \in 0..n
      BY <1>1, <1>5, <1>6 DEF AddsUp
    <3> HIDE DEF met
    <3>1. a[0] = 0 /\ b[0] = 0 /\ Cardinality(met(0)) \in Nat
      BY <1>8, <3>0
    <3>2. Holds(0)
      BY <3>1
    <3> QED
      BY <2>3, <2>4, <3>2
  <2>5. CASE k # 0
    <3>1. k - 1 \in 0..n /\ k \in 1..n
      BY <1>1, <2>2, <2>5
    <3>2. k - 1 \notin X
      <4> HIDE DEF X
      <4> QED
        BY <2>1, <2>2
    <3>3. Holds(k - 1)
      BY <3>1, <3>2
    <3>4. a[k] = a[k - 1] + f[k] /\ b[k] = b[k - 1] + (f[k] * f[k])
      BY <1>4, <1>5, <1>6, <3>1 DEF AddsUp
    <3>5. PICK s \in Nat : s = a[k - 1]
      BY <3>3
    <3>6. PICK q \in Nat : q = b[k - 1]
      BY <3>3
    <3>7. PICK c \in Nat : c = Cardinality(met(k - 1))
      BY <1>8, <3>1
    <3>8. PICK v \in Nat : v = f[k]
      BY <1>3, <3>1
    <3>9. q <= s * s /\ s * s <= c * q /\ (k - 1 > 0 => s > 0 /\ q > 0)
      <4> HIDE DEF met
      <4> QED
        BY <3>3, <3>5, <3>6, <3>7
    <3>10. a[k] = s + v /\ b[k] = q + (v * v)
      BY <3>4, <3>5, <3>6, <3>8
    <3>11. CASE k \in F
      <4>1. v > 0
        BY <1>3, <3>1, <3>8, <3>11
      <4>2. met(k) = met(k - 1) \cup {k} /\ k \notin met(k - 1)
        BY <2>2, <3>1, <3>11
      <4>3. Cardinality(met(k)) = c + 1
        <5>1. IsFiniteSet(met(k - 1))
          BY <1>8, <3>1
        <5> HIDE DEF met
        <5> QED
          BY <3>7, <4>2, <5>1, FS_AddElement
      <4>4. /\ q + v * v <= (s + v) * (s + v)
            /\ (s + v) * (s + v) <= (c + 1) * (q + v * v)
            /\ q + v * v > 0 /\ s + v > 0
        BY <3>9, <4>1, Widen
      <4>5. s + v \in Nat /\ q + v * v \in Nat
        OBVIOUS
      <4> HIDE DEF met
      <4>6. Holds(k)
        BY <3>10, <4>3, <4>4, <4>5
      <4> QED
        BY <2>3, <4>6
    <3>12. CASE k \notin F
      <4>1. v = 0
        BY <1>3, <3>1, <3>8, <3>12
      <4>2. met(k) = met(k - 1)
        BY <2>2, <3>1, <3>12
      <4>3. k - 1 > 0
        BY <1>2, <2>2, <2>5, <3>12
      <4>4. a[k] = s /\ b[k] = q
        BY <3>10, <4>1
      <4>5. Cardinality(met(k)) = c
        BY <3>7, <4>2
      <4> HIDE DEF met
      <4>6. Holds(k)
        BY <3>9, <4>3, <4>4, <4>5
      <4> QED
        BY <2>3, <4>6
    <3> QED
      BY <3>11, <3>12
  <2> QED
    BY <2>4, <2>5
<1>10. Holds(n)
  <2>1. n \in 0..n
    BY <1>1
  <2> QED
    BY <1>9, <2>1
<1>11. met(n) = F
  BY <1>2
<1>12. Cardinality(F) \in Nat
  BY <1>2, FS_CardinalityType
<1> HIDE DEF met
<1> QED
  BY <1>1, <1>7, <1>10, <1>11, <1>12 DEF f, F

(* The index of the paths lies between an even split and one.              *)
LEMMA FragmentationFacts ==
    ASSUME NEW answer \in SearchAnswers
    PROVE  LET r == FragmentationMetric(Searched(answer))
               found == Searched(answer).paths
           IN  /\ r.id = "fragmentation.paths"
               /\ r.determined =>
                     /\ r.value[2] > 0 /\ r.value[1] > 0
                     /\ AtMost(r.value, <<1, 1>>)
                     /\ AtMost(<<1, Cardinality({found[k].hops : k \in DOMAIN found})>>, r.value)
<1>p. PICK found : found = Searched(answer)
  OBVIOUS
<1> DEFINE r == FragmentationMetric(found)
           C == Cardinality({found.paths[k].hops : k \in DOMAIN found.paths})
           Facts == /\ r.id = "fragmentation.paths"
                    /\ r.determined =>
                          /\ r.value[2] > 0 /\ r.value[1] > 0
                          /\ AtMost(r.value, <<1, 1>>)
                          /\ AtMost(<<1, C>>, r.value)
<1>0. SearchOK(answer, found)
  BY <1>p, SearchFacts
<1>1. CASE ~found.ok \/ found.paths = << >> \/ Contradicts(found.paths)
  <2>1. r = Unmeasured("fragmentation.paths")
    BY <1>1 DEF FragmentationMetric
  <2>2. r.id = "fragmentation.paths" /\ ~r.determined
    BY <2>1 DEF Unmeasured
  <2>3. Facts
    BY <2>2
  <2> QED
    BY <1>p, <2>3
<1>2. CASE ~(~found.ok \/ found.paths = << >> \/ Contradicts(found.paths))
  <2>1. found.paths \in Seq(Paths) /\ found.paths # << >>
    BY <1>0, <1>2 DEF SearchOK
  <2>2. PICK q \in Nat, s \in Nat, c \in Nat :
              /\ ConcentrationOfPaths(distinctPathValues(found.paths)) = <<q, s * s>>
              /\ q > 0 /\ s > 0 /\ q <= s * s /\ s * s <= c * q
              /\ c = Cardinality(Firsts(found.paths))
    BY <2>1, Concentration
  <2>3. c <= C /\ C \in Nat
    BY <2>1, <2>2, FirstsDiffer
  <2>4. r = Measured("fragmentation.paths", <<q, s * s>>)
    BY <1>2, <2>2 DEF FragmentationMetric
  <2> HIDE DEF C
  <2>5. s * s > 0 /\ s * s \in Int
    BY <2>2
  <2>6. c * q <= C * q
    BY <2>2, <2>3
  <2>7. s * s <= C * q
    <3>1. c * q \in Int /\ C * q \in Int
      BY <2>3
    <3> QED
      BY <2>2, <2>5, <2>6, <3>1
  <2> HIDE DEF r
  <2>8. r.id = "fragmentation.paths" /\ r.value = <<q, s * s>>
    BY <2>4 DEF Measured
  <2>9. AtMost(<<q, s * s>>, <<1, 1>>)
    BY <2>2, <2>5 DEF AtMost
  <2>10. AtMost(<<1, C>>, <<q, s * s>>)
    <3>1. 1 * (s * s) <= q * C
      <4>1. q * C = C * q /\ 1 * (s * s) = s * s
        BY <2>3, <2>5
      <4> QED
        BY <2>7, <4>1
    <3> QED
      BY <3>1 DEF AtMost
  <2>11. Facts
    BY <2>2, <2>5, <2>8, <2>9, <2>10
  <2> QED
    BY <1>p, <2>11 DEF r, C
<1> QED
  BY <1>1, <1>2

(* What a side of a book counts, and what it is priced at.                 *)
LEMMA LevelFacts ==
    ASSUME NEW offers \in Seq(Offered)
    PROVE  /\ Cardinality(pricedLevels(offers)) \in Nat
           /\ IsFiniteSet(Prices(offers)) /\ Prices(offers) \subseteq Nat \ {0}
           /\ Prices(offers) = {} <=> Cardinality(pricedLevels(offers)) = 0
<1> DEFINE n == Len(offers)
           I == pricedLevels(offers)
           g == [i \in I |-> offers[i].price.n]
<1>1. n \in Nat /\ DOMAIN offers = 1..n /\ \A i \in 1..n : offers[i] \in Offered
  OBVIOUS
<1>2. I \subseteq 1..n
  BY <1>1 DEF pricedLevels
<1>3. IsFiniteSet(1..n)
  BY <1>1, FS_Interval
<1>4. IsFiniteSet(I) /\ Cardinality(I) \in Nat
  <2> HIDE DEF I, n
  <2> QED
    BY <1>2, <1>3, FS_Subset, FS_CardinalityType
<1>5. Prices(offers) = {g[i] : i \in I}
  BY DEF Prices
<1>6. IsFiniteSet(Prices(offers))
  <2> HIDE DEF I, g
  <2> QED
    BY <1>4, <1>5, ImagesAreFinite
<1>7. ASSUME NEW i \in I PROVE offers[i].price.n \in Nat \ {0}
  <2>1. offers[i] \in Offered
    BY <1>1, <1>2
  <2>2. offers[i].price.n \in Int
    BY <2>1 DEF Offered, Amounts
  <2>3. offers[i].price.n > 0
    BY DEF pricedLevels, dustThreshold
  <2> QED
    BY <2>2, <2>3
<1>8. Prices(offers) = {} <=> I = {}
  BY DEF Prices
<1>9. I = {} <=> Cardinality(I) = 0
  BY <1>4, FS_EmptySet
<1> QED
  BY <1>4, <1>6, <1>7, <1>8, <1>9 DEF Prices

(* A book with both its sides has a middle.                                *)
BookOK(book) ==
    /\ book.bids \in Nat /\ book.asks \in Nat
    /\ book.twiceMid \in Int /\ book.twiceSpread \in Int
    /\ ~OneSided(book) => book.twiceMid > 0

(* The books Horizon answers with are such.                                *)
LEMMA BookFacts ==
    ASSUME NEW answer \in BookAnswers
    PROVE  BookOK(OrderBook(answer))
<1> DEFINE bids == Prices(answer.bids)
           asks == Prices(answer.asks)
           bid == IF bids = {} THEN 0 ELSE Max(bids)
           ask == IF asks = {} THEN 0 ELSE Min(asks)
           two == bids # {} /\ asks # {}
<1>p. PICK book : book = OrderBook(answer)
  OBVIOUS
<1>1. answer.bids \in Seq(Offered) /\ answer.asks \in Seq(Offered)
  BY DEF BookAnswers
<1>2. bids # {} => bid \in Nat \ {0}
  <2>1. bids # {} => Max(bids) \in bids
    <3>1. IsFiniteSet(bids) /\ bids \subseteq Int
      BY <1>1, LevelFacts
    <3> HIDE DEF bids
    <3> QED
      BY <3>1, MaxFacts
  <2> QED
    BY <1>1, <2>1, LevelFacts
<1>3. asks # {} => ask \in Nat \ {0}
  <2>1. asks # {} => Min(asks) \in asks
    <3>1. IsFiniteSet(asks) /\ asks \subseteq Int
      BY <1>1, LevelFacts
    <3> HIDE DEF asks
    <3> QED
      BY <3>1, MinFacts
  <2> QED
    BY <1>1, <2>1, LevelFacts
<1>4. bid \in Nat /\ ask \in Nat
  BY <1>2, <1>3
<1>5. /\ book.bids = Cardinality(pricedLevels(answer.bids))
      /\ book.asks = Cardinality(pricedLevels(answer.asks))
      /\ book.twiceMid = IF two THEN bid + ask ELSE 0
      /\ book.twiceSpread = IF two THEN 2 * (ask - bid) ELSE 0
  BY <1>p DEF OrderBook
<1>6. book.bids \in Nat /\ book.asks \in Nat
  BY <1>1, <1>5, LevelFacts
<1>7. (bids = {} <=> book.bids = 0) /\ (asks = {} <=> book.asks = 0)
  BY <1>1, <1>5, LevelFacts
<1> HIDE DEF bids, asks, bid, ask
<1>8. book.twiceMid \in Int /\ book.twiceSpread \in Int
  BY <1>4, <1>5
<1>9. ~OneSided(book) => book.twiceMid > 0
  BY <1>2, <1>3, <1>5, <1>7 DEF OneSided
<1>10. BookOK(book)
  BY <1>6, <1>8, <1>9 DEF BookOK
<1> QED
  BY <1>p, <1>10

(* A metric under its own name, whose value if any has a denominator.      *)
Says(r, id) == r.id = id /\ (r.determined => r.value[2] > 0)

(* What is not determined says nothing.                                    *)
LEMMA Unknown ==
    ASSUME NEW id
    PROVE  /\ Says(Unmeasured(id), id)
           /\ ~Unmeasured(id).determined
BY DEF Says, Unmeasured

(* What is measured has the value it is given.                             *)
LEMMA Known ==
    ASSUME NEW id, NEW a, NEW b
    PROVE  LET r == Measured(id, <<a, b>>)
           IN  r.id = id /\ r.value[1] = a /\ r.value[2] = b
BY DEF Measured

(* The spread is measured against a middle there is.                       *)
LEMMA SpreadFacts ==
    ASSUME NEW book, BookOK(book)
    PROVE  Says(SpreadMetric(book), "spread.bid-ask")
<1>1. CASE ~book.ok \/ OneSided(book)
  BY <1>1, Unknown DEF SpreadMetric
<1>2. CASE ~(~book.ok \/ OneSided(book))
  <2>1. SpreadMetric(book) = Measured("spread.bid-ask", <<book.twiceSpread * 100, book.twiceMid>>)
    BY <1>2 DEF SpreadMetric, Percent
  <2>2. book.twiceMid > 0
    BY <1>2 DEF BookOK
  <2> QED
    BY <2>1, <2>2, Known DEF Says
<1> QED
  BY <1>1, <1>2

(* A concentration of levels is at most one.                               *)
LEMMA ConcentrationFacts ==
    ASSUME NEW book, BookOK(book)
    PROVE  LET r == ConcentrationMetric(book)
           IN  /\ Says(r, "concentration.liquidity")
               /\ r.determined => r.value[1] > 0 /\ AtMost(r.value, <<1, 1>>)
<1>1. CASE ~book.ok \/ OneSided(book)
  BY <1>1, Unknown DEF ConcentrationMetric
<1>2. CASE ~(~book.ok \/ OneSided(book))
  <2>1. ConcentrationMetric(book) = Measured("concentration.liquidity", <<1, book.bids + book.asks>>)
    BY <1>2 DEF ConcentrationMetric
  <2>2. book.bids \in Nat /\ book.asks \in Nat /\ book.bids # 0 /\ book.asks # 0
    BY <1>2 DEF BookOK, OneSided
  <2>3. book.bids + book.asks >= 1 /\ book.bids + book.asks \in Int
    BY <2>2
  <2>4. PICK levels \in Int : levels = book.bids + book.asks
    BY <2>3
  <2>5. ConcentrationMetric(book).value = <<1, levels>> /\ ConcentrationMetric(book).id = "concentration.liquidity"
    BY <2>1, <2>4 DEF Measured
  <2>6. AtMost(<<1, levels>>, <<1, 1>>)
    BY <2>3, <2>4 DEF AtMost
  <2> QED
    BY <2>3, <2>4, <2>5, <2>6 DEF Says
<1> QED
  BY <1>1, <1>2

(* An observed depth counts levels.                                        *)
LEMMA ObservedFacts ==
    ASSUME NEW book, BookOK(book)
    PROVE  Says(DepthObserved(book), "depth.observed")
<1>1. CASE ~book.ok \/ book.bids + book.asks = 0
  BY <1>1, Unknown DEF DepthObserved
<1>2. CASE ~(~book.ok \/ book.bids + book.asks = 0)
  <2>1. DepthObserved(book) = Measured("depth.observed", <<book.bids + book.asks, 1>>)
    BY <1>2 DEF DepthObserved
  <2> QED
    BY <2>1, Known DEF Says
<1> QED
  BY <1>1, <1>2

(* The deviation is measured against a benchmark that is not zero.         *)
LEMMA DeviationFacts ==
    ASSUME NEW book, BookOK(book), NEW ref, ref.mid \in Nat, ~NoReference(ref)
    PROVE  Says(DeviationMetric(ref, book), "deviation.book-vs-reference")
<1>1. CASE ~book.ok \/ OneSided(book) \/ book.twiceMid = 0
  BY <1>1, Unknown DEF DeviationMetric
<1>2. CASE ~(~book.ok \/ OneSided(book) \/ book.twiceMid = 0)
  <2>1. DeviationMetric(ref, book) = Measured("deviation.book-vs-reference",
            <<(book.twiceMid - 2 * ref.mid) * 100, 2 * ref.mid>>)
    BY <1>2 DEF DeviationMetric, Percent
  <2>2. 2 * ref.mid > 0
    BY DEF NoReference
  <2> QED
    BY <2>1, <2>2, Known DEF Says
<1> QED
  BY <1>1, <1>2

(* The loss at the floor is never a gain, and needs a benchmark.           *)
LEMMA FloorFacts ==
    ASSUME NEW s, NEW ref, ref.mid \in Nat, NEW floor \in [size : Int, rate : Int]
    PROVE  LET r == FloorLossMetric(s, ref, floor)
           IN  /\ Says(r, "floor-loss.reference-mid")
               /\ r.determined => r.value[1] >= 0 /\ ~NoReference(ref)
<1>1. CASE NoPair(s) \/ NoReference(ref) \/ floor.size <= 0 \/ floor.rate <= 0
  BY <1>1, Unknown DEF FloorLossMetric
<1>2. CASE ~(NoPair(s) \/ NoReference(ref) \/ floor.size <= 0 \/ floor.rate <= 0)
  <2> DEFINE loss == IF floor.rate > ref.mid THEN 0 ELSE ref.mid - floor.rate
  <2>1. FloorLossMetric(s, ref, floor) = Measured("floor-loss.reference-mid", <<loss * 100, ref.mid>>)
    BY <1>2 DEF FloorLossMetric, Percent
  <2>2. loss * 100 >= 0 /\ ref.mid > 0 /\ ~NoReference(ref)
    BY <1>2 DEF NoReference
  <2> HIDE DEF loss
  <2> QED
    BY <2>1, <2>2, Known DEF Says
<1> QED
  BY <1>1, <1>2

(* What a value means, under the name it has and by what was asked.        *)
ValueOK(r, asked) ==
    /\ asked # << >>
    /\ r.value[2] > 0
    /\ r.id \in {"concentration.liquidity", "fragmentation.paths"} =>
           r.value[1] > 0 /\ AtMost(r.value, <<1, 1>>)
    /\ r.id = "fragmentation.paths" =>
           LET found == Searched(asked[1]).paths
           IN  AtMost(<<1, Cardinality({found[k].hops : k \in DOMAIN found})>>, r.value)
    /\ r.id = "depth.executable" /\ r.value[1] = 0 =>
           \A k \in DOMAIN asked : asked[k].status = "ok" /\ asked[k].records = << >>
    /\ r.id \in {"floor-loss.reference-mid", "price-impact.size"} => r.value[1] >= 0
    /\ r.id \in {"floor-loss.reference-mid", "price-impact.size", "deviation.book-vs-reference"} =>
           scenario.reference.scorable

(* What may be asked, by the market there is.                              *)
AskedOK(id, asked, pair) ==
    /\ scenario.subject.integrity = "NO-MARKET" /\ id # "floor-loss.reference-mid" => asked = << >>
    /\ /\ scenario.subject.integrity = "DERIVATIVE" /\ asked # << >>
       /\ id \notin PathMetrics \cup {"floor-loss.reference-mid"}
       => /\ scenario.subject.underlying # None
          /\ pair = <<scenario.subject.send, scenario.subject.underlying>>

MetricOK(m) ==
    /\ m.result.determined => ValueOK(m.result, m.asked)
    /\ AskedOK(m.result.id, m.asked, m.pair)

MetricsOK == \A p \in Sweepers : \A i \in DOMAIN sweep[p].metrics : MetricOK(sweep[p].metrics[i])

(* The pair and the market are those of the corridor, whatever the profile.*)
LEMMA SubjectFields ==
    ASSUME chosen \in Scenarios, NEW p
    PROVE  LET s == Subject(p)
           IN  /\ s.send = scenario.subject.send /\ s.receive = scenario.subject.receive
               /\ s.integrity = scenario.subject.integrity
               /\ s.underlying = scenario.subject.underlying
               /\ s.agreement = scenario.subject.agreement
<1>1. {"send", "receive", "integrity", "underlying", "agreement"} \subseteq DOMAIN scenario.subject
  BY MetricAssumption DEF scenario
<1>2. PICK subject : subject = scenario.subject
  OBVIOUS
<1> QED
  BY <1>1, <1>2 DEF Subject

(* A metric that says nothing and asked nothing.                           *)
LEMMA NothingAsked ==
    ASSUME NEW id, NEW pair
    PROVE  MetricOK([result |-> Unmeasured(id), asked |-> << >>, pair |-> pair])
BY DEF MetricOK, AskedOK, Unmeasured

(* The loss at the floor is measured against a benchmark that is trusted.  *)
LEMMA FloorIsOK ==
    ASSUME chosen \in Scenarios, NEW s, NEW pair, NEW floor \in scenario.floors
    PROVE  MetricOK([result |-> FloorLossMetric(s, scenario.reference, floor),
                     asked |-> <<floor>>, pair |-> pair])
<1>r. PICK r : r = FloorLossMetric(s, scenario.reference, floor)
  OBVIOUS
<1>1. floor \in [size : Int, rate : Int] /\ scenario.reference.mid \in Nat
  BY MetricAssumption DEF scenario
<1>2. /\ Says(r, "floor-loss.reference-mid")
      /\ r.determined => r.value[1] >= 0 /\ ~NoReference(scenario.reference)
  BY <1>r, <1>1, FloorFacts
<1>3. r.id = "floor-loss.reference-mid"
  BY <1>2 DEF Says
<1>4. r.determined => ValueOK(r, <<floor>>)
  BY <1>2, <1>3 DEF ValueOK, Says, NoReference
<1>5. AskedOK(r.id, <<floor>>, pair)
  BY <1>3 DEF AskedOK
<1>6. PICK m : m = [result |-> r, asked |-> <<floor>>, pair |-> pair]
  OBVIOUS
<1>7. MetricOK(m)
  BY <1>4, <1>5, <1>6 DEF MetricOK
<1> QED
  BY <1>r, <1>6, <1>7

(* A path metric is asked where there is a market and means what it says.  *)
LEMMA PathIsOK ==
    ASSUME chosen \in Scenarios, NEW p, NEW pair, NEW id \in PathMetrics,
           ~Blocked(id, Subject(p), scenario.reference), NEW found \in scenario.searches
    PROVE  MetricOK([result |-> PathMetric(id, found), asked |-> found, pair |-> pair])
<1>1. PICK s : s = Subject(p)
  OBVIOUS
<1>2. s.integrity = scenario.subject.integrity /\ s.agreement = scenario.subject.agreement
  BY <1>1, SubjectFields
<1>3. found \in Seq(SearchAnswers) /\ found # << >>
  BY MetricAssumption DEF scenario
<1>4. scenario.reference.scorable \in BOOLEAN
      /\ (scenario.subject.agreement = "MALFUNCTION" <=> ~scenario.reference.scorable)
  BY MetricAssumption DEF scenario
<1>5. scenario.subject.integrity # "NO-MARKET"
  BY <1>1, <1>2 DEF Blocked, NoPath, PathMetrics
<1>6. PICK probes : probes = [i \in DOMAIN found |-> Best(found[i])]
  OBVIOUS
<1>7. ProbesOK(found, probes)
  BY <1>3, <1>6, ProbesAreOK
<1>8. PICK r : r = PathMetric(id, found)
  OBVIOUS
<1>9. r.id = id /\ (r.determined => ValueOK(r, found))
  <2>1. CASE id = "depth.executable"
    <3>1. r = DepthExecutable(probes)
      BY <1>6, <1>8, <2>1 DEF PathMetric, Best
    <3> QED
      BY <1>3, <1>7, <2>1, <3>1, DepthFacts DEF ValueOK
  <2>2. CASE id = "price-impact.size"
    <3>1. r = PriceImpactMetric(probes)
      BY <1>6, <1>8, <2>2 DEF PathMetric, Best
    <3>2. scenario.reference.scorable
      BY <1>1, <1>2, <1>4, <2>2 DEF Blocked
    <3> QED
      BY <1>3, <1>7, <2>2, <3>1, <3>2, ImpactFacts DEF ValueOK
  <2>3. CASE id = "fragmentation.paths"
    <3>1. r = FragmentationMetric(Searched(found[1]))
      BY <1>8, <2>3 DEF PathMetric, Searched
    <3>2. found[1] \in SearchAnswers
      BY <1>3
    <3> QED
      BY <1>3, <2>3, <3>1, <3>2, FragmentationFacts DEF ValueOK
  <2> QED
    BY <2>1, <2>2, <2>3 DEF PathMetrics
<1>10. AskedOK(id, found, pair)
  BY <1>5 DEF AskedOK, PathMetrics
<1>11. PICK m : m = [result |-> r, asked |-> found, pair |-> pair]
  OBVIOUS
<1>12. MetricOK(m)
  BY <1>9, <1>10, <1>11 DEF MetricOK
<1> QED
  BY <1>8, <1>11, <1>12

BookMetrics == {"spread.bid-ask", "concentration.liquidity", "depth.observed",
                "deviation.book-vs-reference"}

(* A book metric is asked of a pair that has a book of its own.            *)
LEMMA BookIsOK ==
    ASSUME chosen \in Scenarios, NEW p, NEW id \in BookMetrics,
           ~Blocked(id, Subject(p), scenario.reference), NEW answer \in scenario.books
    PROVE  MetricOK([result |-> BookMetric(id, OrderBook(answer)), asked |-> <<answer>>,
                     pair |-> bookPair(Subject(p))])
<1>1. PICK s : s = Subject(p)
  OBVIOUS
<1>2. /\ s.send = scenario.subject.send /\ s.integrity = scenario.subject.integrity
      /\ s.underlying = scenario.subject.underlying
  BY <1>1, SubjectFields
<1>3. answer \in BookAnswers /\ scenario.reference.mid \in Nat
  BY MetricAssumption DEF scenario
<1>4. PICK book : book = OrderBook(answer)
  OBVIOUS
<1>5. BookOK(book)
  BY <1>3, <1>4, BookFacts
<1>6. ~structuralUndetermined(s)
  BY <1>1 DEF Blocked, BookMetrics
<1>7. PICK r : r = BookMetric(id, book)
  OBVIOUS
<1>8. r.id = id /\ (r.determined => ValueOK(r, <<answer>>))
  <2>1. CASE id = "spread.bid-ask"
    <3>1. Says(r, id)
      BY <1>5, <1>7, <2>1, SpreadFacts DEF BookMetric
    <3> QED
      BY <2>1, <3>1 DEF Says, ValueOK
  <2>2. CASE id = "concentration.liquidity"
    <3>1. Says(r, id) /\ (r.determined => r.value[1] > 0 /\ AtMost(r.value, <<1, 1>>))
      BY <1>5, <1>7, <2>2, ConcentrationFacts DEF BookMetric
    <3> QED
      BY <2>2, <3>1 DEF Says, ValueOK
  <2>3. CASE id = "depth.observed"
    <3>1. Says(r, id)
      BY <1>5, <1>7, <2>3, ObservedFacts DEF BookMetric
    <3> QED
      BY <2>3, <3>1 DEF Says, ValueOK
  <2>4. CASE id = "deviation.book-vs-reference"
    <3>1. ~NoReference(scenario.reference)
      BY <2>4 DEF Blocked
    <3>2. Says(r, id)
      BY <1>3, <1>5, <1>7, <2>4, <3>1, DeviationFacts DEF BookMetric
    <3> QED
      BY <2>4, <3>1, <3>2 DEF Says, ValueOK, NoReference
  <2> QED
    BY <2>1, <2>2, <2>3, <2>4 DEF BookMetrics
<1>9. PICK pair : pair = bookPair(s)
  OBVIOUS
<1>10. AskedOK(id, <<answer>>, pair)
  BY <1>2, <1>6, <1>9 DEF AskedOK, structuralUndetermined, bookPair
<1>11. PICK m : m = [result |-> r, asked |-> <<answer>>, pair |-> pair]
  OBVIOUS
<1>12. MetricOK(m)
  BY <1>8, <1>10, <1>11 DEF MetricOK
<1> QED
  BY <1>1, <1>4, <1>7, <1>9, <1>11, <1>12

(* A metric that ran is one more, and means what it says.                  *)
LEMMA MetricAdds ==
    ASSUME IInv, NEW p \in Sweepers, RunMetric(p)
    PROVE  \E m : MetricOK(m) /\ sweep'[p] = [sweep[p] EXCEPT !.metrics = Append(@, m)]
<1> DEFINE id == scenario.metrics[Len(sweep[p].metrics) + 1]
           s == Subject(p)
           Entry(result, asked) == [result |-> result, asked |-> asked, pair |-> bookPair(s)]
           Found(result, asked) ==
              Step(p, [sweep[p] EXCEPT !.metrics = Append(@, Entry(result, asked))])
<1>0. chosen \in Scenarios /\ DOMAIN sweep = Sweepers /\ SweeperTypeOK(sweep[p])
  BY DEF IInv, TypeOK, SweeperOK
<1>1. id \in MetricNames \cup Contributed
  <2>1. scenario.metrics \in Seq(MetricNames \cup Contributed)
    BY <1>0, MetricAssumption DEF scenario
  <2>2. Len(sweep[p].metrics) \in Nat /\ Len(sweep[p].metrics) < Len(scenario.metrics)
    BY <1>0, Appended DEF RunMetric, SweeperTypeOK
  <2>3. Len(sweep[p].metrics) + 1 \in 1..Len(scenario.metrics)
    BY <2>1, <2>2
  <2> HIDE DEF id
  <2> QED
    BY <2>1, <2>3 DEF id
<1>2. \/ Found(Unmeasured(MetricID(id)), << >>)
      \/ Found(Unmeasured(id), << >>)
      \/ \E floor \in scenario.floors :
            Found(FloorLossMetric(s, scenario.reference, floor), <<floor>>)
      \/ /\ id \in PathMetrics /\ ~Blocked(id, s, scenario.reference)
         /\ \E found \in scenario.searches : Found(PathMetric(id, found), found)
      \/ /\ id \notin PathMetrics \cup Contributed \cup {"floor-loss.reference-mid"}
         /\ ~Blocked(id, s, scenario.reference)
         /\ \E answer \in scenario.books :
               Found(BookMetric(id, OrderBook(answer)), <<answer>>)
  BY DEF RunMetric
<1>3. ASSUME NEW m, MetricOK(m), Step(p, [sweep[p] EXCEPT !.metrics = Append(@, m)])
      PROVE  \E e : MetricOK(e) /\ sweep'[p] = [sweep[p] EXCEPT !.metrics = Append(@, e)]
  BY <1>0, <1>3, StepFacts
<1> DEFINE goal == \E e : MetricOK(e) /\ sweep'[p] = [sweep[p] EXCEPT !.metrics = Append(@, e)]
<1> HIDE DEF goal
<1>4. ASSUME NEW result, NEW asked, MetricOK(Entry(result, asked)), Found(result, asked)
      PROVE  goal
  BY <1>3, <1>4 DEF goal
<1> HIDE DEF Found
<1>5. \A x : MetricOK(Entry(Unmeasured(x), << >>))
  BY NothingAsked
<1>6. \A floor \in scenario.floors :
         MetricOK(Entry(FloorLossMetric(s, scenario.reference, floor), <<floor>>))
  BY <1>0, FloorIsOK
<1>7. id \in PathMetrics /\ ~Blocked(id, s, scenario.reference) =>
         \A found \in scenario.searches : MetricOK(Entry(PathMetric(id, found), found))
  BY <1>0, PathIsOK
<1>8. id \notin PathMetrics \cup Contributed \cup {"floor-loss.reference-mid"}
      /\ ~Blocked(id, s, scenario.reference) =>
         \A answer \in scenario.books :
            MetricOK(Entry(BookMetric(id, OrderBook(answer)), <<answer>>))
  <2>1. id \notin PathMetrics \cup Contributed \cup {"floor-loss.reference-mid"} => id \in BookMetrics
    BY <1>1 DEF MetricNames, PathMetrics, BookMetrics
  <2> QED
    BY <1>0, <2>1, BookIsOK
<1> HIDE DEF Entry, id, s
<1> QED
  BY <1>2, <1>4, <1>5, <1>6, <1>7, <1>8 DEF goal

(* What a metric said it goes on saying.                                   *)
LEMMA MetricsKeep ==
    ASSUME IInv, MetricsOK, [Next]_vars
    PROVE  MetricsOK'
<1>0. /\ DOMAIN sweep = Sweepers /\ chosen \in Scenarios
      /\ \A p \in Sweepers : SweeperTypeOK(sweep[p])
  BY DEF IInv, TypeOK, SweeperOK
<1>1. chosen' = chosen
  BY Moves
<1>2. \A m : MetricOK(m)' <=> MetricOK(m)
  BY <1>1 DEF MetricOK, ValueOK, AskedOK, scenario
<1> DEFINE Fine(x) == \A i \in DOMAIN x.metrics : MetricOK(x.metrics[i])
<1>3. \A p \in Sweepers : Fine(sweep[p])
  BY DEF MetricsOK
<1>4. Fine(Idle)
  BY DEF Idle
<1>5. ASSUME NEW p \in Sweepers, SweepStep(p)
      PROVE  Fine(sweep'[p]) /\ \A q \in Sweepers : q # p => sweep'[q] = sweep[q]
  <2>1. PICK x : x = sweep[p]
    OBVIOUS
  <2>2. PICK y : y = sweep'[p]
    OBVIOUS
  <2>3. SweeperTypeOK(x) /\ Fine(x)
    BY <1>0, <1>3, <2>1
  <2>4. ASSUME Begin(p) \/ Finish(p) PROVE Fine(sweep'[p])
    <3>1. \/ sweep'[p] = Idle
          \/ sweep'[p] = [Idle EXCEPT !.pc = "subject", !.since = world.doc,
                                      !.baseline = IssuerDriftBaselineFromChecks]
      BY <1>0, <2>4, StepFacts DEF Begin, Finish
    <3>2. sweep'[p].metrics = << >>
      <4> DEFINE begun == [Idle EXCEPT !.pc = "subject", !.since = world.doc,
                                       !.baseline = IssuerDriftBaselineFromChecks]
      <4>1. Idle.metrics = << >> /\ begun.metrics = << >>
        BY DEF Idle
      <4> HIDE DEF begun
      <4> QED
        BY <3>1, <4>1 DEF begun
    <3>3. Fine(sweep'[p])
      BY <3>2
    <3> HIDE DEF Fine
    <3> QED
      BY <3>3
  <2>5. ASSUME Cached(p) \/ Resolve(p) \/ Keep(p) \/ Check(p) \/ Deadline(p) PROVE Fine(sweep'[p])
    <3>1. y.metrics = x.metrics
      <4>1. CASE Cached(p)
        <5>1. PICK profile : y = [x EXCEPT !.pc = "checks", !.profile = profile]
          BY <1>0, <2>1, <2>2, <4>1, StepFacts DEF Cached
        <5> QED
          BY <2>3, <5>1 DEF SweeperTypeOK
      <4>2. CASE Resolve(p)
        <5>1. PICK pc, fetched : Step(p, [x EXCEPT !.pc = pc, !.fetched = fetched])
          <6>1. CASE Step(p, [x EXCEPT !.pc = "keep", !.fetched = world.doc])
            BY <6>1
          <6>2. CASE Step(p, [x EXCEPT !.pc = "checks"])
            <7>1. [x EXCEPT !.pc = "checks"] = [x EXCEPT !.pc = "checks", !.fetched = x.fetched]
              BY <2>3 DEF SweeperTypeOK
            <7> QED
              BY <6>2, <7>1
          <6> QED
            BY <2>1, <4>2, <6>1, <6>2 DEF Resolve
        <5>2. y = [x EXCEPT !.pc = pc, !.fetched = fetched]
          BY <1>0, <2>2, <5>1, StepFacts
        <5> QED
          BY <2>3, <5>2 DEF SweeperTypeOK
      <4>3. CASE Keep(p)
        <5>1. y = [x EXCEPT !.pc = "checks", !.profile = x.fetched]
          BY <1>0, <2>1, <2>2, <4>3, StepFacts DEF Keep
        <5> QED
          BY <2>3, <5>1 DEF SweeperTypeOK
      <4>4. CASE Check(p)
        <5>1. PICK live, answers, seen, checks :
                 Step(p, [x EXCEPT !.live = live, !.answers = answers, !.seen = seen,
                                   !.checks = checks])
          BY <2>1, <4>4 DEF Check
        <5>2. y = [x EXCEPT !.live = live, !.answers = answers, !.seen = seen, !.checks = checks]
          BY <1>0, <2>2, <5>1, StepFacts
        <5> QED
          BY <2>3, <5>2 DEF SweeperTypeOK
      <4>5. CASE Deadline(p)
        BY <1>0, <2>1, <2>2, <2>3, <4>5, StepFacts DEF Deadline, SweeperTypeOK
      <4> QED
        BY <2>5, <4>1, <4>2, <4>3, <4>4, <4>5
    <3>2. Fine(y)
      BY <2>3, <3>1
    <3> HIDE DEF Fine
    <3> QED
      BY <2>2, <3>2
  <2>6. ASSUME RunMetric(p) PROVE Fine(sweep'[p])
    <3>1. PICK m : MetricOK(m) /\ y = [x EXCEPT !.metrics = Append(@, m)]
      BY <2>1, <2>2, <2>6, MetricAdds
    <3>2. y.metrics = Append(x.metrics, m) /\ Listed(x.metrics)
      BY <2>3, <3>1 DEF SweeperTypeOK
    <3>3. \A i \in DOMAIN y.metrics : \/ i \in DOMAIN x.metrics /\ y.metrics[i] = x.metrics[i]
                                      \/ y.metrics[i] = m
      <4>1. PICK n \in Nat : n = Len(x.metrics) /\ DOMAIN x.metrics = 1..n
        BY <3>2, Appended
      <4>2. /\ DOMAIN y.metrics = 1..(n + 1) /\ y.metrics[n + 1] = m
            /\ \A i \in 1..n : y.metrics[i] = x.metrics[i]
        BY <3>2, <4>1, Appended
      <4>3. \A i \in 1..(n + 1) : i \in 1..n \/ i = n + 1
        OBVIOUS
      <4> QED
        BY <4>1, <4>2, <4>3
    <3>4. Fine(y)
      BY <2>3, <3>1, <3>3
    <3> HIDE DEF Fine
    <3> QED
      BY <2>2, <3>4
  <2>7. \A q \in Sweepers : q # p => sweep'[q] = sweep[q]
    <3>1. \E new : sweep' = [sweep EXCEPT ![p] = new]
      BY <1>5 DEF SweepStep, Begin, Cached, Resolve, Keep, Check, RunMetric, Finish, Deadline, Step
    <3> QED
      BY <1>0, <3>1
  <2> QED
    BY <1>5, <2>4, <2>5, <2>6, <2>7 DEF SweepStep
<1>6. \A p \in Sweepers : Fine(sweep'[p])
  <2>1. CASE \E p \in Sweepers : SweepStep(p)
    <3>1. PICK p \in Sweepers : SweepStep(p)
      BY <2>1
    <3>2. Fine(sweep'[p]) /\ \A q \in Sweepers : q # p => sweep'[q] = sweep[q]
      BY <1>5, <3>1
    <3> HIDE DEF Fine
    <3> QED
      BY <1>3, <3>2
  <2>2. CASE Restart
    <3> HIDE DEF Fine
    <3> QED
      BY <1>4, <2>2 DEF Restart
  <2>3. CASE ChangeFlags \/ ChangeDocument \/ UNCHANGED vars
    <3> HIDE DEF Fine
    <3> QED
      BY <1>3, <2>3 DEF ChangeFlags, ChangeDocument, vars
  <2> QED
    BY <2>1, <2>2, <2>3, Moves
<1> QED
  BY <1>2, <1>6 DEF MetricsOK

(* What is published as measured was measured of what was asked, for any   *)
(* metrics, answers, benchmarks and interleavings: ValuesAreMeasured       *)
(* (metric_depth.go:158-168, metric_structural.go:10-45).                  *)
THEOREM Values == Spec => []ValuesAreMeasured
<1>1. Init => MetricsOK
  BY DEF Init, MetricsOK, Idle
<1>2. IInv /\ MetricsOK /\ [Next]_vars => MetricsOK'
  BY MetricsKeep
<1>3. MetricsOK => ValuesAreMeasured
  BY DEF MetricsOK, MetricOK, ValueOK, AskedOK, ValuesAreMeasured, Searched
<1> QED
  BY <1>1, <1>2, <1>3, Inductive, PTL DEF Spec
=============================================================================
