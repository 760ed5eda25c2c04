----------------------------- MODULE CheckRules -----------------------------
(* The counterparty checks of checks/: the three-valued result, the decision *)
(* each built-in check takes on what it was given and what it was answered,  *)
(* and the order in which findings are reported.  A decision is stated as    *)
(* two conditions, when the fact is unknown and when it is a failure, and    *)
(* everything else is a pass; the wording of reasons and evidence is left    *)
(* out, except the issuer state the drift check stores for the next sweep.   *)
(*                                                                           *)
(* An answer to a request is [status, body]: "lost" is a transport error,    *)
(* "cut" the one that our own deadline makes of a request which is out, and  *)
(* no check tells the two apart; "missing" is HTTP 404, "probe" another      *)
(* status whose message names the probed account, "error" any other status,  *)
(* "garbled" a 200 that does not parse, "ok" the rest.                       *)
EXTENDS Naturals, Sequences, FiniteSets, SequencesExt

CONSTANT None    \* no profile, no baseline, no observation

Info == 0
Notice == 1
Warning == 2
Critical == 3

Descriptor(id, severity) == [id |-> id, severity |-> severity]

(* What a check declares of itself.                                          *)
Describe(name) ==
    CASE name = "unlabelled"                   -> Descriptor("", Info)
      [] name \in {"panics", "anonymous"}      -> Descriptor("contributed", Critical)
      [] name = "issuer.auth-flags"            -> Descriptor(name, Critical)
      [] name \in {"sep10.endpoint-responds", "sep31.info", "issuer.drift"} ->
             Descriptor(name, Warning)
      [] name \in {"sep12.server-published", "issuer.auth-immutable"} ->
             Descriptor(name, Info)
      [] OTHER                                 -> Descriptor(name, Notice)

Pass(d) == [id |-> d.id, severity |-> d.severity, determined |-> TRUE,
            passed |-> TRUE, reason |-> FALSE]

Fail(d) == [Pass(d) EXCEPT !.passed = FALSE]

Undetermined(d) == [Pass(d) EXCEPT !.determined = FALSE, !.passed = FALSE, !.reason = TRUE]

Failed(r) == r.determined /\ ~r.passed

Judge(d, unknown, fails) ==
    IF unknown THEN Undetermined(d) ELSE IF fails THEN Fail(d) ELSE Pass(d)

-----------------------------------------------------------------------------
(* Checks on the published document only.  A profile is a resolved           *)
(* stellar.toml: a server field is "absent", "unusable" as a URL or          *)
(* "declared", and a currency entry has a code, an issuer and an             *)
(* anchor_asset that is absent, repeats the code, is not three letters       *)
(* ("shapeless"), or is an ISO-4217 shape ("iso").                           *)

findCurrency(profile, code, issuer) ==
    SelectSeq(profile.currencies,
              LAMBDA c : c.code = code /\ (issuer = None \/ c.issuer = issuer))

isISO4217Shaped(anchorAsset) == anchorAsset = "iso"

AnchorAssetISO4217(s) ==
    LET entries == findCurrency(s.profile, s.code, s.issuer)
        declared == Head(entries).anchorAsset
    IN  Judge(Describe("toml.anchor-asset-iso4217"),
              \/ s.profile = None \/ s.code = None
              \/ entries = << >> \/ declared = "absent",
              declared = "self" \/ ~isISO4217Shaped(declared))

SEP12ServerPublished(s) ==
    Judge(Describe("sep12.server-published"),
          s.profile = None, s.profile.kyc = "absent")

SEP38QuoteServerPublished(s) ==
    Judge(Describe("sep38.quote-server-published"),
          s.profile = None, s.profile.quote = "absent")

-----------------------------------------------------------------------------
(* Checks that probe an address the document declares: not answering is the  *)
(* finding.                                                                  *)

rejectsProbe(answer) == answer.status = "probe"

SEP10EndpointResponds(s, answer) ==
    LET declared == s.profile.webAuth
    IN  Judge(Describe("sep10.endpoint-responds"),
              \/ s.profile = None \/ declared = "absent"
              \/ declared = "declared" /\ rejectsProbe(answer),
              declared = "unusable" \/ answer.status # "ok" \/ ~answer.body.listed)

SEP31Info(s, answer) ==
    LET declared == s.profile.directPayment
    IN  Judge(Describe("sep31.info"),
              s.profile = None \/ s.code = None,
              \/ declared # "declared" \/ answer.status # "ok"
              \/ ~answer.body.listed \/ ~answer.body.enabled)

(* The name /info is searched for: the entry must match code and issuer      *)
(* exactly, unlike findCurrency, which takes any issuer for none.            *)
transferCurrency(s) ==
    SelectSeq(s.profile.currencies, LAMBDA c : c.code = s.code /\ c.issuer = s.issuer)

(* Mutant of InfoLists: not being answered leaves the fact unknown.          *)
InfoListsLeniently(d, s, declared, answer) ==
    Judge(d, \/ s.profile = None \/ declared = "absent" \/ transferCurrency(s) = << >>
             \/ declared = "declared" /\ answer.status = "lost",
          declared = "unusable" \/ answer.status # "ok" \/ ~answer.body.listed)

InfoLists(d, s, declared, answer) ==
    Judge(d, s.profile = None \/ declared = "absent" \/ transferCurrency(s) = << >>,
          declared = "unusable" \/ answer.status # "ok" \/ ~answer.body.listed)

SEP6InfoListsAsset(s, answer) ==
    InfoLists(Describe("sep6.info-lists-asset"), s,
              s.profile.transfer, answer)

SEP24InfoListsAsset(s, answer) ==
    InfoLists(Describe("sep24.info-lists-asset"), s,
              s.profile.transfer24, answer)

-----------------------------------------------------------------------------
(* Checks that ask Horizon for the issuing account: a silence of Horizon is  *)
(* nobody's failure, an answer that there is no such account is one.         *)

Silent(answer) == answer.status \notin {"ok", "missing"}

(* Mutant of OnAccount: an account that could not be read is failed.         *)
OnAccountBlamed(d, s, answer, fails) ==
    Judge(d, s.issuer = None, answer.status # "ok" \/ fails)

OnAccount(d, s, answer, fails) ==
    Judge(d, s.issuer = None \/ Silent(answer), answer.status = "missing" \/ fails)

IssuerAuthFlags(s, answer) ==
    OnAccount(Describe("issuer.auth-flags"), s, answer,
              answer.body.flags.clawback \/ answer.body.flags.revocable)

IssuerFlagImmutability(s, answer) ==
    OnAccount(Describe("issuer.auth-immutable"), s, answer,
              ~answer.body.flags.immutable)

(* document is what the account's own home domain serves: None when it could *)
(* not be fetched.                                                           *)
HomeDomainRoundTrip(s, answer, document) ==
    Judge(Describe("toml.home-domain-roundtrip"),
          \/ s.issuer = None \/ answer.status # "ok"
          \/ answer.body.homeDomain = None \/ document = None,
          findCurrency(document, s.code, s.issuer) = << >>)

(* The state the drift check compares and leaves as its evidence: the flags  *)
(* Horizon answered with and the fingerprint of the document.                *)
issuerDriftObservation(s, answer) ==
    IF s.issuer = None \/ s.profile = None \/ answer.status # "ok" THEN None
    ELSE [flags |-> answer.body.flags, hash |-> s.profile.hash]

(* Mutants of IssuerDrift: the first observation is compared with none; the  *)
(* document's fingerprint is not compared.                                   *)
IssuerDriftFirst(s, answer, baseline) ==
    Judge(Describe("issuer.drift"),
          s.issuer = None \/ s.profile = None \/ Silent(answer),
          \/ answer.status = "missing"
          \/ baseline # issuerDriftObservation(s, answer))

IssuerDrift(s, answer, baseline) ==
    Judge(Describe("issuer.drift"),
          \/ s.issuer = None \/ s.profile = None \/ Silent(answer)
          \/ answer.status = "ok" /\ baseline = None,
          \/ answer.status = "missing"
          \/ baseline # issuerDriftObservation(s, answer))

-----------------------------------------------------------------------------
(* Which checks make a request on a given subject: the others, and these     *)
(* when what they would ask about is not there, cost nothing.                *)

AccountChecks == {"issuer.auth-flags", "issuer.auth-immutable", "issuer.drift",
                  "toml.home-domain-roundtrip"}

ProbedField(id, profile) ==
    CASE id = "sep10.endpoint-responds" -> profile.webAuth
      [] id = "sep31.info"              -> profile.directPayment
      [] id = "sep6.info-lists-asset"   -> profile.transfer
      [] id = "sep24.info-lists-asset"  -> profile.transfer24
      [] OTHER                          -> "absent"

Asks(id, s) ==
    IF id \in AccountChecks
    THEN s.issuer # None /\ (id = "issuer.drift" => s.profile # None)
    ELSE /\ s.profile # None
         /\ ProbedField(id, s.profile) = "declared"
         /\ id = "sep31.info" => s.code # None
         /\ id \in {"sep6.info-lists-asset", "sep24.info-lists-asset"}
                => transferCurrency(s) # << >>

-----------------------------------------------------------------------------
(* One check of a sweep.  The built-in ones are above; a contributed check   *)
(* may panic, declare too little about itself ("unlabelled"), or return an   *)
(* undetermined result with neither ID nor reason ("anonymous").             *)

Contributed == {"panics", "unlabelled", "anonymous"}

CheckNames == Contributed \cup AccountChecks \cup
              {"toml.anchor-asset-iso4217", "sep12.server-published", "sep31.info",
               "sep10.endpoint-responds", "sep6.info-lists-asset",
               "sep24.info-lists-asset", "sep38.quote-server-published"}

BuiltIn(name, s, answer, document, baseline) ==
    CASE name = "toml.anchor-asset-iso4217"    -> AnchorAssetISO4217(s)
      [] name = "sep12.server-published"       -> SEP12ServerPublished(s)
      [] name = "sep31.info"                   -> SEP31Info(s, answer)
      [] name = "sep10.endpoint-responds"      -> SEP10EndpointResponds(s, answer)
      [] name = "sep6.info-lists-asset"        -> SEP6InfoListsAsset(s, answer)
      [] name = "sep24.info-lists-asset"       -> SEP24InfoListsAsset(s, answer)
      [] name = "sep38.quote-server-published" -> SEP38QuoteServerPublished(s)
      [] name = "issuer.auth-flags"            -> IssuerAuthFlags(s, answer)
      [] name = "issuer.auth-immutable"        -> IssuerFlagImmutability(s, answer)
      [] name = "issuer.drift"                 -> IssuerDrift(s, answer, baseline)
      [] name = "toml.home-domain-roundtrip"   -> HomeDomainRoundTrip(s, answer, document)

(* Mutant of Run: the context is looked at by the requests only.             *)
RunPastDeadline(name, live, s, answer, document, baseline) ==
    IF name \in Contributed THEN Undetermined(Describe(name))
    ELSE BuiltIn(name, s, answer, document, baseline)

(* Run: an unreadable descriptor, a context already over and a panic all     *)
(* leave an undetermined result in the check's place, and a result without   *)
(* identity or reason is given them.                                         *)
Run(name, live, s, answer, document, baseline) ==
    IF name \in Contributed \/ ~live
    THEN Undetermined(Describe(name))
    ELSE BuiltIn(name, s, answer, document, baseline)

-----------------------------------------------------------------------------
(* Findings, in the order they ran, and as they are displayed: failures by   *)
(* descending severity, then what could not be determined, then passes, each *)
(* group by ID.  Alphabetical ranks the IDs.                                 *)

Alphabetical == <<"", "contributed", "issuer.auth-flags", "issuer.auth-immutable",
                  "issuer.drift", "sep10.endpoint-responds", "sep12.server-published",
                  "sep24.info-lists-asset", "sep31.info",
                  "sep38.quote-server-published", "sep6.info-lists-asset",
                  "toml.anchor-asset-iso4217", "toml.home-domain-roundtrip">>

Alphabet(id) == CHOOSE i \in DOMAIN Alphabetical : Alphabetical[i] = id

Rank(r) == IF Failed(r) THEN 0 ELSE IF ~r.determined THEN 1 ELSE 2

Precedes(r, q) ==
    \/ Rank(r) < Rank(q)
    \/ /\ Rank(r) = Rank(q)
       /\ IF Rank(r) = 0 /\ r.severity # q.severity
          THEN r.severity > q.severity
          ELSE Alphabet(r.id) < Alphabet(q.id)

(* Results that neither precedes the other stay in the order they ran.       *)
Before(checks, i, j) ==
    Precedes(checks[i], checks[j]) \/ (~Precedes(checks[j], checks[i]) /\ i < j)

(* A stable sort: the k-th displayed is the one with k - 1 before it.        *)
Sorted(checks) ==
    LET Place(i) == Cardinality({j \in DOMAIN checks : Before(checks, j, i)}) + 1
    IN  [k \in DOMAIN checks |-> checks[CHOOSE i \in DOMAIN checks : Place(i) = k]]

Counts(checks) ==
    [passed |-> Cardinality({i \in DOMAIN checks : checks[i].determined /\ checks[i].passed}),
     failed |-> Cardinality({i \in DOMAIN checks : Failed(checks[i])}),
     undetermined |-> Cardinality({i \in DOMAIN checks : ~checks[i].determined})]

(* Mutant of Worst: whatever did not pass counts.                            *)
WorstUnpassed(checks) ==
    LET open == {checks[i].severity : i \in {j \in DOMAIN checks : ~checks[j].passed}}
    IN  IF open = {} THEN None ELSE CHOOSE v \in open : \A w \in open : w <= v

(* None when nothing failed.                                                 *)
Worst(checks) ==
    LET failures == {checks[i].severity : i \in {j \in DOMAIN checks : Failed(checks[j])}}
    IN  IF failures = {} THEN None
        ELSE CHOOSE v \in failures : \A w \in failures : w <= v

(* What is published and stored.                                             *)
ToJSON(checks) == [checks |-> Sorted(checks), counts |-> Counts(checks),
                   worst |-> Worst(checks)]

=============================================================================
