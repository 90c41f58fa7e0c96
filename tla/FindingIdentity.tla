--------------------------- MODULE FindingIdentity ---------------------------
(***************************************************************************)
(* What becomes of one Splunk result row: the alert action builds a        *)
(* finding of it (alert2ir_delivery.py), the gateway normalises the        *)
(* finding (models.py, mapping.py), derives its idempotency key            *)
(* (idempotency.py) and its canonical alert, and the core compares key and *)
(* fingerprint (fingerprinting.py) with those of an earlier delivery.      *)
(*                                                                         *)
(* A value is modelled with the ways it can be spelled: a time as an epoch *)
(* or in RFC 3339 with an offset, a host name in either case, padded or    *)
(* with a final dot, a number with leading zeros.  Times are in thirds of  *)
(* a microsecond, finer than a datetime: two thirds stand for a fraction   *)
(* that 28 decimal digits round up to the next microsecond.                *)
(***************************************************************************)
EXTENDS Integers

CONSTANTS
    Inputs,            \* invocations: a result artifact and a configuration
    HostNames,         \* normalised valid host names
    EarliestTime,      \* first and one past the last third of a microsecond
    EndOfTime,         \*   a datetime can express
    EventCodeMaximum,
    RecordIdMaximum,
    Invalid,           \* a ValueError
    Overflow,          \* an OverflowError
    None

ASSUME TimeAssumption ==
    /\ EarliestTime \in Int /\ EndOfTime \in Int
    /\ \A i \in Inputs : i.row.time.at \in Int /\ i.row.time.offset \in Int

\* An error is not a time, and the two are told apart.
ASSUME ErrorsAssumption == Invalid \notin Int /\ Invalid # Overflow

VARIABLES
    held,    \* the first delivery the core accepted
    input,   \* the last invocation
    answer   \* how it ended

vars == <<held, input, answer>>

-----------------------------------------------------------------------------
(* The alert action: read_single_result and build_finding. *)

\* _decimal_integer: zeros are dropped, the value must be in range.
DecimalInteger(n, maximum) == n.value \in 1 .. maximum

\* _normalize_hostname_for_comparison: blanks, a final dot and case are
\* ignored; a name of other characters is invalid.
SenderHostname(h) == IF h.name \in HostNames THEN h.name ELSE Invalid

\* _validate_hostnames: each given name is valid, one is, and they agree.
ValidateHostnames(row) ==
    LET given == {h \in {row.computer, row.host} : h # None}
    IN /\ given # {}
       /\ \A h \in given : SenderHostname(h) # Invalid
       /\ \A g, h \in given : SenderHostname(g) = SenderHostname(h)

Expressible(t) == t \in EarliestTime .. EndOfTime - 1

\* Mutant: an epoch out of range is let through.
EventTimeUnbounded(t) == t.form = "epoch" \/ Expressible(t.at)

\* _validate_event_time: an epoch in range, or a readable local time.
EventTime(t) == Expressible(t.at)

\* The one row of the artifact makes a finding; its time and names stay as
\* they are spelled, its numbers do not.
BuildsFinding(i) ==
    /\ i.artifact = "one row"
    /\ ValidateHostnames(i.row)
    /\ EventTime(i.row.time)
    /\ DecimalInteger(i.row.code, EventCodeMaximum)
    /\ DecimalInteger(i.row.record, RecordIdMaximum)

BuildFinding(i) ==
    [rule |-> i.config.rule, title |-> i.config.title, level |-> i.config.level,
     time |-> i.row.time, computer |-> i.row.computer, host |-> i.row.host,
     code |-> i.row.code.value, record |-> i.row.record.value,
     image |-> i.row.image]

-----------------------------------------------------------------------------
(* The gateway. *)

\* timedelta and astimezone fail beyond the last and before the first datetime.
InDatetimes(us) == IF Expressible(3 * us) THEN us ELSE Overflow

\* Mutant: towards zero.
NormalizeEpochTowardsZero(at) == IF at < 0 THEN -((-at) \div 3) ELSE at \div 3

\* _normalize_epoch: the product is rounded to 28 digits before ROUND_FLOOR.
NormalizeEpoch(at) == InDatetimes((IF at % 3 = 2 THEN at + 1 ELSE at) \div 3)

\* fromisoformat drops the digits after the microsecond, astimezone subtracts
\* the offset.
NormalizeLocal(t) == InDatetimes(t.at \div 3 - t.offset)

\* normalize_timestamp.
NormalizeTimestamp(t) ==
    IF ~Expressible(t.at) THEN Invalid
    ELSE IF t.form = "epoch" THEN NormalizeEpoch(t.at) ELSE NormalizeLocal(t)

\* normalize_hostname, after validate_hostname_present.
NormalizeHostname(f) ==
    LET given == {h.name : h \in {f.computer, f.host} \ {None}}
    IN IF given \subseteq HostNames /\ given # {} /\ \A g, h \in given : g = h
       THEN CHOOSE h \in given : TRUE ELSE Invalid

\* SplunkFinding.model_validate with the ValueErrors of canonicalize.
Valid(f) ==
    /\ f.code \in 1 .. EventCodeMaximum
    /\ f.record \in 1 .. RecordIdMaximum
    /\ NormalizeHostname(f) # Invalid
    /\ NormalizeTimestamp(f.time) # Invalid

\* normalize_sigma_severity.
Severity(level) == IF level \in {"informational", "low"} THEN "low" ELSE level

\* normalize_splunk_finding; str(UUID(..)) leaves one spelling of a rule id.
Normalize(f) ==
    [rule |-> f.rule.id, title |-> f.title, level |-> f.level,
     at |-> NormalizeTimestamp(f.time), computer |-> NormalizeHostname(f),
     code |-> f.code, record |-> f.record, image |-> f.image]

\* build_evidence: the level's mapping, the event, and what was observed.
Evidence(n) ==
    [policy |-> <<n.level, Severity(n.level)>>,
     event  |-> <<n.computer, n.record, n.code>>,
     image  |-> n.image]

\* Mutant: the event is identified by its time, not by its record.
IdentityWithoutRecord(n) ==
    [rule |-> n.rule, computer |-> n.computer, at |-> n.at, code |-> n.code]

\* finding_identity_document; sha256 is taken to be injective.
IdentityDocument(n) ==
    [rule |-> n.rule, computer |-> n.computer, at |-> n.at,
     code |-> n.code, record |-> n.record]

\* _to_canonical_alert. The key is also its source_alert_id.
CanonicalAlert(n) ==
    [identifier |-> n.rule, name |-> n.title, detected_at |-> n.at,
     source_alert_id |-> IdentityDocument(n), entity |-> n.computer,
     severity |-> Severity(n.level), evidence |-> Evidence(n)]

\* canonical_fingerprint_document: every field of the alert.
Fingerprint(a) == a

-----------------------------------------------------------------------------
\* What the core answers to key and fingerprint, given what it holds.
Compare(key, print) ==
    IF held = None \/ held.key # key THEN "created"
    ELSE IF held.print = print THEN "replayed" ELSE "conflict"

\* One invocation, delivered.
Deliver(i) ==
    LET f     == BuildFinding(i)
        n     == Normalize(f)
        key   == IdentityDocument(n)
        print == Fingerprint(CanonicalAlert(n))
    IN /\ input' = i
       /\ \/ ~BuildsFinding(i) /\ answer' = "input_error" /\ UNCHANGED held
          \/ BuildsFinding(i) /\ ~Valid(f) /\ answer' = "rejected" /\ UNCHANGED held
          \/ /\ BuildsFinding(i) /\ Valid(f) /\ NormalizeTimestamp(f.time) = Overflow
             /\ answer' = "internal" /\ UNCHANGED held
          \/ /\ BuildsFinding(i) /\ Valid(f) /\ NormalizeTimestamp(f.time) # Overflow
             /\ answer' = Compare(key, print)
             /\ held' = IF held = None THEN [input |-> i, key |-> key, print |-> print]
                        ELSE held

Init == held = None /\ input = None /\ answer = "none"

\* Bound: one delivery, and one more if the first was accepted.
Next == \E i \in Inputs :
            /\ input = None \/ (answer = "created" /\ held.input = input)
            /\ Deliver(i)

Spec == Init /\ [][Next]_vars

-----------------------------------------------------------------------------
(* Properties. *)

\* The event an invocation is about, however it is spelled ...
Occurrence(i) ==
    [rule   |-> i.config.rule.id,
     host   |-> IF i.row.computer # None THEN i.row.computer.name ELSE i.row.host.name,
     at     |-> i.row.time.at \div 3
                - (IF i.row.time.form = "epoch" THEN 0 ELSE i.row.time.offset),
     code   |-> i.row.code.value,
     record |-> i.row.record.value]

\* ... and what else is said about it.
Detail(i) == <<i.config.title, i.config.level, i.row.image>>

\* The last and the held time have at most 28 digits.
ShortTimes == held # None /\ \A i \in {input, held.input} : i.row.time.at % 3 # 2

\* A finding is not run, as a replay or as a conflict, only if it is about an
\* event already held, and as a replay only if it says the same about it.
SkippedIsHeld ==
    ShortTimes =>
        /\ answer \in {"replayed", "conflict"} => Occurrence(input) = Occurrence(held.input)
        /\ answer = "replayed" => Detail(input) = Detail(held.input)

\* "Flooring makes numeric epochs agree with Python's RFC3339
\* fractional-second truncation" (mapping.py): the same event, told in the same
\* way but spelled differently, is a replay, neither run again nor refused.
RepeatIsReplayed ==
    /\ ShortTimes /\ answer \in {"created", "conflict"}
    /\ Occurrence(input) = Occurrence(held.input)
    /\ Detail(input) = Detail(held.input)
    => input = held.input

\* What the alert action accepts the gateway does not refuse as invalid: the
\* action would drop the finding for good.
SenderIsStricter == answer # "rejected"
=============================================================================
