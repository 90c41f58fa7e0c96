----------------------- MODULE FindingIdentity_proofs -----------------------
(***************************************************************************)
(* Proofs that the identity the gateway derives from a Splunk result row   *)
(* is that of the event, however the row spells it, for every set of       *)
(* invocations, host names, time range and number range.                   *)
(*                                                                         *)
(* The argument: for an invocation that reaches the comparison, the key is *)
(* a function of the occurrence, and the fingerprint one of occurrence and *)
(* detail, both injective.  The invariant says that what is held are the   *)
(* key and the fingerprint of the held invocation, and what the last       *)
(* answer says about those of the last one.                                *)
(***************************************************************************)
EXTENDS FindingIdentity, TLAPS

-----------------------------------------------------------------------------
(* What an invocation is compared by. *)

Key(i)  == IdentityDocument(Normalize(BuildFinding(i)))
Mark(i) == Fingerprint(CanonicalAlert(Normalize(BuildFinding(i))))

\* The invocation reaches the comparison of the core.
Compared(i) ==
    /\ BuildsFinding(i) /\ Valid(BuildFinding(i))
    /\ NormalizeTimestamp(BuildFinding(i).time) # Overflow

\* The time of an invocation has at most 28 digits.
Short(i) == i.row.time.at % 3 # 2

\* The key of an occurrence.
KeyOf(o) == [rule |-> o.rule, computer |-> o.host, at |-> o.at,
             code |-> o.code, record |-> o.record]

\* The fingerprint of an occurrence of which something is said.
PrintOf(o, title, level, image) ==
    [identifier |-> o.rule, name |-> title, detected_at |-> o.at,
     source_alert_id |-> KeyOf(o), entity |-> o.host, severity |-> Severity(level),
     evidence |-> [policy |-> <<level, Severity(level)>>,
                   event  |-> <<o.host, o.record, o.code>>,
                   image  |-> image]]

\* The held record is that of an invocation that was compared.
HeldOfInput ==
    /\ held.input \in Inputs /\ Compared(held.input)
    /\ held.key = Key(held.input) /\ held.print = Mark(held.input)

\* The answer is that of the comparison with what is held.
AnswerOfComparison ==
    /\ answer \in {"created", "replayed", "conflict"} => input \in Inputs /\ Compared(input)
    /\ answer = "created" => held.input = input \/ held.key # Key(input)
    /\ answer \in {"replayed", "conflict"} => held.key = Key(input)
    /\ answer = "replayed" => held.print = Mark(input)
    /\ answer = "conflict" => held.print # Mark(input)

\* The inductive invariant.
Inv == held # None => HeldOfInput /\ AnswerOfComparison

-----------------------------------------------------------------------------
(* The helpers. *)

\* An expressible time is normalised to a microsecond or overflows; it is
\* never a ValueError (normalize_timestamp).
LEMMA TimestampNotInvalid ==
    ASSUME NEW t, t.at \in Int, t.offset \in Int, Expressible(t.at)
    PROVE  NormalizeTimestamp(t) # Invalid
<1> DEFINE e == (IF t.at % 3 = 2 THEN t.at + 1 ELSE t.at) \div 3
           l == t.at \div 3 - t.offset
<1>1. e \in Int /\ l \in Int
  OBVIOUS
<1>2. \A us \in Int : InDatetimes(us) # Invalid
  BY ErrorsAssumption DEF InDatetimes
<1>3. InDatetimes(e) # Invalid /\ InDatetimes(l) # Invalid
  <2> HIDE DEF e, l
  <2> QED BY <1>1, <1>2
<1> QED
  BY <1>3 DEF NormalizeTimestamp, NormalizeEpoch, NormalizeLocal

\* A time of at most 28 digits that is normalised is floored to the
\* microsecond, less the offset of a local time: an epoch and an RFC 3339
\* spelling of the same instant agree (mapping.py).
LEMMA TimestampFloors ==
    ASSUME NEW t, t.at \in Int, t.offset \in Int, t.at % 3 # 2,
           NormalizeTimestamp(t) # Invalid, NormalizeTimestamp(t) # Overflow
    PROVE  NormalizeTimestamp(t)
             = t.at \div 3 - (IF t.form = "epoch" THEN 0 ELSE t.offset)
<1>1. Expressible(t.at)
  BY DEF NormalizeTimestamp
<1>2. CASE t.form = "epoch"
  <2>1. NormalizeTimestamp(t) = InDatetimes(t.at \div 3)
    BY <1>1, <1>2 DEF NormalizeTimestamp, NormalizeEpoch
  <2>2. NormalizeTimestamp(t) = t.at \div 3
    BY <2>1 DEF InDatetimes
  <2> QED BY <1>2, <2>2
<1>3. CASE t.form # "epoch"
  <2>1. NormalizeTimestamp(t) = InDatetimes(t.at \div 3 - t.offset)
    BY <1>1, <1>3 DEF NormalizeTimestamp, NormalizeLocal
  <2>2. NormalizeTimestamp(t) = t.at \div 3 - t.offset
    BY <2>1 DEF InDatetimes
  <2> QED BY <1>3, <2>2
<1> QED BY <1>2, <1>3

\* Names the alert action lets through are valid to the gateway, and the name
\* it keeps is that of the computer, or of the host where there is none
\* (_validate_hostnames against normalize_hostname).
LEMMA HostnameAccepted ==
    ASSUME NEW row, ValidateHostnames(row), NEW f,
           f.computer = row.computer, f.host = row.host
    PROVE  /\ NormalizeHostname(f) # Invalid
           /\ NormalizeHostname(f)
                = IF row.computer # None THEN row.computer.name ELSE row.host.name
<1> DEFINE spelled == {h \in {row.computer, row.host} : h # None}
           given   == {h.name : h \in {f.computer, f.host} \ {None}}
           name    == IF row.computer # None THEN row.computer.name ELSE row.host.name
<1>1. /\ spelled # {}
      /\ \A h \in spelled : SenderHostname(h) # Invalid
      /\ \A g, h \in spelled : SenderHostname(g) = SenderHostname(h)
  BY DEF ValidateHostnames
<1>2. \A h \in spelled : h.name \in HostNames /\ h.name # Invalid /\ SenderHostname(h) = h.name
  BY <1>1 DEF SenderHostname
<1>3. given = {h.name : h \in spelled}
  OBVIOUS
<1>4. \E s \in spelled : name = s.name
  BY <1>1
<1>5. \A h \in spelled : h.name = name
  BY <1>1, <1>2, <1>4
<1>6. given = {name} /\ name \in HostNames /\ name # Invalid
  BY <1>2, <1>3, <1>4, <1>5
<1>7. NormalizeHostname(f) = CHOOSE h \in given : TRUE
  <2> HIDE DEF name
  <2> QED BY <1>6 DEF NormalizeHostname
<1>8. (CHOOSE h \in given : TRUE) = name
  <2> HIDE DEF name, given
  <2> QED BY <1>6
<1> QED BY <1>6, <1>7, <1>8

\* The finding the alert action builds is valid to the gateway.
LEMMA BuiltIsValid ==
    ASSUME NEW i \in Inputs, BuildsFinding(i)
    PROVE  Valid(BuildFinding(i))
<1> DEFINE f == BuildFinding(i)
<1>1. f.code \in 1 .. EventCodeMaximum /\ f.record \in 1 .. RecordIdMaximum
  BY DEF BuildsFinding, BuildFinding, DecimalInteger
<1>2. /\ ValidateHostnames(i.row)
      /\ f.computer = i.row.computer /\ f.host = i.row.host
  BY DEF BuildsFinding, BuildFinding
<1>3. /\ f.time = i.row.time /\ Expressible(f.time.at)
      /\ f.time.at \in Int /\ f.time.offset \in Int
  BY TimeAssumption DEF BuildsFinding, BuildFinding, EventTime
<1> HIDE DEF f
<1>4. NormalizeHostname(f) # Invalid
  BY <1>2, HostnameAccepted
<1>5. NormalizeTimestamp(f.time) # Invalid
  BY <1>3, TimestampNotInvalid
<1>6. Valid(f)
  BY <1>1, <1>4, <1>5 DEF Valid
<1> QED BY <1>6 DEF f

\* The normalised finding of a compared invocation is made of its occurrence
\* and its detail.
LEMMA NormalizedIsOccurrence ==
    ASSUME NEW i \in Inputs, Compared(i), Short(i)
    PROVE  Normalize(BuildFinding(i)) =
             [rule |-> Occurrence(i).rule, title |-> i.config.title,
              level |-> i.config.level, at |-> Occurrence(i).at,
              computer |-> Occurrence(i).host, code |-> Occurrence(i).code,
              record |-> Occurrence(i).record, image |-> i.row.image]
<1> DEFINE f == BuildFinding(i)
<1>1. /\ ValidateHostnames(i.row)
      /\ f.computer = i.row.computer /\ f.host = i.row.host
      /\ f.time = i.row.time
      /\ f.rule = i.config.rule /\ f.title = i.config.title /\ f.level = i.config.level
      /\ f.code = i.row.code.value /\ f.record = i.row.record.value
      /\ f.image = i.row.image
  BY DEF Compared, BuildsFinding, BuildFinding
<1>2. /\ NormalizeTimestamp(f.time) # Invalid /\ NormalizeTimestamp(f.time) # Overflow
      /\ f.time.at % 3 # 2 /\ f.time.at \in Int /\ f.time.offset \in Int
  BY <1>1, TimeAssumption DEF Compared, Valid, Short
<1> HIDE DEF f
<1>3. NormalizeHostname(f) = Occurrence(i).host
  BY <1>1, HostnameAccepted DEF Occurrence
<1>4. NormalizeTimestamp(f.time) = Occurrence(i).at
  <2>1. NormalizeTimestamp(f.time)
          = f.time.at \div 3 - (IF f.time.form = "epoch" THEN 0 ELSE f.time.offset)
    BY <1>2, TimestampFloors
  <2>2. Occurrence(i).at
          = i.row.time.at \div 3
            - (IF i.row.time.form = "epoch" THEN 0 ELSE i.row.time.offset)
    BY DEF Occurrence
  <2> QED BY <1>1, <2>1, <2>2
<1>5. /\ f.rule.id = Occurrence(i).rule
      /\ f.code = Occurrence(i).code /\ f.record = Occurrence(i).record
  BY <1>1 DEF Occurrence
<1>6. Normalize(f) =
        [rule |-> f.rule.id, title |-> f.title, level |-> f.level,
         at |-> NormalizeTimestamp(f.time), computer |-> NormalizeHostname(f),
         code |-> f.code, record |-> f.record, image |-> f.image]
  BY DEF Normalize
<1>7. Normalize(f) =
             [rule |-> Occurrence(i).rule, title |-> i.config.title,
              level |-> i.config.level, at |-> Occurrence(i).at,
              computer |-> Occurrence(i).host, code |-> Occurrence(i).code,
              record |-> Occurrence(i).record, image |-> i.row.image]
  BY <1>1, <1>3, <1>4, <1>5, <1>6
<1> QED BY <1>7 DEF f

\* The key is that of the occurrence (finding_identity_document).
LEMMA KeyOfOccurrence ==
    ASSUME NEW i \in Inputs, Compared(i), Short(i)
    PROVE  Key(i) = KeyOf(Occurrence(i))
<1> DEFINE n == Normalize(BuildFinding(i))
           o == Occurrence(i)
<1>1. /\ n.rule = o.rule /\ n.computer = o.host /\ n.at = o.at
      /\ n.code = o.code /\ n.record = o.record
  BY NormalizedIsOccurrence
<1>2. Key(i) = [rule |-> n.rule, computer |-> n.computer, at |-> n.at,
                code |-> n.code, record |-> n.record]
  BY DEF Key, IdentityDocument
<1> QED
  <2> HIDE DEF n, o
  <2>1. Key(i) = KeyOf(o)
    BY <1>1, <1>2 DEF KeyOf
  <2> QED BY <2>1 DEF o

\* The fingerprint is that of the occurrence and the detail.
LEMMA PrintOfOccurrence ==
    ASSUME NEW i \in Inputs, Compared(i), Short(i)
    PROVE  Mark(i) = PrintOf(Occurrence(i), i.config.title, i.config.level, i.row.image)
<1> DEFINE n == Normalize(BuildFinding(i))
           o == Occurrence(i)
<1>1. /\ n.rule = o.rule /\ n.computer = o.host /\ n.at = o.at
      /\ n.code = o.code /\ n.record = o.record
      /\ n.title = i.config.title /\ n.level = i.config.level /\ n.image = i.row.image
  BY NormalizedIsOccurrence
<1>2. IdentityDocument(n) = KeyOf(o)
  BY KeyOfOccurrence DEF Key
<1>3. Mark(i) = CanonicalAlert(n)
  BY DEF Mark, Fingerprint
<1> QED
  <2> HIDE DEF n, o
  <2>1. Evidence(n) = [policy |-> <<i.config.level, Severity(i.config.level)>>,
                       event  |-> <<o.host, o.record, o.code>>,
                       image  |-> i.row.image]
    BY <1>1 DEF Evidence
  <2>2. CanonicalAlert(n) =
          [identifier |-> n.rule, name |-> n.title, detected_at |-> n.at,
           source_alert_id |-> IdentityDocument(n), entity |-> n.computer,
           severity |-> Severity(n.level), evidence |-> Evidence(n)]
    BY DEF CanonicalAlert
  <2>3. CanonicalAlert(n) = PrintOf(o, i.config.title, i.config.level, i.row.image)
    BY <1>1, <1>2, <2>1, <2>2 DEF PrintOf
  <2> QED BY <1>3, <2>3 DEF o

\* Two occurrences with one key are one occurrence.
LEMMA KeyTellsOccurrence ==
    ASSUME NEW i \in Inputs, NEW j \in Inputs,
           KeyOf(Occurrence(i)) = KeyOf(Occurrence(j))
    PROVE  Occurrence(i) = Occurrence(j)
<1>1. /\ Occurrence(i).rule = Occurrence(j).rule
      /\ Occurrence(i).host = Occurrence(j).host
      /\ Occurrence(i).at = Occurrence(j).at
      /\ Occurrence(i).code = Occurrence(j).code
      /\ Occurrence(i).record = Occurrence(j).record
  BY DEF KeyOf
<1>2. \A k \in Inputs :
        Occurrence(k) = [rule |-> Occurrence(k).rule, host |-> Occurrence(k).host,
                         at |-> Occurrence(k).at, code |-> Occurrence(k).code,
                         record |-> Occurrence(k).record]
  BY DEF Occurrence
<1> QED BY <1>1, <1>2

-----------------------------------------------------------------------------
(* The invariant. *)

\* A delivery preserves the invariant: what is held is kept, and the answer
\* is that of the comparison with it.
LEMMA DeliverInv ==
    ASSUME Inv, NEW i \in Inputs, Deliver(i)
    PROVE  Inv'
<1>1. /\ input' = i
      /\ \/ answer' \in {"input_error", "rejected", "internal"} /\ UNCHANGED held
         \/ /\ Compared(i)
            /\ answer' = Compare(Key(i), Mark(i))
            /\ held' = IF held = None
                       THEN [input |-> i, key |-> Key(i), print |-> Mark(i)]
                       ELSE held
  BY DEF Deliver, Compared, Key, Mark
<1>2. CASE answer' \in {"input_error", "rejected", "internal"} /\ UNCHANGED held
  BY <1>2 DEF Inv, HeldOfInput, AnswerOfComparison
<1>3. CASE /\ Compared(i)
           /\ answer' = Compare(Key(i), Mark(i))
           /\ held' = IF held = None
                      THEN [input |-> i, key |-> Key(i), print |-> Mark(i)]
                      ELSE held
  <2>1. CASE held = None
    <3>1. answer' = "created" /\ held' = [input |-> i, key |-> Key(i), print |-> Mark(i)]
      BY <1>3, <2>1 DEF Compare
    <3> QED BY <1>1, <1>3, <3>1 DEF Inv, HeldOfInput, AnswerOfComparison
  <2>2. CASE held # None
    <3>1. held' = held /\ input' = i /\ HeldOfInput
      BY <1>1, <1>3, <2>2 DEF Inv
    <3>2. \/ answer' = "created" /\ held.key # Key(i)
          \/ answer' = "replayed" /\ held.key = Key(i) /\ held.print = Mark(i)
          \/ answer' = "conflict" /\ held.key = Key(i) /\ held.print # Mark(i)
      BY <1>3, <2>2 DEF Compare
    <3>3. HeldOfInput'
      BY <3>1 DEF HeldOfInput
    <3>4. AnswerOfComparison'
      BY <1>3, <3>1, <3>2 DEF AnswerOfComparison
    <3> QED BY <3>3, <3>4 DEF Inv
  <2> QED BY <2>1, <2>2
<1> QED BY <1>1, <1>2, <1>3

\* The invariant holds in every state.
LEMMA Invariance == Spec => []Inv
<1>1. Init => Inv
  BY DEF Init, Inv
<1>2. Inv /\ [Next]_vars => Inv'
  <2> SUFFICES ASSUME Inv, [Next]_vars PROVE Inv'
    OBVIOUS
  <2>1. CASE Next
    BY <2>1, DeliverInv DEF Next
  <2>2. CASE UNCHANGED vars
    BY <2>2 DEF vars, Inv, HeldOfInput, AnswerOfComparison
  <2> QED BY <2>1, <2>2
<1> QED BY <1>1, <1>2, PTL DEF Spec

-----------------------------------------------------------------------------
(* The theorems. *)

\* A finding the core skips is about the event it holds, and one it replays
\* says the same about it.
THEOREM SkippedAlwaysHeld == Spec => []SkippedIsHeld
<1>1. Inv => SkippedIsHeld
  <2> SUFFICES ASSUME Inv, ShortTimes, answer \in {"replayed", "conflict"}
               PROVE  /\ Occurrence(input) = Occurrence(held.input)
                      /\ answer = "replayed" => Detail(input) = Detail(held.input)
    BY DEF SkippedIsHeld
  <2> DEFINE i == input
             j == held.input
  <2>1. /\ i \in Inputs /\ Compared(i) /\ Short(i)
        /\ j \in Inputs /\ Compared(j) /\ Short(j)
        /\ Key(i) = Key(j)
        /\ answer = "replayed" => Mark(i) = Mark(j)
    BY DEF Inv, HeldOfInput, AnswerOfComparison, ShortTimes, Short
  <2> HIDE DEF i, j
  <2>2. Occurrence(i) = Occurrence(j)
    BY <2>1, KeyOfOccurrence, KeyTellsOccurrence
  <2>3. ASSUME answer = "replayed" PROVE Detail(i) = Detail(j)
    <3>1. PrintOf(Occurrence(i), i.config.title, i.config.level, i.row.image)
            = PrintOf(Occurrence(j), j.config.title, j.config.level, j.row.image)
      BY <2>1, <2>3, PrintOfOccurrence
    <3>2. i.config.title = j.config.title
      BY <3>1 DEF PrintOf
    <3>3. [policy |-> <<i.config.level, Severity(i.config.level)>>,
           event  |-> <<Occurrence(i).host, Occurrence(i).record, Occurrence(i).code>>,
           image  |-> i.row.image]
            = [policy |-> <<j.config.level, Severity(j.config.level)>>,
               event  |-> <<Occurrence(j).host, Occurrence(j).record, Occurrence(j).code>>,
               image  |-> j.row.image]
      BY <3>1 DEF PrintOf
    <3>4. i.row.image = j.row.image
      BY <3>3
    <3>5. <<i.config.level, Severity(i.config.level)>>
            = <<j.config.level, Severity(j.config.level)>>
      BY <3>3
    <3>6. i.config.level = j.config.level
      BY <3>5
    <3> QED BY <3>2, <3>4, <3>6 DEF Detail
  <2> QED BY <2>2, <2>3 DEF i, j
<1> QED BY <1>1, Invariance, PTL

\* The same event told in the same way is replayed, however it is spelled.
THEOREM RepeatAlwaysReplayed == Spec => []RepeatIsReplayed
<1>1. Inv => RepeatIsReplayed
  <2> SUFFICES ASSUME Inv, ShortTimes, answer \in {"created", "conflict"},
                      Occurrence(input) = Occurrence(held.input),
                      Detail(input) = Detail(held.input)
               PROVE  input = held.input
    BY DEF RepeatIsReplayed
  <2> DEFINE i == input
             j == held.input
  <2>1. /\ i \in Inputs /\ Compared(i) /\ Short(i)
        /\ j \in Inputs /\ Compared(j) /\ Short(j)
        /\ answer = "created" => i = j \/ Key(i) # Key(j)
        /\ answer = "conflict" => Mark(i) # Mark(j)
        /\ Occurrence(i) = Occurrence(j)
    BY DEF Inv, HeldOfInput, AnswerOfComparison, ShortTimes, Short
  <2>2. /\ i.config.title = j.config.title
        /\ i.config.level = j.config.level
        /\ i.row.image = j.row.image
    BY DEF Detail
  <2> HIDE DEF i, j
  <2>3. Key(i) = Key(j)
    BY <2>1, KeyOfOccurrence
  <2>4. Mark(i) = Mark(j)
    BY <2>1, <2>2, PrintOfOccurrence
  <2>5. i = j
    BY <2>1, <2>3, <2>4
  <2> QED BY <2>5 DEF i, j
<1> QED BY <1>1, Invariance, PTL

\* What the alert action sends is never refused as invalid by the gateway.
THEOREM SenderAlwaysStricter == Spec => []SenderIsStricter
<1>1. Init => SenderIsStricter
  BY DEF Init, SenderIsStricter
<1>2. SenderIsStricter /\ [Next]_vars => SenderIsStricter'
  <2> SUFFICES ASSUME SenderIsStricter, [Next]_vars PROVE answer' # "rejected"
    BY DEF SenderIsStricter
  <2>1. ASSUME NEW i \in Inputs, Deliver(i) PROVE answer' # "rejected"
    <3>1. BuildsFinding(i) => Valid(BuildFinding(i))
      BY BuiltIsValid
    <3>2. \A k, p : Compare(k, p) # "rejected"
      BY DEF Compare
    <3> QED BY <2>1, <3>1, <3>2 DEF Deliver
  <2>2. CASE UNCHANGED vars
    BY <2>2 DEF vars, SenderIsStricter
  <2> QED BY <2>1, <2>2 DEF Next
<1> QED BY <1>1, <1>2, PTL DEF Spec
=============================================================================
