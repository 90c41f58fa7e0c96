-------------------------- MODULE MCFindingIdentity --------------------------
(* Small instances of FindingIdentity. *)
EXTENDS FindingIdentity

\* Two microseconds on either side of 1970-01-01 (as 0) are expressible.
MCEarliest == -6

Epochs == [form: {"epoch"}, at: -8 .. 7, offset: {0}]
Locals == [form: {"rfc3339"}, at: -8 .. 7, offset: {-1, 0, 1}]
Times  == Epochs \cup Locals

\* Four spellings of a valid name: case, padding and final dot vary together.
Spelled == [name: HostNames \cup {"bad name"}, spelling: {"plain", "FQDN."}]

Numbers(values) == [value: values, zeros: 0 .. 1]

Rules == [id: {"rule1", "rule2"}, spelling: {"plain", "upper"}]

BaseRow == [time |-> [form |-> "epoch", at |-> -2, offset |-> 0],
            computer |-> [name |-> CHOOSE h \in HostNames : TRUE, spelling |-> "plain"],
            host |-> None, code |-> [value |-> 1, zeros |-> 0],
            record |-> [value |-> 1, zeros |-> 0], image |-> None]

BaseConfig == [rule |-> [id |-> "rule1", spelling |-> "plain"],
               title |-> "title1", level |-> "high"]

Base == [artifact |-> "one row", row |-> BaseRow, config |-> BaseConfig]

\* The base with one or two of its parts spelled or chosen differently.
MCInputs ==
    {[Base EXCEPT !.row.time = t, !.config.level = l] :
         t \in Times, l \in {"informational", "high"}}
    \cup {[Base EXCEPT !.row.computer = c, !.row.host = h] :
         c \in Spelled \cup {None}, h \in Spelled \cup {None}}
    \cup {[Base EXCEPT !.row.code = c, !.row.record = r] :
         c \in Numbers(0 .. EventCodeMaximum + 1), r \in Numbers(0 .. RecordIdMaximum + 1)}
    \cup {[Base EXCEPT !.config.rule = r, !.config.title = t, !.row.image = i] :
         r \in Rules, t \in {"title1", "title2"}, i \in {None, "image1"}}
    \cup {[Base EXCEPT !.artifact = a] : a \in {"no row", "two rows", "other fields"}}
=============================================================================
