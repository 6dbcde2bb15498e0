------------------------------ MODULE Discovery ------------------------------
(***************************************************************************)
(* discover_sensor() (discovery.cpp) and the parser of what it fetches     *)
(* (detail/xml_config.cpp), with the option checks of types.cpp.  The body *)
(* is a sequence of tokens, one token to a chunk; a token is what one pass *)
(* of the parser's loop consumes.  Field texts are strings put together    *)
(* from pieces, because comments and CDATA split them.                     *)
(***************************************************************************)
EXTENDS Integers, Sequences, FiniteSets, SequencesExt

CONSTANTS
    Standards,      \* documents that sensors serve
    Tokens,         \* bound: what may be inserted in it
    TokensAgain,    \* bound: what may be inserted after another edit
    MaxEdits,       \* bound: edits
    Required,       \* kRequiredTags, or those that an instance keeps
    MaxResponse,    \* kMaximumResponseBytes, in tokens
    MaxField,       \* kMaximumFieldLength, in pieces
    MaxLost,        \* bound: tokens missing when a transfer breaks off
    PerMillisecond, \* clock ticks in a millisecond
    MaxLong,        \* numeric_limits<long>::max()
    MaxDeadline,    \* the longest timeout that checked_deadline() takes
    Timeouts        \* bound: the timeouts tried, in ticks

AnyToken == [kind : {"open", "empty", "close", "text", "skip", "bad"}, name : STRING, text : STRING]

ASSUME DiscoveryAssumption ==
    /\ Required \subseteq {"prodname", "cfgcpf", "cfgcpt", "scfgfu", "scfgtu"}
    /\ TokensAgain \subseteq Tokens /\ Tokens \subseteq AnyToken
    /\ Standards \subseteq Seq(AnyToken)
    /\ {MaxEdits, MaxResponse, MaxField, MaxLost, MaxLong, MaxDeadline} \subseteq Nat
    /\ PerMillisecond \in Nat \ {0} /\ Timeouts \subseteq Int

Token(kind, name, text) == [kind |-> kind, name |-> name, text |-> text]
Open(n) == Token("open", n, "")             \* <n ...>
Empty(n) == Token("empty", n, "")           \* <n ... />
CloseTag(n) == Token("close", n, "")        \* </n>
Text(t) == Token("text", "", t)             \* character data or CDATA
Skip == Token("skip", "", "")               \* a comment or a processing instruction
Bad == Token("bad", "", "")                 \* <!..., <>, </>, </a b>, no end

Blank == " "
DefaultProduct == "ATI Net F/T"
MaxPort == 65535

VARIABLES
    options,        \* DiscoveryOptions, as far as they are checked
    document,       \* what the sensor serves
    edits,          \* bound: edits made
    phase,          \* "options", "transfer", "scan", "done"
    body,           \* response.body
    position, elements, seen, fields,   \* the locals of extract_required_fields()
    result          \* the configuration, or an error

scanner == <<position, elements, seen, fields>>
vars == <<options, document, edits, phase, body, scanner, result>>

Failed == [ok |-> FALSE]
GoodOptions == [blank |-> FALSE, port |-> 80, timeout |-> PerMillisecond]

Init ==
    /\ options \in {GoodOptions} \cup
                    [blank : BOOLEAN, port : {0, 1, MaxPort, MaxPort + 1}, timeout : Timeouts]
    /\ document \in Standards /\ edits = 0
    /\ phase = "options" /\ body = <<>> /\ result = Failed
    /\ position = 1 /\ elements = <<>> /\ seen = {} /\ fields = [n \in Required |-> <<>>]

\* The sensor serves another document: a token is missing, added or replaced.
SensorServes ==
    /\ phase = "options" /\ options = GoodOptions /\ edits < MaxEdits
    /\ edits' = edits + 1
    /\ \E i \in 1 .. Len(document) + 1, t \in IF edits = 0 THEN Tokens ELSE TokensAgain :
        document' \in {InsertAt(document, i, t)} \cup
            (IF i \in DOMAIN document THEN {RemoveAt(document, i), ReplaceAt(document, i, t)}
                                     ELSE {})
    /\ UNCHANGED <<options, phase, body, scanner, result>>

Fail == phase' = "done" /\ result' = Failed

-----------------------------------------------------------------------------
(* The options: discovery's own check, and the client's *)

Milliseconds(t) == (t + PerMillisecond - 1) \div PerMillisecond

\* validate_options() and timeout_milliseconds() of discovery.cpp.
OptionsAccepted(o) ==
    /\ ~ o.blank /\ o.port \in 1 .. MaxPort
    /\ o.timeout > 0 /\ Milliseconds(o.timeout) <= MaxLong

\* Mutant: validate() forgets that the HTTP timers are counted in milliseconds.
ConfigValidForClock(o) ==
    /\ ~ o.blank /\ o.port \in 1 .. MaxPort
    /\ o.timeout > 0 /\ o.timeout <= MaxDeadline

\* What validate(Config) demands of the same values.
ConfigValid(o) ==
    /\ ~ o.blank /\ o.port \in 1 .. MaxPort
    /\ o.timeout > 0 /\ o.timeout <= MaxDeadline
    /\ Milliseconds(o.timeout) < MaxLong

CheckOptions ==
    /\ phase = "options"
    /\ \/ ~ OptionsAccepted(options) /\ Fail
       \/ OptionsAccepted(options) /\ phase' = "transfer" /\ UNCHANGED result
    /\ UNCHANGED <<options, document, edits, body, scanner>>

-----------------------------------------------------------------------------
(* The transfer *)

\* append_response() over all chunks: the first that does not fit ends it.
AppendResponse(tokens) ==
    [body |-> SubSeq(tokens, 1, Min({Len(tokens), MaxResponse})),
     tooLarge |-> Len(tokens) > MaxResponse]

\* The checks after curl_easy_perform(), in the code's order.
TransferAccepted(response, complete, status) ==
    ~ response.tooLarge /\ complete /\ status = 200

\* curl_easy_perform() under connect_timeout and total_timeout; redirects are
\* not followed, so that their status is one that is refused.
Transfer ==
    /\ phase = "transfer"
    /\ \E lost \in 0 .. MaxLost, status \in {200, 302} :
        LET arrived == SubSeq(document, 1, Len(document) - lost)
            response == AppendResponse(arrived)
        IN  IF TransferAccepted(response, lost = 0, status)
            THEN body' = response.body /\ phase' = "scan" /\ UNCHANGED result
            ELSE Fail /\ UNCHANGED body
    /\ UNCHANGED <<options, document, edits, scanner>>

-----------------------------------------------------------------------------
(* extract_required_fields(): one pass of the loop per token *)

Scanning(kinds) == phase = "scan" /\ position <= Len(body) /\ body[position].kind \in kinds

InRequired == elements # <<>> /\ Last(elements) \in Required

Advance == position' = position + 1 /\ UNCHANGED <<phase, result>>

\* append_required_text(): text counts directly inside a required element.
ScanText ==
    /\ Scanning({"text", "skip"}) /\ Advance
    /\ fields' = IF InRequired /\ body[position].kind = "text"
                 THEN [fields EXCEPT ![Last(elements)] = Append(@, body[position].text)]
                 ELSE fields
    /\ UNCHANGED <<options, document, edits, body, elements, seen>>

\* Mutant: a closing tag closes whatever is open.
ScanCloseAny ==
    /\ Scanning({"close"})
    /\ IF elements = <<>> THEN Fail /\ UNCHANGED <<position, elements>>
       ELSE Advance /\ elements' = Front(elements)
    /\ UNCHANGED <<options, document, edits, body, seen, fields>>

ScanClose ==
    /\ Scanning({"close"})
    /\ IF elements = <<>> \/ Last(elements) # body[position].name
       THEN Fail /\ UNCHANGED <<position, elements>>
       ELSE Advance /\ elements' = Front(elements)
    /\ UNCHANGED <<options, document, edits, body, seen, fields>>

\* An opening or empty tag: nothing nests in a required element, and none of
\* these appears twice.
ScanOpen ==
    /\ Scanning({"open", "empty"})
    /\ LET name == body[position].name
       IN  IF InRequired \/ name \in seen
           THEN Fail /\ UNCHANGED <<position, elements, seen>>
           ELSE /\ Advance
                /\ seen' = seen \cup ({name} \cap Required)
                /\ elements' = IF body[position].kind = "open" THEN Append(elements, name)
                                                               ELSE elements
    /\ UNCHANGED <<options, document, edits, body, fields>>

ScanBad ==
    /\ Scanning({"bad"}) /\ Fail
    /\ UNCHANGED <<options, document, edits, body, scanner>>

-----------------------------------------------------------------------------
(* The values *)

\* trim_ascii_whitespace() on the pieces of a text.
Trim(pieces) ==
    LET solid == {i \in DOMAIN pieces : pieces[i] # Blank}
    IN  IF solid = {} THEN <<>>
        ELSE SubSeq(pieces, CHOOSE i \in solid : \A j \in solid : i <= j,
                            CHOOSE i \in solid : \A j \in solid : i >= j)

Joined(pieces) == FoldLeft(LAMBDA a, b : a \o b, "", pieces)

\* parse_positive_count() and, for "tiny", a positive number under which the
\* raw counts overflow, require_safe_count().
Counts == {"1", "11"}

\* to_string() of the units, and the older spellings of some torque units.
ForceNames == {"lbf", "N", "klbf", "kN", "kgf"}
TorqueNames == {"lbf-in", "lbf-ft", "N-m", "N-mm", "kgf-cm", "kN-m"}

NormalizeTorqueSpelling(t) ==
    CASE t = "Nm" -> "N-m" [] t = "Nmm" -> "N-mm" [] t = "kg-cm" -> "kgf-cm" [] OTHER -> t

\* The values a field may have, and the value it stands for.  The spelling
\* "unknown" names ForceUnit::Unknown and is refused with the others.
FieldAccepts(n, t) ==
    CASE n \in {"cfgcpf", "cfgcpt"} -> t \in Counts
      [] n = "scfgfu" -> t \in ForceNames
      [] n = "scfgtu" -> NormalizeTorqueSpelling(t) \in TorqueNames
      [] OTHER -> TRUE

FieldValue(n, t) == IF n = "scfgtu" THEN NormalizeTorqueSpelling(t) ELSE t

FieldUsable(n) ==
    /\ Trim(fields[n]) # <<>> /\ Len(Trim(fields[n])) <= MaxField
    /\ FieldAccepts(n, Joined(Trim(fields[n])))

\* The end of the text, and parse_sensor_configuration(): the product name may
\* be missing, and a default stands in for it.
Finish ==
    /\ phase = "scan" /\ position > Len(body)
    /\ IF elements = <<>> /\ Required \subseteq seen \cup {"prodname"}
             /\ \A n \in seen : FieldUsable(n)
       THEN /\ phase' = "done"
            /\ result' = [ok |-> TRUE,
                          values |-> [n \in Required |->
                              IF n \in seen THEN FieldValue(n, Joined(Trim(fields[n])))
                                            ELSE DefaultProduct]]
       ELSE Fail
    /\ UNCHANGED <<options, document, edits, body, scanner>>

Next ==
    \/ SensorServes \/ CheckOptions \/ Transfer
    \/ ScanText \/ ScanClose \/ ScanOpen \/ ScanBad \/ Finish

Spec == Init /\ [][Next]_vars

-----------------------------------------------------------------------------
(* What a document means, without a scanner *)

Positions(kinds) == {i \in DOMAIN document : document[i].kind \in kinds}

Count(kind, i) == Cardinality({j \in Positions({kind}) : j <= i})

Depth(i) == Count("open", i) - Count("close", i)

\* The tag that closes the element opened at i is the first to return to the
\* depth outside of it.
Partners(i) ==
    {j \in Positions({"close"}) :
        /\ j > i /\ Depth(j) = Depth(i) - 1
        /\ \A k \in i .. j - 1 : Depth(k) >= Depth(i)}

WellNested ==
    /\ \A i \in DOMAIN document : Depth(i) >= 0
    /\ Depth(Len(document)) = 0
    /\ \A i \in Positions({"open"}) : \A j \in Partners(i) : document[j].name = document[i].name

Occurrences(n) == {i \in Positions({"open", "empty"}) : document[i].name = n}

Within(i) ==
    IF document[i].kind = "empty" THEN {}
    ELSE {k \in DOMAIN document : k > i /\ \A j \in Partners(i) : k < j}

\* The k-th of the positions T, and the texts that stand there, in their order.
Nth(T, k) == Max({t \in T : Cardinality({u \in T : u <= t}) = k})

Pieces(T) == [k \in 1 .. Cardinality(T) |-> document[Nth(T, k)].text]

\* The text that a reader of the document finds in the element opened at i.
Content(i) == Trim(Pieces({t \in Within(i) : document[t].kind = "text"}))

\* The spellings of the torque units, each with the unit that it names.
TorqueSpellings ==
    {<<"lbf-in", "lbf-in">>, <<"lbf-ft", "lbf-ft">>, <<"N-m", "N-m">>, <<"Nm", "N-m">>,
     <<"N-mm", "N-mm">>, <<"Nmm", "N-mm">>, <<"kgf-cm", "kgf-cm">>, <<"kg-cm", "kgf-cm">>,
     <<"kN-m", "kN-m">>}

Meaningful(i) ==
    LET n == document[i].name
        text == Joined(Content(i))
    IN  /\ Within(i) \cap Positions({"open", "empty"}) = {}
        /\ Content(i) # <<>> /\ Len(Content(i)) <= MaxField
        /\ CASE n \in {"cfgcpf", "cfgcpt"} -> text \in Counts
             [] n = "scfgfu" -> text \in ForceNames
             [] n = "scfgtu" -> \E s \in TorqueSpellings : s[1] = text
             [] OTHER -> TRUE

\* The element opened at i states the value v.
States(i, v) ==
    IF document[i].name = "scfgtu" THEN <<Joined(Content(i)), v>> \in TorqueSpellings
                                   ELSE v = Joined(Content(i))

\* The whole document arrived, it is well formed, and every calibration field in
\* it stands once and means something; the product's name may be missing.
Sound ==
    /\ body = document /\ Positions({"bad"}) = {} /\ WellNested
    /\ \A n \in Required :
        /\ Cardinality(Occurrences(n)) \in (IF n = "prodname" THEN {0, 1} ELSE {1})
        /\ \A i \in Occurrences(n) : Meaningful(i)

-----------------------------------------------------------------------------
(* Properties *)

\* Every value has its type, and what is open or seen was read.
TypeOK ==
    /\ phase \in {"options", "transfer", "scan", "done"}
    /\ Len(body) <= MaxResponse /\ position \in 1 .. MaxResponse + 1
    /\ Len(elements) < position /\ seen \subseteq Required
    /\ DOMAIN fields = Required /\ result.ok \in BOOLEAN

\* A calibration is taken exactly from the documents in which every calibration
\* field stands once, holds nothing but its text, and has a usable value, and
\* its values are the ones written there: the scanner's stack, flags and
\* buffers compute what the document says.  It is never taken from a part of a
\* document, neither when the transfer breaks off behind the last field nor
\* when the response is longer than the buffer.
ConfigurationIsTheDocuments ==
    phase = "done" /\ body # <<>> =>
        /\ result.ok <=> Sound
        /\ result.ok =>
            \A n \in Required :
                IF Occurrences(n) = {} THEN result.values[n] = DefaultProduct
                ELSE \A i \in Occurrences(n) : States(i, result.values[n])

\* A configuration that the client's validate() accepted is never refused by
\* discovery for its options, which would latch a fault or retry for ever.
ValidConfigIsDiscoverable ==
    phase # "options" /\ ConfigValid(options) => OptionsAccepted(options)
=============================================================================
