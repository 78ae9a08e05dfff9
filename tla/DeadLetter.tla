------------------------------ MODULE DeadLetter ------------------------------
(***************************************************************************)
(* write_to_dlq of app/resilience/dlq.py: what of a failed call's payload  *)
(* and error message comes to be stored.  A payload is a tree of           *)
(* dictionaries, lists and strings, as JSON has them; a dictionary is the  *)
(* sequence of its entries.  HubSpotRequest has when it is called.         *)
(***************************************************************************)
EXTENDS Naturals, Sequences, SequencesExt

CONSTANTS
    Payloads,        \* the payloads to choose from
    LongTexts,       \* the texts of more than 500 characters
    SensitiveKeys,   \* the keys with one of SENSITIVE_KEYS in them, in any case
    PayloadCap,      \* DLQ_PAYLOAD_MAX_BYTES, in strings as scrubbing leaves them
    Redacted         \* "[REDACTED]", also for the message that stands in for an error

ASSUME PayloadCapAssumption == PayloadCap \in Nat
ASSUME RedactedIsShort == Redacted \notin LongTexts

VARIABLES
    payload, error,  \* the arguments; the error is "none", "plain" or "sensitive"
    letters,         \* the rows of failed_external_calls
    writing          \* "pending", "committed" or "failed"

letterVars == << payload, error, letters, writing >>

-------------------------------------------------------------------------------
\* A string; cut is TRUE when it is the first 200 characters of its text and a marker.
Str(text) == [tag |-> "str", text |-> text, cut |-> FALSE]
List(items) == [tag |-> "list", items |-> items]
Dict(entries) == [tag |-> "dict", entries |-> entries]
At(key, value) == [key |-> key, value |-> value]

\* The strings of a tree in the order of its serialization.
RECURSIVE Strings(_)
Strings(tree) ==
    CASE tree.tag = "str" -> << tree >>
      [] tree.tag = "list" -> FlattenSeq([k \in DOMAIN tree.items |-> Strings(tree.items[k])])
      [] tree.tag = "dict" ->
           FlattenSeq([k \in DOMAIN tree.entries |-> Strings(tree.entries[k].value)])

\* What scrubbing makes of a string.
Shortened(text) == [Str(text) EXCEPT !.cut = (text \in LongTexts)]

\* scrub_payload
RECURSIVE Scrub(_)
Scrub(tree) ==
    CASE tree.tag = "str" -> Shortened(tree.text)
      [] tree.tag = "list" -> List([k \in DOMAIN tree.items |-> Scrub(tree.items[k])])
      [] tree.tag = "dict" -> Dict([k \in DOMAIN tree.entries |->
           LET e == tree.entries[k] IN
             At(e.key, IF e.key \in SensitiveKeys THEN Str(Redacted) ELSE Scrub(e.value))])

Fits(tree) == Len(Strings(tree)) <= PayloadCap

\* cap_payload: the beginning of the serialized text takes the place of a payload too big.
Cap(tree) ==
    IF Fits(tree) THEN tree
    ELSE Dict(<< At("preview", List(SubSeq(Strings(tree), 1, PayloadCap))) >>)

LetterInit ==
    /\ payload \in Payloads
    /\ error \in { "none", "plain", "sensitive" }
    /\ letters = << >>
    /\ writing = "pending"

\* Bug: capped first, then scrubbed.
CappedFirst == Scrub(Cap(payload))

StoredPayload == Cap(Scrub(payload))

StoredError == IF error = "sensitive" THEN Redacted ELSE error

WriteLetter ==
    /\ writing = "pending"
    /\ letters' = Append(letters, [payload |-> StoredPayload, last_error |-> StoredError])
    /\ writing' = "committed"
    /\ UNCHANGED << payload, error >>

\* Any exception is caught and rolled back.
WriteFails ==
    /\ writing = "pending"
    /\ writing' = "failed"
    /\ UNCHANGED << payload, error, letters >>

LetterNext == WriteLetter \/ WriteFails

LetterSpec == LetterInit /\ [][LetterNext]_letterVars

-------------------------------------------------------------------------------
LetterTypeOK ==
    /\ payload \in Payloads
    /\ error \in { "none", "plain", "sensitive" }
    /\ writing \in { "pending", "committed", "failed" }
    /\ Len(letters) = (IF writing = "committed" THEN 1 ELSE 0)

\* The strings with no sensitive key above them, by their paths and not by rewriting.
RECURSIVE Open(_)
Open(tree) ==
    CASE tree.tag = "str" -> { tree.text }
      [] tree.tag = "list" -> UNION { Open(tree.items[k]) : k \in DOMAIN tree.items }
      [] tree.tag = "dict" ->
           UNION { Open(e.value) : e \in { e \in ToSet(tree.entries) : e.key \notin SensitiveKeys } }

\* "Never persists secrets or credentials in the DLQ": a stored string stood in the
\* payload at a place with no sensitive key above it, however deep in lists and
\* dictionaries, in a preview as well, and "very long strings" are not stored whole; and
\* all of these are stored, whole or cut, unless the payload was too big.  A sensitive
\* error message is not stored.
NothingSensitiveStored ==
    \A k \in DOMAIN letters :
        LET stored == ToSet(Strings(letters[k].payload)) IN
          /\ stored \subseteq { Shortened(x) : x \in Open(payload) \cup { Redacted } }
          /\ Fits(Scrub(payload)) => { Shortened(x) : x \in Open(payload) } \subseteq stored
          /\ letters[k].last_error # "sensitive"
===============================================================================
