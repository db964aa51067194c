----------------------------- MODULE MessageCodec -----------------------------
(***************************************************************************)
(* What the consumers make of the value of a message: decode and           *)
(* latency_seconds of py-consumer/message.py and decodeMessage of          *)
(* consumer/message.go.  A value is abstracted to the class of values that *)
(* the two decoders tell apart.  What json.loads, int and json.Unmarshal   *)
(* do with each class is that of the libraries.                            *)
(***************************************************************************)

\* The values that a topic may hold.  The producers encode "valid" ones only
\* (whatever MSG_SIZE_BYTES is); anyone else may write to the topic.
Values == {"valid",          \* the three keys, an integer publish_time_ns
           "no_body",        \* no value at all
           "empty",          \* a value of no bytes
           "not_json",
           "json_null",
           "not_an_object",  \* any other JSON that is not an object
           "missing_key",
           "odd_id",         \* an id or a payload that is not text
           "null_time",
           "text_time",      \* publish_time_ns is text that is no number
           "numeric_text",   \* publish_time_ns is a number inside quotes
           "fraction_time",  \* publish_time_ns is not a whole number
           "infinite_time",  \* publish_time_ns is Infinity or 1e999
           "huge_time"}      \* an integer that no float can hold

\* json.loads, the three keys and int(): what decode returns or raises.
\* KeyError and TypeError become ValueError, which json.loads and int raise
\* themselves for other values; OverflowError is neither.
PyDecode(v) ==
    IF v = "infinite_time" THEN "OverflowError"
    ELSE IF v \in {"valid", "odd_id", "numeric_text", "fraction_time", "huge_time"}
         THEN "Message"
         ELSE "ValueError"

\* now - publish_time_ns is an integer of any size, which / turns into a float.
PyLatency(v) == IF v = "huge_time" THEN "OverflowError" ELSE "seconds"

\* json.Unmarshal into the struct: a missing key or a null leaves a field as it
\* is, 0 or empty, and a number must be an int64.
GoDecode(v) == IF v \in {"valid", "json_null", "missing_key", "null_time"}
               THEN "Message" ELSE "error"

\* What the handler of a consumer written in lang does with a value: whether it
\* counts it as consumed or as an error, and whether an exception escapes.
CountsConsumed(lang, v) == IF lang = "go" THEN GoDecode(v) = "Message"
                                          ELSE PyDecode(v) = "Message"
CountsError(lang, v) == IF lang = "go" THEN GoDecode(v) = "error"
                                       ELSE PyDecode(v) = "ValueError"
Escapes(lang, v) == /\ lang = "py"
                    /\ \/ PyDecode(v) = "OverflowError"
                       \/ PyDecode(v) = "Message" /\ PyLatency(v) = "OverflowError"
=============================================================================
