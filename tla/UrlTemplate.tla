---------------------------- MODULE UrlTemplate ----------------------------
(***************************************************************************)
(* The two pure algorithms the HTTP metrics rest on: expandURL, with which *)
(* a client turns a URL template into a URL, and getURIApplyingRules, with *)
(* which client and server find the uri label of a request.                *)
(*                                                                         *)
(* expandURL works on characters, because it mixes the offsets of bytes    *)
(* and of runes. The rules work on whole segments of a path.               *)
(***************************************************************************)
EXTENDS Integers, Sequences, SequencesExt

CONSTANT MaxTemplate    \* the longest template expandURL is checked for

-----------------------------------------------------------------------------
(* expandURL. A template is a sequence of characters: "a" stands for any   *)
(* character of one byte, "w" for one of two bytes.                        *)

Bytes(s) == Len(s) + Len(SelectSeq(s, LAMBDA c : c = "w"))

(* strings.Index: the offset of the first c, counted in bytes, or -1.      *)
Index(s, c) ==
    IF ~Contains(s, c) THEN -1
    ELSE LET first == CHOOSE i \in DOMAIN s : s[i] = c /\ \A j \in 1..(i - 1) : s[j] # c
         IN  Bytes(SubSeq(s, 1, first - 1))

Panic == <<"panic">>

(* runes[0:start] + v + runes[end:]; a bound outside the slice panics.     *)
Splice(s, start, end, v) ==
    IF s = Panic \/ start \notin 0..Len(s) \/ end \notin 0..Len(s) THEN Panic
    ELSE SubSeq(s, 1, start) \o v \o SubSeq(s, end + 1, Len(s))

BugReplaceFirst(s, v) == Splice(s, Index(s, "{"), Index(s, "}"), v)

(* The body of the loop: the first placeholder is replaced.                *)
ReplaceFirst(s, v) == Splice(s, Index(s, "{"), Index(s, "}") + 1, v)

Count(t, c) == Len(SelectSeq(t, LAMBDA d : d = c))

(* url.PathEscape makes the variables sequences of characters of one byte; *)
(* without variables nothing is replaced.                                  *)
ExpandURL(t, variables) ==
    IF variables = <<>> \/ {Count(t, "{"), Count(t, "}")} = {Len(variables)}
    THEN FoldLeft(ReplaceFirst, t, variables)
    ELSE Panic

(* Templates whose braces are balanced and not nested.                     *)
Templates ==
    { t \in BoundedSeq({"a", "w", "{", "}"}, MaxTemplate) :
        \A n \in 0..Len(t) :
            LET p == SubSeq(t, 1, n) IN Count(p, "{") - Count(p, "}") \in 0..(IF n = Len(t) THEN 0 ELSE 1) }

Variables(t) == [i \in 1..Count(t, "{") |-> << <<"1", "2", "3", "4">>[i] >>]

(* What the expansion of a template is meant to be: the n-th placeholder   *)
(* is replaced by the n-th variable, all else stays.                       *)
Expansion(t) ==
    LET inside(i) == Count(SubSeq(t, 1, i), "{") > Count(SubSeq(t, 1, i), "}")
        piece(i) == CASE t[i] = "{" -> Variables(t)[Count(SubSeq(t, 1, i), "{")]
                      [] t[i] = "}" \/ inside(i) -> <<>>
                      [] OTHER -> <<t[i]>>
    IN  FlattenSeq([i \in 1..Len(t) |-> piece(i)])

(* No character of several bytes stands before the end of a placeholder.   *)
OffsetsAgree ==
    { t \in Templates : \A i, j \in DOMAIN t : t[i] = "w" /\ t[j] = "}" => j < i }

-----------------------------------------------------------------------------
(* Rules. A path is a sequence of segments as they are sent. Placeholder   *)
(* stands for {name}; Slashed has an escaped slash, and Unescape lists the *)
(* other escapes: of a percent sign, of a question mark (which stands for  *)
(* a hash too), of a space, of a letter that needs none, and of an escape. *)

Placeholder == "{}"
Slashed == "x%2Fy"

Unescape(s) ==
    CASE s = "%25" -> "%"
      [] s = "x%3Fy" -> "x?y"
      [] s = "x%20y" -> "x y"
      [] s = "m%65" -> "me"
      [] s = "m%2565" -> "m%65"
      [] OTHER -> s

(* The path after decoding, url.Path, in which an escaped slash has become *)
(* one that separates segments.                                            *)
Decoded(path) ==
    IF ~Contains(path, Slashed) THEN [i \in DOMAIN path |-> Unescape(path[i])]
    ELSE FlattenSeq([i \in DOMAIN path |->
                        IF path[i] = Slashed THEN <<"x", "y">> ELSE <<Unescape(path[i])>>])

(* A path is what url.Path would be encoded to, and url.RawPath is empty,  *)
(* but for escaped slashes, escapes nobody needs and braces.               *)
IsDefault(path) == \A i \in DOMAIN path : path[i] \notin {Slashed, "m%65", Placeholder}

(* The characters that getURIApplyingRules matches its rules with.         *)
RawPath(path) == IF IsDefault(path) THEN Decoded(path) ELSE path

(* url.Parse of text that was decoded before: a question mark ends the     *)
(* path; a percent sign must be the beginning of an escape.                *)
Cut(text) ==
    LET marks == { i \in DOMAIN text : text[i] = "x?y" }
    IN  IF marks = {} THEN text ELSE Append(SubSeq(text, 1, Min(marks) - 1), "x")

(* The URL a template is expanded to, with a value for every position.     *)
Expand(t, v) == [i \in DOMAIN t |-> IF t[i] = Placeholder THEN v[i] ELSE t[i]]

(* Every {name} of a rule became [^/]+ in its Condition.                   *)
Matches(template, path) ==
    /\ Len(template) = Len(path)
    /\ \A i \in 1..Len(path) : template[i] \in {Placeholder, path[i]}

(* ToInstrumentRules: a rule for every path with a placeholder, in the     *)
(* order in which the map of the paths happens to be ranged over.          *)
ToInstrumentRules(paths) ==
    LET templated == { p \in paths : Contains(p, Placeholder) }
    IN  { s \in [1..Cardinality(templated) -> templated] : Range(s) = templated }

BugURIApplyingRules(path, rules) ==
    LET hits == { i \in DOMAIN rules : Matches(rules[i], Decoded(path)) }
    IN  IF hits = {} THEN Decoded(path) ELSE rules[Min(hits)]

(* The first rule that matches, else the decoded path.                     *)
URIApplyingRules(path, rules) ==
    LET hits == { i \in DOMAIN rules : Matches(rules[i], RawPath(path)) }
    IN  IF hits = {} THEN Decoded(path) ELSE rules[Min(hits)]

-----------------------------------------------------------------------------
(* The templates whose expansion by expandURL is the one that was meant.   *)
ExpandedAsMeant == { t \in Templates : ExpandURL(t, Variables(t)) = Expansion(t) }
=============================================================================
