---------------------------- MODULE RedirectTarget ----------------------------
(***************************************************************************)
(* Where the browser goes after a login: the validation of return_to, the  *)
(* parameters the callback passes through into its query string, and the   *)
(* final guard.                                                            *)
(*                                                                         *)
(* A string is a sequence of tokens: the characters that delimit a URL,    *)
(* percent-encoded characters, and words without either.  Encode and       *)
(* Decode are the functions form_urlencoded computes token by token; Width *)
(* gives the bytes of a token.  A callback query is the sequence of its    *)
(* <<name, value>> pairs as form_urlencoded::parse returns them, decoded.  *)
(***************************************************************************)
EXTENDS Integers, Sequences, SequencesExt

CONSTANTS
  Tokens,               \* every token a string may contain
  Encode,               \* [Tokens -> Tokens]: percent-encoding of one token
  Decode,               \* [Tokens -> Tokens]: its inverse on encoded tokens
  Width,                \* [Tokens -> Nat]: bytes of a token
  Controls,             \* control characters
  Replacement,          \* U+FFFD, what bytes that are not UTF-8 decode to
  Unprintable,          \* tokens outside printable ASCII
  MAX_RETURN_TO_LEN,
  MAX_PASSTHROUGH_VALUE_LEN,
  MAX_PASSTHROUGH_TOTAL_LEN,
  MAX_COMPOSED_REDIRECT_LEN

Delimiters == {"/", "\\", ":", "?", "#", "&", "="}

ASSUME TokenAssumption ==
  /\ Delimiters \cup {Replacement} \cup Controls \cup Unprintable \subseteq Tokens
  /\ Encode \in [Tokens -> Tokens \ (Delimiters \cup Unprintable)]
  /\ Decode \in [Tokens -> Tokens]
  /\ \A t \in Tokens : Decode[Encode[t]] = t \/ Encode[t] = t
  /\ Width \in [Tokens -> Nat \ {0}]
  /\ Controls \cup {Replacement} \subseteq Unprintable
  /\ \A t \in Delimiters : t \notin Unprintable /\ Width[t] = 1

ASSUME BudgetAssumption ==
  /\ {MAX_RETURN_TO_LEN, MAX_PASSTHROUGH_TOTAL_LEN, MAX_COMPOSED_REDIRECT_LEN} \subseteq Nat
  /\ MAX_RETURN_TO_LEN + 1 + MAX_PASSTHROUGH_TOTAL_LEN <= MAX_COMPOSED_REDIRECT_LEN

Bytes(s) ==
  LET upTo[n \in 0 .. Len(s)] == IF n = 0 THEN 0 ELSE upTo[n - 1] + Width[s[n]]
  IN  upTo[Len(s)]
Translate(s, f) == [i \in DOMAIN s |-> f[s[i]]]
Holds(s, t) == t \in ToSet(s)
Adjacent(s, a, b) == \E i \in 1 .. Len(s) - 1 : s[i] = a /\ s[i + 1] = b

\* What decoded strings consist of: encoding and decoding gives such a token back.
DecodedTokens == {t \in Tokens : Decode[Encode[t]] = t}

\* The part of s in front of the first t (all of s when there is none), and the rest.
Until(s, t) ==
  LET i == SelectInSeq(s, LAMBDA x : x = t)
  IN  IF i = 0 THEN s ELSE SubSeq(s, 1, i - 1)
Rest(s, t) == SubSeq(s, Len(Until(s, t)) + 1, Len(s))

Split(s, t) ==
  LET upTo[n \in 0 .. Len(s)] ==
        IF n = 0 THEN <<<<>>>>
        ELSE IF s[n] = t THEN Append(upTo[n - 1], <<>>)
        ELSE [upTo[n - 1] EXCEPT ![Len(upTo[n - 1])] = Append(@, s[n])]
  IN  upTo[Len(s)]

\* has_control_chars
has_control_chars(s) == ToSet(s) \cap Controls # {}

\* What return_to and the composed target have in common.
PathLike(s) ==
  /\ s # <<>> /\ s[1] = "/"
  /\ ToSet(s) \cap Unprintable = {}
  /\ ~Adjacent(s, "/", "/") /\ ~Adjacent(s, ":", "/")
  /\ ~Holds(s, "\\")

\* The prefix ends at a segment boundary of return_to.
HasPrefix(return_to, prefix) ==
  \/ return_to = prefix
  \/ /\ IsStrictPrefix(prefix, return_to)
     /\ \/ prefix # <<>> /\ Last(prefix) = "/"
        \/ return_to[Len(prefix) + 1] = "/"

\* Mutant: only a "//" or a backslash at the very front is refused.
ValidateReturnTo_FrontOnly(return_to, prefix) ==
  /\ Bytes(return_to) <= MAX_RETURN_TO_LEN
  /\ return_to # <<>> /\ return_to[1] = "/"
  /\ ToSet(return_to) \cap Unprintable = {}
  /\ Len(return_to) > 1 => return_to[2] \notin {"/", "\\"}
  /\ HasPrefix(return_to, prefix)

\* validate_return_to
ValidateReturnTo(return_to, prefix) ==
  /\ Bytes(return_to) <= MAX_RETURN_TO_LEN
  /\ PathLike(return_to)
  /\ HasPrefix(return_to, prefix)

IsDroppable(value) ==
  \/ Bytes(value) > MAX_PASSTHROUGH_VALUE_LEN
  \/ has_control_chars(value)
  \/ Holds(value, Replacement)

\* "selected": name has a value to pass when its first occurrence in the
\* request is usable; a later one never replaces an unusable first.
First(query, name) == SelectInSeq(query, LAMBDA pair : pair[1] = name)
IsSelected(query, name) ==
  First(query, name) # 0 /\ ~IsDroppable(query[First(query, name)][2])

\* The query of a target that may carry a fragment, and the names in it.
HasQuery(target) == Holds(Until(target, "#"), "?")
QueryOf(target) == Tail(Rest(Until(target, "#"), "?"))
PairsOf(target) == IF HasQuery(target) THEN Split(QueryOf(target), "&") ELSE <<>>
NameOf(pair) == Translate(Until(pair, "="), Decode)
NamesOf(target) == {NameOf(pair) : pair \in ToSet(PairsOf(target))}

EncodedPair(name, value) == <<name, "=">> \o Translate(value, Encode)

\* Mutant: a name of the query is compared as it is written there.
AppendPair_RawNames(appended, return_to, query, name) ==
  LET pair   == EncodedPair(name, query[First(query, name)][2])
      joined == IF appended = <<>> THEN pair ELSE appended \o <<"&">> \o pair
  IN  IF \/ ~IsSelected(query, name)
         \/ \E p \in ToSet(PairsOf(return_to)) : Until(p, "=") = <<name>>
         \/ Bytes(joined) > MAX_PASSTHROUGH_TOTAL_LEN
      THEN appended
      ELSE joined

\* Mutant: a joiner is counted for the first pair too.
AppendPair_AlwaysJoins(appended, return_to, query, name) ==
  LET pair   == EncodedPair(name, query[First(query, name)][2])
      joined == IF appended = <<>> THEN pair ELSE appended \o <<"&">> \o pair
  IN  IF \/ ~IsSelected(query, name)
         \/ <<name>> \in NamesOf(return_to)
         \/ Bytes(appended) + 1 + Bytes(pair) > MAX_PASSTHROUGH_TOTAL_LEN
      THEN appended
      ELSE joined

\* One turn of the loop over the allowlist.
AppendPair(appended, return_to, query, name) ==
  LET pair   == EncodedPair(name, query[First(query, name)][2])
      joined == IF appended = <<>> THEN pair ELSE appended \o <<"&">> \o pair
  IN  IF \/ ~IsSelected(query, name)
         \/ <<name>> \in NamesOf(return_to)
         \/ Bytes(joined) > MAX_PASSTHROUGH_TOTAL_LEN
      THEN appended
      ELSE joined

\* append_passthrough
AppendPassthrough(return_to, query, allow) ==
  LET upTo[n \in 0 .. Len(allow)] ==
        IF n = 0 THEN <<>> ELSE AppendPair(upTo[n - 1], return_to, query, allow[n])
      appended == upTo[Len(allow)]
  IN  IF appended = <<>>
      THEN return_to
      ELSE Until(return_to, "#") \o (IF HasQuery(return_to) THEN <<"&">> ELSE <<"?">>)
             \o appended \o Rest(return_to, "#")

\* A token that stays what it is in a URL: neither a delimiter nor to be encoded.
Plain(t) == t \in Tokens \ (Delimiters \cup Unprintable)

\* is_safe_composed_redirect
IsSafeComposedRedirect(target) ==
  Bytes(target) <= MAX_COMPOSED_REDIRECT_LEN /\ PathLike(target)

\* The Location header of the callback's answer.
Location(return_to, query, allow, prefix) ==
  LET target == AppendPassthrough(return_to, query, allow)
  IN  IF IsSafeComposedRedirect(target) THEN target ELSE prefix
=============================================================================
