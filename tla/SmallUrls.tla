------------------------------ MODULE SmallUrls ------------------------------
(***************************************************************************)
(* Values for the constants of RedirectTarget that both MCService and      *)
(* MCDeployment use: a small alphabet with every kind of token.            *)
(***************************************************************************)
EXTENDS Integers, Sequences, TLC

\* Words: path segments, names and values; "%tab" is "tab" percent-encoded.
Words == {"a", "b", "kc", "foo", "tab", "%tab", "ok", "Code"}
Marks == {"/", "\\", ":", "?", "#", "&", "="}
Foreign == {"LF", "U+FFFD", "e'"}

SmallTokens == Words \cup Marks \cup Foreign \cup {"%" \o t : t \in Marks \cup Foreign}

SmallEncode ==
  [t \in SmallTokens |-> IF t \in Marks \cup Foreign THEN "%" \o t ELSE t]

SmallDecode ==
  [t \in SmallTokens |->
     IF t = "%tab" THEN "tab"
     ELSE IF \E m \in Marks \cup Foreign : t = "%" \o m
     THEN CHOOSE m \in Marks \cup Foreign : t = "%" \o m
     ELSE t]

\* An encoded byte is three bytes, "e'" is two bytes, U+FFFD three.
SmallWidth ==
  [t \in SmallTokens |->
     CASE t = "%e'"                               -> 6
       [] t = "%U+FFFD"                           -> 9
       [] \E m \in Marks \cup {"LF"} : t = "%" \o m -> 3
       [] t = "e'"                                -> 2
       [] t = "U+FFFD"                            -> 3
       [] OTHER                                   -> 1]

SmallControls == {"LF"}
SmallUnprintable == Foreign
=============================================================================
