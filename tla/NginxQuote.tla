------------------------------ MODULE NginxQuote ------------------------------
(***************************************************************************)
(* The template function nginxQuote (internal/template/nginx_quote.go).  A *)
(* string is a sequence of characters.  nginxQuote is called with a value, *)
(* and if it returns a string called again with that.                      *)
(***************************************************************************)
EXTENDS Integers, Sequences, FiniteSets

CONSTANTS
  Characters,               \* the characters
  QuoteValues               \* the values

\* The special characters are { } ; # blank and tab; of those { and ; end a word
\* as a blank does, } and # count at its beginning only.
Single == "'"   Double == "\""   Backslash == "\\"
Special == {";", "#", " "}
Breaks == {"\n"}
Blanks == {" "} \cup Breaks
Quotes == {Single, Double}

ASSUME QuoteAssumption ==
  /\ Quotes \cup {Backslash} \subseteq Characters
  /\ QuoteValues \subseteq Seq(Characters)

VARIABLES
  value,                    \* the value
  results                   \* what the calls have returned

quoteVars == <<value, results>>

QuoteInit ==
  /\ value \in QuoteValues
  /\ results = <<>>

-------------------------------------------------------------------------------
ContainsAny(v, S) == \E n \in DOMAIN v : v[n] \in S

\* strings.TrimSpace
Trim(v) ==
  LET kept == {n \in DOMAIN v : v[n] \notin Blanks}
  IN  IF kept = {} THEN <<>>
      ELSE SubSeq(v, CHOOSE n \in kept : \A m \in kept : n <= m,
                     CHOOSE n \in kept : \A m \in kept : n >= m)

\* Mutant of IsEscapedAt: only the character before is looked at.
FollowsBackslash(v, n) == n > 1 /\ v[n - 1] = Backslash

\* The backslashes in front of position n are odd in number.
IsEscapedAt(v, n) ==
  Cardinality({k \in 1..(n - 1) : \A m \in k..(n - 1) : v[m] = Backslash}) % 2 = 1

IsQuotedWith(v, q) ==
  /\ Len(v) >= 2
  /\ v[1] = q /\ v[Len(v)] = q /\ ~IsEscapedAt(v, Len(v))

OtherQuote(q) == IF q = Single THEN Double ELSE Single

\* A leading quote without a trailing one, a trailing one without a leading one,
\* or one in between, if the value is not enclosed in the other quotes.
HasUnescapedQuotingChar(v, q) ==
  \/ v[1] = q /\ ~IsQuotedWith(v, q)
  \/ Len(v) > 1 /\ v[Len(v)] = q /\ ~IsEscapedAt(v, Len(v)) /\ v[1] # q
  \/ /\ \E n \in 2..(Len(v) - 1) : v[n] = q /\ ~IsEscapedAt(v, n)
     /\ ~IsQuotedWith(v, OtherQuote(q))

\* Mutant of HasUnescapedNginxSpecialChars: quotes do not protect them.
HasUnescapedSpecial(v) == \E n \in DOMAIN v : v[n] \in Special /\ ~IsEscapedAt(v, n)

HasUnescapedNginxSpecialChars(v) ==
  /\ \E n \in DOMAIN v : v[n] \in Special /\ ~IsEscapedAt(v, n)
  /\ \A q \in Quotes : ~IsQuotedWith(v, q)

\* Mutant of QuoteWith: a backslash at the end is left to escape the quote.
QuoteOnly(v, q) == <<q>> \o v \o <<q>>

QuoteWith(v, q) ==
  <<q>>
    \o (IF v[Len(v)] = Backslash /\ ~IsEscapedAt(v, Len(v)) THEN Append(v, Backslash)
                                                            ELSE v)
    \o <<q>>

Fails == [ok |-> FALSE, text |-> <<>>]
Returns(v) == [ok |-> TRUE, text |-> v]

\* Mutant of Quoted: the line breaks are looked for before the value is trimmed.
QuotedUntrimmed(untrimmed) ==
  LET v == Trim(untrimmed)
      single == HasUnescapedQuotingChar(v, Single)
      double == HasUnescapedQuotingChar(v, Double)
  IN  IF v = <<>> THEN Returns(v)
      ELSE IF ContainsAny(untrimmed, Breaks) \/ (single /\ double) THEN Fails
      ELSE IF double THEN Returns(QuoteWith(v, Single))
      ELSE IF single \/ HasUnescapedNginxSpecialChars(v)
           THEN Returns(QuoteWith(v, Double))
      ELSE Returns(v)

\* What nginxQuote returns.
Quoted(untrimmed) ==
  LET v == Trim(untrimmed)
      single == HasUnescapedQuotingChar(v, Single)
      double == HasUnescapedQuotingChar(v, Double)
  IN  IF v = <<>> THEN Returns(v)
      ELSE IF ContainsAny(v, Breaks) \/ (single /\ double) THEN Fails
      ELSE IF double THEN Returns(QuoteWith(v, Single))
      ELSE IF single \/ HasUnescapedNginxSpecialChars(v)
           THEN Returns(QuoteWith(v, Double))
      ELSE Returns(v)

Call ==
  \/ /\ results = <<>>
     /\ results' = <<Quoted(value)>>
     /\ UNCHANGED value
  \/ /\ Len(results) = 1 /\ results[1].ok
     /\ results' = Append(results, Quoted(results[1].text))
     /\ UNCHANGED value

QuoteSpec == QuoteInit /\ [][Call]_quoteVars

-------------------------------------------------------------------------------
(* Properties.                                                             *)

\* What stands between the quotes of a value that comes with quotes around it.
Inner(v) == IF \E q \in Quotes : IsQuotedWith(v, q) THEN SubSeq(v, 2, Len(v) - 1)
                                                   ELSE v

HasUnescaped(v, q) == \E n \in DOMAIN v : v[n] = q /\ ~IsEscapedAt(v, n)

\* Both quotes stand unescaped in the value.
Mixed(v) == \A q \in Quotes : HasUnescaped(Inner(Trim(v)), q)

\* The value cannot be quoted ("Errors if $string contains line breaks or both
\* unescaped single and double quotes", README.md).
MixedFails ==
  results # <<>> /\ Mixed(value) => ~results[1].ok

\* nginx reads v as one word: if it begins with a quote, up to the next such quote
\* that is not escaped, which is the last character; otherwise up to the first
\* unescaped blank, semicolon or brace, of which there is none.
OneWord(v) ==
  IF v[1] \in Quotes
  THEN IsQuotedWith(v, v[1]) /\ ~HasUnescaped(SubSeq(v, 2, Len(v) - 1), v[1])
  ELSE \A n \in DOMAIN v : v[n] \in Special \ {"#"} => IsEscapedAt(v, n)

\* A backslash at the end of a word without quotes escapes what follows it; the
\* documentation promises nothing of it.
EndsInBackslash(v) == v[Len(v)] = Backslash /\ ~IsEscapedAt(v, Len(v))

\* What is returned is one word for nginx, a comment nowhere, unless the value has
\* both quotes.
ReadAsOneWord ==
  \A n \in DOMAIN results :
    results[n].ok /\ results[n].text # <<>> /\ ~Mixed(value) =>
      /\ OneWord(results[n].text) /\ results[n].text[1] # "#"
      /\ EndsInBackslash(results[n].text) => results[n].text = Trim(value)

\* It is left alone when it is quoted again ("quoted string is untouched",
\* nginx_quote_test.go).
QuotedOnce ==
  Len(results) = 2 /\ ~Mixed(value) => results[2] = results[1]

\* Only what is documented fails.
FailsAsDocumented ==
  \A n \in DOMAIN results :
    ~results[n].ok => ContainsAny(Trim(value), Breaks) \/ Mixed(value)
===============================================================================
