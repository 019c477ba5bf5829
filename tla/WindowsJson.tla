----------------------------- MODULE WindowsJson -----------------------------
(* windows/src/json.cpp: nothing is parsed; a document is scanned for a key,   *)
(* and changed by replacing a span of its text. A span is [from, to).          *)
EXTENDS JsonText

NoSpan == [from |-> 0, to |-> 0]

\* The first bracket of s[i .. end - 1] that closes what was open before, with depth
\* brackets opened meanwhile; end if there is none
Closing(s, i, end, depth) ==
    LET closing[p \in Nat \X Nat] ==
          LET j == p[1]
              d == p[2] IN
          IF j >= end THEN end
          ELSE IF At(s, j) \in Openers THEN closing[<<j + 1, d + 1>>]
          ELSE IF At(s, j) \notin Closers THEN closing[<<j + 1, d>>]
          ELSE IF d = 0 THEN j ELSE closing[<<j + 1, d - 1>>]
    IN closing[<<i, depth>>]

\* The end of the object or array that begins at s[a]
ValueEnd(s, a, end) == LET c == Closing(s, a + 1, end, 0) IN IF c < end THEN c + 1 ELSE end

\* Faulty form of SkipValue: it ends at the next comma, at whatever depth.
SkipToComma(s, a, end) ==
    IF At(s, a) = "str" THEN a + 1
    ELSE Min({i \in a .. end - 1 : At(s, i) = ","} \cup {end})

\* A string is skipped; after anything else the scan goes on to the bracket that
\* closes the enclosing value, not to the comma that ends this one
SkipValue(s, a, end) ==
    IF a < end /\ At(s, a) = "str" THEN a + 1 ELSE Closing(s, a, end, 0)

IsKey(s, i, end) == At(s, i) = "str" /\ i + 1 < end /\ At(s, i + 1) = ":"

\* A string, an object or an array is found; a literal is not
ValueSpan(s, a, end) ==
    IF a < end /\ At(s, a) = "str" THEN [from |-> a, to |-> a + 1]
    ELSE IF a < end /\ At(s, a) \in Openers THEN [from |-> a, to |-> ValueEnd(s, a, end)]
    ELSE NoSpan

\* The span of the value of key among s[i .. end - 1]
FindValueRange(s, i, end, key) ==
    LET find[j \in Nat] ==
          IF j >= end THEN NoSpan
          ELSE IF ~IsKey(s, j, end) THEN find[IF At(s, j) = "str" THEN j + 2 ELSE j + 1]
          ELSE IF s[j].v # key THEN find[SkipValue(s, j + 2, end)]
          ELSE ValueSpan(s, j + 2, end)
    IN find[i]

ValueRange(s, key) == FindValueRange(s, 1, Len(s) + 1, key)
ValueRangeAt(s, span, key) == FindValueRange(s, span.from, span.to, key)

ObjectKeys(s, i, end) ==
    LET keys[j \in Nat] ==
          CASE j >= end -> <<>>
            [] j < end /\ At(s, j) # "str" -> keys[j + 1]
            [] OTHER -> <<s[j].v>> \o keys[IF IsKey(s, j, end) THEN SkipValue(s, j + 2, end)
                                           ELSE j + 1]
    IN keys[i]

NextElement(s, j, end) == LET next == SkipValue(s, j, end) IN
                          IF next < end /\ At(s, next) = "," THEN next + 1 ELSE next

\* The strings of an array: an element that is none hides the rest
Strings(s, i, end) ==
    LET strings[j \in Nat] ==
          IF j >= end \/ At(s, j) = "]" THEN <<>>
          ELSE IF At(s, j) = "str" THEN <<s[j].v>> \o strings[NextElement(s, j, end)]
          ELSE strings[NextElement(s, j, end)]
    IN strings[i]

GetStringArray(s, span, key) ==
    LET r == ValueRangeAt(s, span, key) IN
    IF At(s, r.from) = "[" THEN Strings(s, r.from + 1, r.to) ELSE <<>>

\* Faulty form of ReplaceStringArray: the old strings stay, behind the new ones.
ReplaceFrom(s, span, key, items) ==
    LET r == ValueRangeAt(s, span, key)
        quoted == [i \in DOMAIN items |-> <<Str(items[i]), Mark(",")>>]
    IN IF At(s, r.from) # "[" THEN <<>>
       ELSE SubSeq(s, 1, r.from) \o FlattenSeq(quoted) \o SubSeq(s, r.from + 1, Len(s))

\* The text of an array of strings
Quoted(items) ==
    <<Mark("[")>>
    \o [k \in 1 .. 2 * Len(items) - 1 |->
          IF k % 2 = 0 THEN Mark(",") ELSE Str(items[(k + 1) \div 2])]
    \o <<Mark("]")>>

\* The text with the array replaced, or <<>>
ReplaceStringArray(s, span, key, items) ==
    LET r == ValueRangeAt(s, span, key) IN
    IF At(s, r.from) # "[" THEN <<>>
    ELSE SubSeq(s, 1, r.from - 1) \o Quoted(items) \o SubSeq(s, r.to, Len(s))

\* ObjectGetString skips to the next comma or closing brace, at any depth
SkipShort(s, a, end) ==
    IF At(s, a) = "str" THEN a + 1
    ELSE Min({i \in a .. end - 1 : At(s, i) \in {",", "}"}} \cup {Closing(s, a, end, 0)})

\* The string that key has among s[i .. end - 1], or ""
GetString(s, i, end, key) ==
    LET get[j \in Nat] ==
          CASE j >= end -> ""
            [] j < end /\ ~IsKey(s, j, end) -> get[IF At(s, j) = "str" THEN j + 2 ELSE j + 1]
            [] j < end /\ IsKey(s, j, end) ->
                  IF s[j].v # key THEN get[SkipShort(s, j + 2, end)]
                  ELSE IF At(s, j + 2) = "str" THEN s[j + 2].v ELSE ""
    IN get[i]

\* The spans of the objects of an array, from s[i] on
Objects(s, i) ==
    LET objects[j \in Nat] ==
          LET to == ValueEnd(s, j, Len(s) + 1) IN
          CASE At(s, j) \in {"end"} \cup Closers -> <<>>
            [] At(s, j) = "{" -> <<[from |-> j, to |-> to]>> \o objects[to]
            [] OTHER -> objects[j + 1]
    IN objects[i]
=============================================================================
