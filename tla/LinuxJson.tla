------------------------------ MODULE LinuxJson ------------------------------
(* linux/src/json.cpp: a document is parsed into a tree of values, changed     *)
(* there, and written back whole.                                              *)
EXTENDS JsonText

Arr(e) == [t |-> "arr", e |-> e]            \* any other value is its token
Obj(m) == [t |-> "obj", m |-> m]            \* m: members, in order
Missing == [t |-> "none"]

Members(v) == IF v.t = "obj" THEN v.m ELSE <<>>
Elements(v) == IF v.t = "arr" THEN v.e ELSE <<>>
Keys(v) == [i \in DOMAIN Members(v) |-> Members(v)[i].k]

Get(v, key) ==
    LET found == {i \in DOMAIN Members(v) : Members(v)[i].k = key} IN
    IF found = {} THEN Missing ELSE Members(v)[Min(found)].v

\* Value::Set on a member list: a key keeps its place
Assign(m, key, w) ==
    IF \E i \in DOMAIN m : m[i].k = key
    THEN [i \in DOMAIN m |-> IF m[i].k = key THEN [k |-> key, v |-> w] ELSE m[i]]
    ELSE Append(m, [k |-> key, v |-> w])

\* Set, and GetOrCreate with a Set of what it returned: a value that is no object
\* becomes one
Put(v, key, w) == Obj(Assign(Members(v), key, w))

---------------------------------------------------------------------------
(* Numbers. *)

\* Bound: no number has more digits than this
Digits(m) == CHOOSE d \in 1 .. 40 : m < 10 ^ d /\ (d = 1 \/ 10 ^ (d - 1) <= m)

\* n to d digits. A number half way between two goes up here; in the code, to the
\* side its double is on.
Rounded(n, d) ==
    IF Digits(n.m) <= d THEN n
    ELSE LET cut == Digits(n.m) - d
             m == (n.m + 5 * 10 ^ (cut - 1)) \div 10 ^ cut
             zeros == Max({z \in 0 .. d : m % 10 ^ z = 0})
         IN Num(m \div 10 ^ zeros, n.e + cut + zeros)

\* Whole, and below 9.0e15
Whole(n) ==
    LET d == Digits(n.m) IN
    n.e >= 0 /\ (d + n.e < 16 \/ (d + n.e = 16 /\ n.m \div 10 ^ (d - 1) < 9))

\* A number is written as %.0f if it is whole, else as %g: six digits stay
Shown(n) == IF Whole(n) THEN n ELSE Rounded(n, 6)

---------------------------------------------------------------------------
\* A parser: the set of the value it finds and the index after it, {} if it fails
Found(v, i) == {[v |-> v, i |-> i]}

\* parse[what, i] is what the parser of one kind finds at s[i]
ParseValue(s, parse, i) ==
    CASE At(s, i) \in {"str", "lit"} -> Found(s[i], i + 1)
      [] At(s, i) = "num" -> Found(Rounded(s[i], 15), i + 1)     \* strtod
      [] At(s, i) = "{" -> IF At(s, i + 1) = "}" THEN Found(Obj(<<>>), i + 2)
                           ELSE {[v |-> Obj(r.v), i |-> r.i] : r \in parse["members", i + 1]}
      [] At(s, i) = "[" -> IF At(s, i + 1) = "]" THEN Found(Arr(<<>>), i + 2)
                           ELSE {[v |-> Arr(r.v), i |-> r.i] : r \in parse["elements", i + 1]}
      [] OTHER -> {}

\* The members from s[i] on: of a key that comes twice the later value stays, at
\* the earlier place
First(k, v, m) ==
    LET later == {i \in DOMAIN m : m[i].k = k} IN
    <<[k |-> k, v |-> IF later = {} THEN v ELSE m[Min(later)].v]>>
    \o SelectSeq(m, LAMBDA e : e.k # k)
ParseObject(s, parse, i) ==
    IF At(s, i) # "str" \/ At(s, i + 1) # ":" THEN {}
    ELSE UNION {CASE At(s, r.i) = "}" -> Found(First(s[i].v, r.v, <<>>), r.i + 1)
                  [] At(s, r.i) = "," -> {[v |-> First(s[i].v, r.v, more.v), i |-> more.i] :
                                            more \in parse["members", r.i + 1]}
                  [] OTHER -> {} : r \in parse["value", i + 2]}

ParseArray(s, parse, i) ==
    UNION {CASE At(s, r.i) = "]" -> Found(<<r.v>>, r.i + 1)
             [] At(s, r.i) = "," -> {[v |-> <<r.v>> \o more.v, i |-> more.i] :
                                       more \in parse["elements", r.i + 1]}
             [] OTHER -> {} : r \in parse["value", i]}

\* The document, if any: anything after the value makes the text none
Parse(s) ==
    LET parse[what \in {"value", "members", "elements"}, i \in Nat] ==
          CASE what = "value" -> ParseValue(s, parse, i)
            [] what = "members" -> ParseObject(s, parse, i)
            [] what = "elements" -> ParseArray(s, parse, i)
    IN {r.v : r \in {x \in parse["value", 1] : x.i = Len(s) + 1}}
Document(s) == IF Parse(s) = {} THEN Missing ELSE CHOOSE v \in Parse(s) : TRUE

---------------------------------------------------------------------------
Separated(texts) ==
    FlattenSeq([i \in DOMAIN texts |-> IF i = 1 THEN texts[i] ELSE <<Mark(",")>> \o texts[i]])

\* One level of a value: marks, keys, and the values in it
Level(v) ==
    CASE v.t = "arr" -> <<Mark("[")>>
                        \o Separated([i \in DOMAIN v.e |-> <<v.e[i]>>]) \o <<Mark("]")>>
      [] v.t = "obj" -> <<Mark("{")>>
                        \o Separated([i \in DOMAIN v.m |->
                                        <<Str(v.m[i].k), Mark(":"), v.m[i].v>>]) \o <<Mark("}")>>
      [] OTHER -> <<v>>

\* Bound: how deep a document nests. What is deeper stays a value in the text,
\* which nothing parses.
Depth == 5
Text(v) ==
    FoldLeft(LAMBDA text, level : FlattenSeq([i \in DOMAIN text |-> Level(text[i])]),
             <<v>>, [level \in 1 .. Depth |-> level])

\* What Stringify makes of it: the same text with each number as it is shown
Shortened(s) == [i \in DOMAIN s |-> IF s[i].t = "num" THEN Shown(s[i]) ELSE s[i]]
Stringify(v) == Shortened(Text(v))
=============================================================================
