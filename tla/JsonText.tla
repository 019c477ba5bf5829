------------------------------ MODULE JsonText ------------------------------
(* JSON text as both shells see it: a sequence of tokens. A string, a literal  *)
(* and a number are one token each, decoded; white space and signs are left    *)
(* out. Bound: a string holds no brace or bracket, which Windows would count.  *)
EXTENDS Integers, Sequences, FiniteSets, SequencesExt, FiniteSetsExt

Mark(m) == [t |-> m]                        \* one of { } [ ] , :
Str(s)  == [t |-> "str", v |-> s]
Lit(s)  == [t |-> "lit", v |-> s]           \* true, false, null
Num(m, e) == [t |-> "num", m |-> m, e |-> e] \* m * 10^e, where 10 does not divide m

At(s, i) == IF i \in DOMAIN s THEN s[i].t ELSE "end"

Openers == {"{", "["}
Closers == {"}", "]"}
=============================================================================
