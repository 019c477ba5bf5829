------------------------------ MODULE MCPlugins ------------------------------
(* Plugins for TLC: one package p that can be installed from the market or     *)
(* from a path, and a template bundle b; each depends on the other. The        *)
(* profiles hold their members in several orders; one of them is cut short,    *)
(* and one has the keys of another plugin's profile nested in its members.     *)
EXTENDS Plugins

Packages == {"b", "p"}
Texts == {"", "p"}
NodeModules == [n \in Packages |-> IF n = "p" THEN <<"b">> ELSE <<"p">>]
Specs == [s \in {"p", "path"} |-> "p"]
IdPrefixes == [npm |-> [s \in {"npm:p"} |-> "p"], gh |-> <<>>, url |-> <<>>,
             github |-> [s \in {"r"} |-> "github:r"]]

Member(k, text) == <<Str(k), Mark(":")>> \o text
Object(members) == <<Mark("{")>> \o Separated(members) \o <<Mark("}")>>
Array(items) == <<Mark("[")>> \o Separated(items) \o <<Mark("]")>>

Dsh(bundles) == Member("dsh", Object(<<Member("profile",
                   Object(<<Member("bundles", Array(bundles)),
                            Member("weight", <<Num(1234567, -6)>>)>>))>>))
Name == Member("name", <<Str("web")>>)
Private == Member("private", <<Lit("true")>>)
Built == Member("built", <<Num(12345678, 0)>>)
Deps(members) == Member("dependencies", Object(members))
P == Member("p", <<Str("1")>>)
B == <<Str("b")>>

DshFirst == Object(<<Name, Dsh(<<B>>), Deps(<<P>>)>>)
Pnpm == Member("pnpm", Object(<<Name, Deps(<<Member("b", <<Str("1")>>)>>), Dsh(<<<<Str("p")>>>>)>>))
Other == {Object(<<Name, Deps(<<>>), Private, Built, Dsh(<<B>>)>>),
          Object(<<Pnpm, Dsh(<<B>>), Deps(<<P>>)>>),
          Object(<<Name>>),
          SubSeq(DshFirst, 1, Len(DshFirst) - 1)}
Uses == {[port |-> p, file |-> DshFirst, acts |-> 6] : p \in {"linux", "windows"}}
        \cup {[port |-> p, file |-> f, acts |-> 4] : p \in {"linux", "windows"}, f \in Other}

Entry(id, name, type) ==
    Object(<<Member("id", <<Str(id)>>), Member("stars", <<Num(7, 0)>>),
             Member("name", <<Str(name)>>), Member("type", <<Str(type)>>)>>)
Market == Object(<<Member("updated", <<Str("today")>>),
                   Member("plugins", Array(<<Entry("npm:p", "p", "package"),
                                             Entry("x", "r", "repo")>>))>>)
=============================================================================
