----------------------------- MODULE PluginMarket -----------------------------
(* The market index as each shell reads it. The addresses and ids that the     *)
(* code takes apart are looked up in Prefix.                                   *)
EXTENDS LinuxJson, WindowsJson

CONSTANTS MarketText,  \* the market index
          Prefix       \* what follows npm: or gh: in an id, owner/repo in an address

\* The spec an entry is installed by, or ""
TextOf(v) == IF v.t = "str" THEN v.v ELSE ""
NpmPackage(p) == IF p.type # "package" THEN ""
                 ELSE IF p.id \in DOMAIN Prefix.npm THEN Prefix.npm[p.id] ELSE p.name
GitSpec(p) == IF p.type = "package" THEN ""
              ELSE IF p.id \in DOMAIN Prefix.gh THEN Prefix.gh[p.id]
              ELSE IF p.url \in DOMAIN Prefix.url THEN Prefix.url[p.url] ELSE ""

\* FetchMarket of Linux: the plugins of the index that have a name
LinuxMarket ==
    LET text(e, key) == TextOf(Get(e, key))
        named == SelectSeq(Elements(Get(Document(MarketText), "plugins")),
                           LAMBDA e : text(e, "name") # "")
    IN [i \in DOMAIN named |->
          [name |-> text(named[i], "name"), id |-> text(named[i], "id"),
           type |-> text(named[i], "type"), url |-> text(named[i], "url")]]

\* FetchMarket of Windows: an entry without an id of the usual form is installed by its name
InstallSpec(type, id, name) ==
    CASE type = "package" -> IF id \in DOMAIN Prefix.npm THEN Prefix.npm[id] ELSE name
      [] type = "repo" -> IF id \in DOMAIN Prefix.gh THEN Prefix.gh[id]
                          ELSE IF name # "" THEN Prefix.github[name] ELSE ""
      [] OTHER -> ""
WindowsMarket ==
    LET text(o, key) == GetString(MarketText, o.from, o.to, key)
        spec(o) == InstallSpec(text(o, "type"), text(o, "id"), text(o, "name"))
        at == ValueRange(MarketText, "plugins").from
        used == SelectSeq(IF at = 0 THEN <<>> ELSE Objects(MarketText, at + 1),
                          LAMBDA o : text(o, "name") # "" \/ spec(o) # "")
    IN [i \in DOMAIN used |-> [name |-> text(used[i], "name"), spec |-> spec(used[i])]]
=============================================================================
