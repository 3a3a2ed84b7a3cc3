-------------------------- MODULE MCCustomCommands --------------------------
(* CustomCommands with lines, bodies and storages for TLC: a command that  *)
(* runs itself, one that deletes or redefines itself and runs again, one   *)
(* that leaves the context, and storage of every generation.               *)
EXTENDS CustomCommands

Op(op) == [op |-> op]
Named(op, name) == [op |-> op, name |-> name]
To(c) == [op |-> "switch", to |-> c]
Defines(name, scope, body) ==
    [op |-> "define", name |-> name, scope |-> scope, body |-> body]

Simple == <<Op("save"), Op("status"), Op("help")>>
Again == <<Named("run", "a")>>
Chain == <<Named("run", "a"), Op("back"), Op("context"), Op("reset")>>
Vanishing == <<Named("delete", "a"), Named("run", "a"), Op("shared")>>
Renewing == <<Defines("a", Everywhere, Simple), Named("run", "a"), Op("bug"), Op("work"), Op("back")>>
Text == <<Named("expr", "a")>>

\* The catalog, cut down to one language.
MCCatalog ==
    [c \in {"global", "code", "customcommand", "js", "ai", "math"} |->
        CASE c = "global" -> {"global", "code", "customcommand", "ai", "math"}
          [] c \in {"code", "js"} -> {"global", "code", "js"}
          [] OTHER -> {"global", c}]

MCNames == {"a", "b", "help"}
MCLines ==
    {Op(op) : op \in {"unclosed", "pipe", "shell", "exit", "work", "list"}}
    \cup {To(c) : c \in DOMAIN MCCatalog}
    \cup {Named("expr", n) : n \in MCNames}
    \cup {Named("run", "b"), Named("show", "a"), Named("delete", "a")}
    \cup {Defines("a", scope, body) : scope \in {Everywhere, In("customcommand")},
                                      body \in {Simple, Again, Vanishing, Renewing}}
    \cup {Defines("b", Everywhere, Chain), Defines("b", In("nowhere"), Simple),
          Defines("b", Everywhere, Text), Defines("help", Everywhere, Simple)}

EntryOf(form, body) == [form |-> form, body |-> body]
Store(version, registry, entries) ==
    [version |-> version, registry |-> registry, entries |-> entries]

\* a: defined globally and in customcommand.
GlobalA == <<Everywhere, "a">>
BoundA == <<In("customcommand"), "a">>
LegacyA == <<Legacy, "a">>
LegacyB == <<Legacy, "b">>

MCStores ==
    {Store(0, <<>>, <<>>),
     Store(0, <<LegacyA, LegacyB>>, [id \in {LegacyA, LegacyB} |->
              EntryOf("text", IF id = LegacyA THEN Text ELSE Chain)]),
     Store(2, <<GlobalA, BoundA>>, [id \in {GlobalA, BoundA} |->
              IF id = GlobalA THEN Map(Chain) ELSE EntryOf("unscoped", Simple)]),
     Store(2, <<BoundA, GlobalA>>, [id \in {GlobalA, BoundA} |->
              IF id = GlobalA THEN Map(Simple) ELSE EntryOf("text", Renewing)]),
     Store(2, <<GlobalA, BoundA>>, [id \in {GlobalA, BoundA} |->
              IF id = GlobalA THEN Map(Simple) ELSE EntryOf("other", <<>>)])}
=============================================================================
