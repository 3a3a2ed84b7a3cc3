------------------------------ MODULE MCSandbox ------------------------------
(* Sandbox with manifests of every kind, two modules of one name, a         *)
(* directory that throws in one of the roots, and targets that go wrong in  *)
(* each of their tests.                                                     *)
EXTENDS Sandbox, TLC

MCDirs ==
    [alpha |-> [has |-> "json", fields |-> ("name" :> "tool") @@ ("entry_point" :> "a.sh"), files |-> {}],
     beta  |-> [has |-> "json", files |-> {},
                fields |-> ("name" :> "tool") @@ ("version" :> Wrong) @@ ("entry_point" :> "b.sh")],
     gamma |-> [has |-> "no manifest", fields |-> None, files |-> {"m.lua", "n.so", "x.txt"}],
     delta |-> [has |-> "not json", fields |-> None, files |-> {}],
     omega |-> [has |-> "throws", fields |-> None, files |-> {}],
     sigma |-> [has |-> "closed", fields |-> None, files |-> {"m.lua"}]]
MCRoots == {{"alpha", "beta", "gamma", "delta"}, {"delta", "omega", "sigma"}, {"alpha", "sigma"}}
MCEntry == ("m.lua" :> "lua") @@ ("n.so" :> "native")

MCFiles ==
    (<<EngineDir, "s.py">> :> "file") @@ (<<EngineDir, "t.ts">> :> "file")
    @@ (<<"other", "s.js">> :> "unreadable") @@ (<<EngineDir, "make">> :> "directory")
    @@ (<<"other", "prog">> :> "file") @@ (<<EngineDir, "pipe">> :> "special")
    @@ (<<EngineDir, "long">> :> "forbidden")
MCExtension ==
    ("s.py" :> "py") @@ ("t.ts" :> "ts") @@ ("s.js" :> "js") @@ ("make" :> "") @@ ("prog" :> "")
    @@ ("pipe" :> "") @@ ("long" :> "") @@ ("tool" :> "") @@ ("gone.py" :> "py") @@ ("delta" :> "")
MCCommands == {"tool", "code"}

MCNormalized ==
    ("s.py" :> <<Here, "s.py">>) @@ ("'/other/s.js'" :> <<"other", "s.js">>) @@ ("''" :> None)
    @@ ("pipe" :> <<Here, "pipe">>) @@ ("prog" :> <<"other", "prog">>)
    @@ ("long" :> <<Here, "long">>) @@ ("gone.py" :> <<Here, "gone.py">>)

Target(p, cwd) == [args |-> <<p>>, cwd |-> cwd]
MCTargets ==
    {Target(<<Here, "tool">>, NoCwd), Target(<<Here, "delta">>, NoCwd),
     [args |-> <<<<Here, "tool">>, <<Here, "s.py">>>>, cwd |-> NoCwd],
     Target(<<Here, "t.ts">>, NoCwd), Target(<<Here, "prog">>, "other"),
     Target(<<Here, "s.py">>, ""), Target(<<Here, "make">>, NoCwd),
     Target(<<Here, "pipe">>, NoCwd), Target(<<Here, "gone.py">>, NoCwd),
     Target(<<Here, "long">>, NoCwd), Target(<<"other", "s.js">>, NoCwd)}
=============================================================================
